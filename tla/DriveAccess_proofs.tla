-------------------------- MODULE DriveAccess_proofs --------------------------
(***************************************************************************)
(* What the proofs about walks and permission runs need of Google Workspace: *)
(* edits keep its types, and a listing taken of it says what it states.      *)
(*                                                                         *)
(* And what the relationships planned from one listing give: exactly the     *)
(* access Drive gives, to documents that are left out only for a reason.     *)
(* Both compare paths through groups and folders of any depth.  A path is    *)
(* never followed: what Reached computes is the least set that contains its  *)
(* start and that no edge leads out of (a set of nodes for which it were not *)
(* would have a largest one, and the definition unfolds once at that), so a  *)
(* set that the relationships do not lead out of bounds what they give.      *)
(***************************************************************************)
EXTENDS DriveAccess, FiniteSetTheorems, WellFoundedInduction, TLAPS

DriveType == drive \in Drives /\ edits \in 0..MaxEdits

\* The Drive the models start with is a Drive.
LEMMA DriveInitType == DriveInit => DriveType
  <1> SUFFICES ASSUME DriveInit PROVE DriveType
    OBVIOUS
  <1>1. PICK first \in {{}, Groups} :
           drive.share = [i \in Items |-> IF i \in Documents THEN first ELSE {}]
    BY DEF DriveInit
  <1>2. /\ drive = [share |-> drive.share, parents |-> drive.parents,
                    members |-> drive.members, gone |-> {}, unreadable |-> {},
                    hidden |-> {}, detailed |-> drive.detailed]
        /\ drive.parents = [i \in Items |-> IF i = Root THEN {} ELSE {Root}]
        /\ drive.members = [g \in Groups |-> Users]
        /\ drive.detailed \in Detailed
    BY DEF DriveInit
  <1>3. drive.share \in [Items -> SUBSET Principals]
    BY <1>1 DEF Principals
  <1>4. drive.parents \in [Items -> SUBSET Folders]
    BY <1>2, AccessAssumption
  <1>5. drive.members \in [Groups -> SUBSET (Users \cup Groups)]
    BY <1>2
  <1>6. drive \in Drives
    BY <1>2, <1>3, <1>4, <1>5 DEF Drives
  <1>7. edits \in 0..MaxEdits
    BY AccessAssumption DEF DriveInit
  <1> QED
    BY <1>6, <1>7 DEF DriveType

\* An edit leaves a Drive.
LEMMA DriveNextType ==
    ASSUME DriveType, DriveNext
    PROVE  DriveType'
  <1>1. edits' \in 0..MaxEdits
    BY AccessAssumption DEF DriveType, DriveNext, Share, Move, ChangeGroup,
       DeleteAccount, LoseSight, Counted
  <1>2. CASE Share
    <2>1. PICK i \in Items, w \in Principals :
             drive' = [drive EXCEPT !.share[i] = IF w \in @ THEN @ \ {w} ELSE @ \cup {w}]
      BY <1>2 DEF Share
    <2> QED
      BY <1>1, <2>1 DEF DriveType, Drives
  <1>3. CASE Move
    <2>1. PICK i \in Items : \E f \in Folders \ {i} :
             drive' = [drive EXCEPT !.parents[i] = IF f \in @ THEN @ \ {f} ELSE @ \cup {f}]
      BY <1>3 DEF Move
    <2> QED
      BY <1>1, <2>1 DEF DriveType, Drives
  <1>4. CASE ChangeGroup
    <2>1. PICK g \in Groups : \E m \in (Users \cup Groups) \ {g} :
             drive' = [drive EXCEPT !.members[g] = IF m \in @ THEN @ \ {m} ELSE @ \cup {m}]
      BY <1>4 DEF ChangeGroup
    <2> QED
      BY <1>1, <2>1 DEF DriveType, Drives
  <1>5. CASE DeleteAccount
    BY <1>1, <1>5 DEF DriveType, Drives, DeleteAccount
  <1>6. CASE LoseSight
    BY <1>1, <1>6 DEF DriveType, Drives, LoseSight
  <1> QED
    BY <1>2, <1>3, <1>4, <1>5, <1>6 DEF DriveNext

-----------------------------------------------------------------------------
(* One listed ACL.                                                         *)

\* An ACL lists permissions, whose sources are folders or the item itself.
LEMMA ListedAclType ==
    ASSUME NEW dr \in Drives, NEW i \in Items
    PROVE  ListedAcl(dr, i) \in SUBSET Permission
  <1> DEFINE above == Above(dr, i)
             given(w) == {f \in above : w \in dr.share[f]}
             source(f) == IF f = i \/ ~dr.detailed THEN Direct ELSE f
             listed(w) == [who |-> w, sources |-> {source(f) : f \in given(w)},
                           deleted |-> w \in dr.gone]
  <1>1. above \subseteq Folders \cup {i}
    BY DEF Above
  <1>2. \A f \in above : source(f) \in Folders \cup {Direct}
    BY <1>1
  <1>3. ASSUME NEW w \in Principals
        PROVE  listed(w) \in Permission
    <2>1. {source(f) : f \in given(w)} \subseteq Folders \cup {Direct}
      BY <1>2
    <2> QED
      BY <2>1 DEF Permission
  <1>4. ListedAcl(dr, i) = {listed(w) : w \in {x \in Principals : given(x) # {}}}
    BY DEF ListedAcl
  <1> QED
    BY <1>3, <1>4

\* Whoever a listed ACL lets in, Drive states.
LEMMA ListedIsStated ==
    ASSUME NEW dr, NEW i \in Items, NEW p \in ListedAcl(dr, i), ~p.deleted,
           p.who # Refused
    PROVE  <<i, p.who>> \in Stated(dr)
  <1> DEFINE given(j) == {q.who : q \in {x \in ListedAcl(dr, j) : ~x.deleted}} \ {Refused}
  <1>1. <<i, p.who>> \in {i} \X given(i)
    OBVIOUS
  <1>2. <<i, p.who>> \in UNION {{j} \X given(j) : j \in Items}
    BY <1>1
  <1> HIDE DEF given
  <1>3. UNION {{j} \X given(j) : j \in Items} \subseteq Stated(dr)
    BY DEF Stated, given
  <1> QED
    BY <1>2, <1>3

\* Folders an item is in are stated.
LEMMA ParentIsStated ==
    ASSUME NEW dr, NEW i \in Items, NEW f \in Folders, f \in dr.parents[i]
    PROVE  <<i, f>> \in Stated(dr)
  BY DEF Stated, Hierarchy

\* What Drive states can be written as relationships.
LEMMA StatedType ==
    ASSUME NEW dr \in Drives
    PROVE  Stated(dr) \subseteq Tuples
  <1>1. Hierarchy(dr) \subseteq Tuples
    BY DEF Hierarchy, Tuples, Nodes
  <1>2. ASSUME NEW i \in Items, NEW p \in ListedAcl(dr, i), p.who # Refused
        PROVE  <<i, p.who>> \in Tuples
    <2>1. p.who \in Principals
      BY ListedAclType DEF Permission
    <2> QED
      BY <1>2, <2>1 DEF Principals, Tuples, Nodes
  <1>3. ASSUME NEW g \in Groups, NEW m \in Members(dr, g)
        PROVE  <<g, m>> \in Tuples
    <2>1. m \in Users \cup Groups
      BY DEF Members, Drives
    <2> QED
      BY <2>1 DEF Tuples, Nodes
  <1> DEFINE given(i) == {p.who : p \in {x \in ListedAcl(dr, i) : ~x.deleted}} \ {Refused}
             shared == UNION {{i} \X given(i) : i \in Items}
             grouped == UNION {{g} \X Members(dr, g) : g \in Groups}
  <1>4. shared \subseteq Tuples
    BY <1>2
  <1>5. grouped \subseteq Tuples
    BY <1>3
  <1>6. Stated(dr) = Hierarchy(dr) \cup shared \cup grouped
    BY DEF Stated
  <1> QED
    BY <1>1, <1>4, <1>5, <1>6

\* A walk at one moment yields a listing.
LEMMA ListingType ==
    ASSUME NEW dr \in Drives
    PROVE  ListPermissionResources(dr) \in Listings
  <1>1. \A i \in Items : ListedAcl(dr, i) \in SUBSET Permission
    BY ListedAclType
  <1>2. [i \in Items |-> IF i \in dr.unreadable THEN {} ELSE ListedAcl(dr, i)]
            \in [Items -> SUBSET Permission]
    BY <1>1
  <1>3. dr.parents \in [Items -> SUBSET Folders] /\ dr.unreadable \subseteq Items
    BY DEF Drives
  <1> QED
    BY <1>2, <1>3 DEF ListPermissionResources, Listings

\* Having listed nothing is a listing too.
LEMMA NothingType == Nothing \in Listings
  BY DEF Nothing, Listings

-----------------------------------------------------------------------------
(* Reached, without its recursion.                                         *)

\* T with what the pairs lead to in one step, and sets nothing leads out of.
Grown(edges, T) == T \cup {e[1] : e \in {x \in edges : x[2] \in T}}
IsClosed(edges, T) == \A e \in edges : e[2] \in T => e[1] \in T

\* What Reached computes, without the recursion.
Closure(edges, S) ==
    {n \in Nodes : \A T \in SUBSET Nodes : S \subseteq T /\ IsClosed(edges, T) => n \in T}

\* Adding what an edge leads to does not change the closure, and what grows no
\* more is its own.
LEMMA ClosureGrows ==
    ASSUME NEW edges, \A e \in edges : e[1] \in Nodes, NEW S \in SUBSET Nodes
    PROVE  /\ Grown(edges, S) \in SUBSET Nodes
           /\ Grown(edges, S) = S => Closure(edges, S) = S
           /\ Closure(edges, Grown(edges, S)) = Closure(edges, S)
  <1>1. Grown(edges, S) \in SUBSET Nodes
    BY DEF Grown
  <1>2. ASSUME Grown(edges, S) = S PROVE Closure(edges, S) = S
    <2>1. IsClosed(edges, S)
      BY <1>2 DEF Grown, IsClosed
    <2> QED
      BY <2>1 DEF Closure
  <1>3. \A T \in SUBSET Nodes : IsClosed(edges, T) => (S \subseteq T <=> Grown(edges, S) \subseteq T)
    BY DEF Grown, IsClosed
  <1> QED
    BY <1>1, <1>2, <1>3 DEF Closure

\* A function that satisfies the recursive equation is the closure: otherwise
\* there would be a largest set where it is not.
LEMMA GrowIsClosure ==
    ASSUME NEW edges, \A e \in edges : e[1] \in Nodes,
           NEW g, g = [T \in SUBSET Nodes |->
                          IF Grown(edges, T) = T THEN T ELSE g[Grown(edges, T)]],
           NEW S \in SUBSET Nodes
    PROVE  g[S] = Closure(edges, S)
  <1> SUFFICES ASSUME g[S] # Closure(edges, S) PROVE FALSE
    OBVIOUS
  <1> DEFINE wrong == {Nodes \ T : T \in {U \in SUBSET Nodes : g[U] # Closure(edges, U)}}
  <1>1. wrong \subseteq SUBSET Nodes /\ wrong # {}
    <2>1. Nodes \ S \in wrong
      OBVIOUS
    <2>2. \A y \in wrong : y \in SUBSET Nodes
      OBVIOUS
    <2> HIDE DEF wrong
    <2> QED
      BY <2>1, <2>2
  <1>2. FiniteSubsetsOf(Nodes) = SUBSET Nodes
    BY NodesAssumption, FS_FiniteSubsetsOfFinite
  <1>3. PICK m \in wrong : \A y \in wrong : <<y, m>> \notin StrictSubsetOrdering(Nodes)
    <2> HIDE DEF wrong
    <2>1. IsWellFoundedOn(StrictSubsetOrdering(Nodes), SUBSET Nodes)
      BY <1>2, FS_StrictSubsetOrderingWellFounded
    <2> QED
      BY <1>1, <2>1, WFMin, Zenon
  <1>4. PICK T \in SUBSET Nodes : m = Nodes \ T /\ g[T] # Closure(edges, T)
    BY <1>3
  <1> DEFINE more == Grown(edges, T)
  <1>5. more \in SUBSET Nodes /\ T \subseteq more
    BY ClosureGrows DEF Grown
  <1>6. more # T
    BY <1>4, ClosureGrows
  <1>7. g[T] = g[more]
    BY <1>6, Zenon
  <1>8. g[more] # Closure(edges, more)
    BY <1>4, <1>7, ClosureGrows
  <1>9. Nodes \ more \in wrong
    BY <1>5, <1>8
  <1>10. <<Nodes \ more, m>> \in StrictSubsetOrdering(Nodes)
    BY <1>4, <1>5, <1>6 DEF StrictSubsetOrdering
  <1> QED
    BY <1>3, <1>9, <1>10

\* What Reached computes, step by step, is the least closed set.
THEOREM ReachedIsClosure ==
    ASSUME NEW edges, \A e \in edges : e[1] \in Nodes, NEW S \in SUBSET Nodes
    PROVE  Reached(edges, S) = Closure(edges, S)
  <1> DEFINE equation(g) == g = [T \in SUBSET Nodes |->
                          IF Grown(edges, T) = T THEN T ELSE g[Grown(edges, T)]]
             closure == [T \in SUBSET Nodes |-> Closure(edges, T)]
             grow == CHOOSE g : equation(g)
  <1>1. equation(closure)
    <2>1. \A T \in SUBSET Nodes : closure[T] =
             IF Grown(edges, T) = T THEN T ELSE closure[Grown(edges, T)]
      BY ClosureGrows
    <2> QED
      BY <2>1
  <1>2. equation(grow)
    BY <1>1, Zenon
  <1>3. Reached(edges, S) = grow[S]
    BY Zenon DEF Reached, Grown
  <1> HIDE DEF grow
  <1> QED
    BY <1>2, <1>3, GrowIsClosure

\* How Reached is used: it has what it starts from, nothing leads out of it,
\* and it is the least such set.
LEMMA ReachedFacts ==
    ASSUME NEW edges, \A e \in edges : e[1] \in Nodes, NEW S \in SUBSET Nodes
    PROVE  /\ S \subseteq Reached(edges, S) /\ Reached(edges, S) \subseteq Nodes
           /\ IsClosed(edges, Reached(edges, S))
  BY ReachedIsClosure DEF Closure, IsClosed

\* A set that nothing leads out of holds all that is reached from within it:
\* how a path of any length is ruled out, in place of an induction on it.
LEMMA ReachedIsLeast ==
    ASSUME NEW edges, \A e \in edges : e[1] \in Nodes, NEW S \in SUBSET Nodes,
           NEW T, S \subseteq T, \A e \in edges : e[2] \in T => e[1] \in T
    PROVE  Reached(edges, S) \subseteq T
  <1> DEFINE inside == T \cap Nodes
  <1>1. inside \in SUBSET Nodes /\ S \subseteq inside /\ IsClosed(edges, inside)
    BY DEF IsClosed
  <1>2. inside \subseteq T
    OBVIOUS
  <1> HIDE DEF inside
  <1>3. Closure(edges, S) \subseteq inside
    BY <1>1 DEF Closure
  <1>4. Reached(edges, S) = Closure(edges, S)
    BY ReachedIsClosure
  <1> QED
    BY <1>2, <1>3, <1>4

-----------------------------------------------------------------------------
\* Memberships, all of them.
AllMembers(dr) == {e \in Groups \X (Users \cup Groups) : e[2] \in Members(dr, e[1])}

\* One principal's entry in the ACL of an item.
Given(dr, i, w) == {f \in Above(dr, i) : w \in dr.share[f]}
Entry(dr, i, w) ==
    [who |-> w, sources |-> {IF f = i \/ ~dr.detailed THEN Direct ELSE f : f \in Given(dr, i, w)},
     deleted |-> w \in dr.gone]

\* One entry for each principal the item or something above it is shared with.
LEMMA ListedAclIs ==
    ASSUME NEW dr, NEW i
    PROVE  ListedAcl(dr, i) = {Entry(dr, i, w) : w \in {x \in Principals : Given(dr, i, x) # {}}}
  BY Zenon DEF ListedAcl, Entry, Given

\* Who may view an item, by where it was shared.
LEMMA EntitledIs ==
    ASSUME NEW dr, NEW u, NEW i
    PROVE  Entitled(dr, u, i) <=>
             /\ u \notin dr.gone
             /\ \E f \in Above(dr, i) : \E w \in dr.share[f] :
                   w \in Reached(AllMembers(dr), {u}) \ dr.gone
  BY DEF Entitled, AllMembers

\* A folder is above itself, and what is above a folder is above its entries.
LEMMA AboveFacts ==
    ASSUME NEW dr, NEW i \in Items
    PROVE  /\ i \in Above(dr, i) /\ Above(dr, i) \subseteq Folders \cup {i}
           /\ \A f \in Folders : f \in dr.parents[i] =>
                 f \in Above(dr, i) /\ Above(dr, f) \subseteq Above(dr, i)
  <1>1. \A e \in Hierarchy(dr) : e[1] \in Nodes
    BY DEF Hierarchy, Nodes
  <1>2. \A f \in Folders \cup {i} : {f} \in SUBSET Nodes
    BY DEF Nodes, Items
  <1>3. i \in Above(dr, i)
    BY <1>1, <1>2, ReachedFacts DEF Above
  <1>4. ASSUME NEW f \in Folders, f \in dr.parents[i], NEW h \in Above(dr, f)
        PROVE  h \in Above(dr, i)
    <2>1. h \in Folders /\ f \in Reached(Hierarchy(dr), {h})
      BY <1>4 DEF Above
    <2>2. <<i, f>> \in Hierarchy(dr)
      BY <1>4 DEF Hierarchy
    <2>3. i \in Reached(Hierarchy(dr), {h})
      BY <1>1, <1>2, <2>1, <2>2, ReachedFacts DEF IsClosed
    <2> QED
      BY <2>1, <2>3 DEF Above
  <1>5. \A f \in Folders : f \in Above(dr, f)
    BY <1>1, ReachedFacts DEF Above, Nodes, Items
  <1> QED
    BY <1>3, <1>4, <1>5 DEF Above

\* Members that Drive shows are not deleted, and neither is their group.
LEMMA MembersFacts ==
    ASSUME NEW dr \in Drives, NEW g \in Groups, NEW m \in Members(dr, g)
    PROVE  m \in Users \cup Groups /\ m \notin dr.gone /\ g \notin dr.gone
  BY DEF Members, Drives

-----------------------------------------------------------------------------
(* The relationships of the current listing, part by part.                 *)

Referenced == ReferencedGroups(Listed)
Resolved == GroupsResolve(drive, Referenced)
Unresolved == IF Resolved THEN {} ELSE Referenced
PlannedGroups == IF Resolved THEN GroupTuples(drive, Referenced) ELSE {}
Enabled == EligibleDocuments(Listed, Unresolved, {})
PlannedItems ==
    (ActiveFolders(Listed) \ UnusableFolders(Listed, Unresolved)) \cup Enabled
Planned == PlannedGroups \cup UNION {ItemTuples(Listed, i) : i \in PlannedItems}

\* The plan of a run that leaves nothing out deliberately.
LEMMA OutcomeIs == Outcome({}) = [desired |-> Planned, eligible |-> Enabled]
  BY DEF Outcome, DesiredState, Planned, PlannedItems, Enabled, PlannedGroups,
     Unresolved, Resolved, Referenced

\* A listing taken at one moment, field by field.
LEMMA ListedIs ==
    /\ Listed.active = {i \in Items : i \in Reached(Hierarchy(drive), {Root})}
    /\ Listed.parents = drive.parents /\ Listed.failed = drive.unreadable
    /\ \A i \in Items : i \notin drive.unreadable => Listed.acl[i] = ListedAcl(drive, i)
  BY DEF Listed, ListPermissionResources

\* A planned item can be used, and its ACL is the one Drive lists.
LEMMA PlannedItem ==
    ASSUME NEW i \in PlannedItems
    PROVE  /\ i \in Items /\ i \in Listed.active
           /\ AclIsUsable(Listed, i, Unresolved)
           /\ Listed.acl[i] = ListedAcl(drive, i)
           /\ i \in Documents => i \in Enabled
  <1>1. i \in Items /\ i \in Listed.active /\ AclIsUsable(Listed, i, Unresolved)
    BY ListedIs DEF PlannedItems, Enabled, EligibleDocuments, ActiveFolders,
       ActiveDocuments, UnusableFolders
  <1>2. i \in Documents => i \in Enabled
    BY AccessAssumption DEF PlannedItems, ActiveFolders
  <1> QED
    BY <1>1, <1>2, ListedIs DEF AclIsUsable

\* A group in the ACL of a planned item is resolved.
LEMMA PlannedGroupIsResolved ==
    ASSUME NEW i \in PlannedItems, NEW p \in ListedAcl(drive, i), p.who \in Groups, ~p.deleted
    PROVE  Resolved /\ p.who \in Referenced
  <1>1. p \in Listed.acl[i] /\ i \in Listed.active
    BY PlannedItem
  <1>2. p.who \in Referenced
    BY <1>1 DEF Referenced, ReferencedGroups
  <1>3. p.who \notin Unresolved
    BY <1>1, PlannedItem DEF AclIsUsable
  <1> QED
    BY <1>2, <1>3 DEF Unresolved

\* The pairs of the plan.
LEMMA PlannedPairs ==
    ASSUME NEW i \in PlannedItems
    PROVE  /\ \A f \in ParentsInScope(Listed, i) : <<i, f>> \in Planned
           /\ \A p \in ListedAcl(drive, i) :
                 ~p.deleted /\ ~SafelyInherited(Listed, i, p) => <<i, p.who>> \in Planned
  <1>1. ItemTuples(Listed, i) \subseteq Planned
    BY DEF Planned
  <1>2. Listed.acl[i] = ListedAcl(drive, i)
    BY PlannedItem
  <1> QED
    BY <1>1, <1>2 DEF ItemTuples, ParentTuples, AclTuples

\* Why a relationship is in the plan: a membership, a parent or an entry of an ACL.
LEMMA PlannedCases ==
    ASSUME NEW e \in Planned
    PROVE  \/ e \in PlannedGroups
           \/ \E i \in PlannedItems :
                \/ \E f \in ParentsInScope(Listed, i) : e = <<i, f>>
                \/ \E p \in ListedAcl(drive, i) : ~p.deleted /\ e = <<i, p.who>>
  <1> SUFFICES ASSUME e \notin PlannedGroups
               PROVE  \E i \in PlannedItems :
                        \/ \E f \in ParentsInScope(Listed, i) : e = <<i, f>>
                        \/ \E p \in ListedAcl(drive, i) : ~p.deleted /\ e = <<i, p.who>>
    OBVIOUS
  <1>1. PICK i \in PlannedItems : e \in ItemTuples(Listed, i)
    BY DEF Planned
  <1>2. Listed.acl[i] = ListedAcl(drive, i)
    BY PlannedItem
  <1> QED
    BY <1>1, <1>2 DEF ItemTuples, ParentTuples, AclTuples

\* A planned membership is one that Google reports.
LEMMA PlannedGroupPair ==
    ASSUME NEW e \in PlannedGroups
    PROVE  /\ Resolved /\ e \in AllMembers(drive)
           /\ e[1] \in Groups /\ e[2] \in Members(drive, e[1])
  BY DEF PlannedGroups, GroupTuples, AllMembers

\* Relationships are about users, groups and items only.
LEMMA PlannedNodes ==
    \A e \in Planned : e[1] \in Nodes
  <1> TAKE e \in Planned
  <1>1. CASE e \in PlannedGroups
    BY <1>1, PlannedGroupPair DEF Nodes
  <1>2. ASSUME NEW i \in PlannedItems, e[1] = i PROVE e[1] \in Nodes
    BY <1>2, PlannedItem DEF Nodes
  <1> QED
    BY <1>1, <1>2, PlannedCases

\* The groups a user is in are planned as far down as the resolver goes.
LEMMA PlannedMembership ==
    ASSUME DriveType, NEW u \in Users,
           NEW w \in Reached(AllMembers(drive), {u}),
           w \in Groups => Resolved /\ w \in Referenced
    PROVE  w \in Reached(Planned, {u})
  <1> DEFINE down == {e \in (Users \cup Groups) \X Groups : e[1] \in Members(drive, e[2])}
             visited == Reached(down, Referenced)
             joined == Reached(Planned, {u})
             good == {x \in Nodes : (x = u) \/
                        (x \in Groups /\ (Resolved /\ x \in visited => x \in joined))}
  <1>1. {u} \in SUBSET Nodes /\ Referenced \in SUBSET Nodes
    BY DEF Nodes, Referenced, ReferencedGroups
  <1>2. \A e \in AllMembers(drive) : e[1] \in Nodes
    BY DEF AllMembers, Nodes
  <1>3. \A e \in down : e[1] \in Nodes
    BY DEF Nodes
  <1>4. u \in joined /\ \A e \in Planned : e[2] \in joined => e[1] \in joined
    BY <1>1, PlannedNodes, ReachedFacts DEF IsClosed
  <1>5. Referenced \subseteq visited /\ \A e \in down : e[2] \in visited => e[1] \in visited
    <2> HIDE DEF down
    <2> QED
      BY <1>1, <1>3, ReachedFacts DEF IsClosed
  <1>6. ASSUME NEW e \in AllMembers(drive), e[2] \in good PROVE e[1] \in good
    <2>1. e[1] \in Groups /\ e[2] \in Users \cup Groups /\ e[2] \in Members(drive, e[1])
      BY DEF AllMembers
    <2>2. SUFFICES ASSUME Resolved, e[1] \in visited PROVE e[1] \in joined
      BY <2>1 DEF Nodes
    <2>3. GroupTuples(drive, Referenced)
             = {x \in (visited \cap Groups) \X (Users \cup Groups) : x[2] \in Members(drive, x[1])}
      BY DEF GroupTuples
    <2> HIDE DEF visited
    <2>4. e \in GroupTuples(drive, Referenced)
      BY <2>1, <2>2, <2>3 DEF AllMembers
    <2>5. e \in Planned
      BY <2>2, <2>4 DEF Planned, PlannedGroups
    <2>6. CASE e[2] = u
      BY <1>4, <2>5, <2>6
    <2>7. CASE e[2] # u
      <3>1. e[2] \in Groups /\ (Resolved /\ e[2] \in visited => e[2] \in joined)
        BY <1>6, <2>7
      <3>2. <<e[2], e[1]>> \in down
        BY <2>1
      <3>3. e[2] \in visited
        BY <1>5, <2>2, <3>2
      <3> QED
        BY <1>4, <2>2, <2>5, <3>1, <3>3
    <2> QED
      BY <2>6, <2>7
  <1>7. Reached(AllMembers(drive), {u}) \subseteq good
    <2>1. {u} \subseteq good
      BY <1>1
    <2> HIDE DEF good
    <2> QED
      BY <1>1, <1>2, <1>6, <2>1, ReachedIsLeast
  <1> QED
    BY <1>4, <1>5, <1>7

-----------------------------------------------------------------------------
(* The relationships give what Drive gives, and nothing else.              *)

\* Whatever is shared above an item is an entry of its listed ACL.
LEMMA EntryFacts ==
    ASSUME NEW dr \in Drives, NEW i \in Items, NEW f \in Above(dr, i), NEW w \in dr.share[f]
    PROVE  /\ Entry(dr, i, w) \in ListedAcl(dr, i)
           /\ Entry(dr, i, w).who = w /\ (Entry(dr, i, w).deleted <=> w \in dr.gone)
           /\ w \in Principals
  <1>1. f \in Items
    BY AboveFacts DEF Items
  <1>2. w \in Principals /\ f \in Given(dr, i, w)
    BY <1>1 DEF Drives, Given
  <1>3. Entry(dr, i, w) \in ListedAcl(dr, i)
    BY <1>2, ListedAclIs
  <1> QED
    BY <1>2, <1>3 DEF Entry

\* A source that a safely inherited permission names is a folder the item is
\* in, and the permission was given there.
LEMMA InheritedFrom ==
    ASSUME NEW i \in Items, NEW f \in Above(drive, i), NEW w \in drive.share[f],
           SafelyInherited(Listed, i, Entry(drive, i, w))
    PROVE  f \in ParentsInScope(Listed, i)
  <1>1. f \in Given(drive, i, w)
    BY DEF Given
  <1>2. (IF f = i \/ ~drive.detailed THEN Direct ELSE f) \in ParentsInScope(Listed, i)
    BY <1>1 DEF SafelyInherited, Entry
  <1>3. Direct \notin ParentsInScope(Listed, i)
    BY AccessAssumption DEF ParentsInScope, ActiveFolders
  <1> QED
    BY <1>2, <1>3

\* What is given on the item itself is never left to a parent relationship.
LEMMA GivenHereIsWritten ==
    ASSUME NEW i \in Items, NEW w \in drive.share[i]
    PROVE  ~SafelyInherited(Listed, i, Entry(drive, i, w))
  <1>1. i \in Given(drive, i, w)
    BY AboveFacts DEF Given
  <1>2. Direct \in Entry(drive, i, w).sources
    BY <1>1 DEF Entry
  <1> QED
    BY <1>2, AccessAssumption DEF SafelyInherited, ParentsInScope, ActiveFolders

\* No folder of an enabled document is unusable.
LEMMA ParentOfEnabled ==
    ASSUME NEW d \in Enabled, NEW f \in ParentsInScope(Listed, d)
    PROVE  f \in PlannedItems /\ f \in Folders /\ f \in drive.parents[d]
  <1> DEFINE down == {e \in ActiveFolders(Listed) \X Folders :
                        e[2] \in Listed.parents[e[1]]}
             unusable == UnusableFolders(Listed, Unresolved)
  <1>1. f \in ActiveFolders(Listed) /\ f \in Listed.parents[d]
    BY DEF ParentsInScope
  <1>2. f \notin InvalidFolders(Listed, Unresolved)
    BY <1>1 DEF Enabled, EligibleDocuments
  <1>3. unusable \in SUBSET Nodes /\ \A e \in down : e[1] \in Nodes
    BY DEF UnusableFolders, ActiveFolders, Nodes, Items
  <1>4. InvalidFolders(Listed, Unresolved) = Reached(down, unusable)
    BY DEF InvalidFolders
  <1>5. unusable \subseteq Reached(down, unusable)
    <2> HIDE DEF down, unusable
    <2> QED
      BY <1>3, ReachedFacts
  <1>6. f \in PlannedItems
    BY <1>1, <1>2, <1>4, <1>5 DEF PlannedItems
  <1> QED
    BY <1>1, <1>6, ListedIs DEF ActiveFolders

\* Whom Drive lets in: a path of relationships leads up from the user.
LEMMA EntitledViews ==
    ASSUME DriveType, NEW u \in Users, NEW d \in Documents, d \in Enabled,
           Entitled(drive, u, d)
    PROVE  d \in Reached(Planned, {u})
  <1> DEFINE joined == Reached(Planned, {u})
  <1>1. drive \in Drives /\ d \in Items /\ {u} \in SUBSET Nodes /\ d \in PlannedItems
    BY DEF DriveType, Items, Nodes, PlannedItems
  <1>2. PICK f \in Above(drive, d) : \E w \in drive.share[f] :
           w \in Reached(AllMembers(drive), {u}) \ drive.gone
    BY EntitledIs
  <1>3. PICK w \in drive.share[f] : w \in Reached(AllMembers(drive), {u}) \ drive.gone
    BY <1>2
  <1>4. \A e \in Planned : e[2] \in joined => e[1] \in joined
    BY <1>1, PlannedNodes, ReachedFacts DEF IsClosed
  <1> DEFINE p == Entry(drive, d, w)
  <1>5. p \in ListedAcl(drive, d) /\ p.who = w /\ ~p.deleted
    BY <1>1, <1>2, <1>3, EntryFacts
  <1> HIDE DEF p
  <1>6. w \in joined
    <2>1. w \in Groups => Resolved /\ w \in Referenced
      BY <1>1, <1>5, PlannedGroupIsResolved
    <2> QED
      BY <1>3, <2>1, PlannedMembership
  <1>7. CASE ~SafelyInherited(Listed, d, p)
    <2>1. <<d, w>> \in Planned
      BY <1>1, <1>5, <1>7, PlannedPairs
    <2> QED
      BY <1>4, <1>6, <2>1
  <1>8. CASE SafelyInherited(Listed, d, p)
    <2>1. f \in ParentsInScope(Listed, d)
      BY <1>1, <1>2, <1>3, <1>8, InheritedFrom DEF p
    <2>2. f \in PlannedItems /\ f \in Folders
      BY <2>1, ParentOfEnabled
    <2>3. f \in Items /\ f \in Above(drive, f)
      BY <2>2, AboveFacts DEF Items
    <2>4. ~SafelyInherited(Listed, f, Entry(drive, f, w))
      BY <1>3, <2>3, GivenHereIsWritten
    <2>5. /\ Entry(drive, f, w) \in ListedAcl(drive, f)
          /\ Entry(drive, f, w).who = w /\ ~Entry(drive, f, w).deleted
      BY <1>1, <1>3, <2>3, EntryFacts
    <2>6. <<f, w>> \in Planned
      BY <2>2, <2>4, <2>5, PlannedPairs
    <2>7. <<d, f>> \in Planned
      BY <1>1, <2>1, PlannedPairs
    <2>8. f \in joined
      BY <1>4, <1>6, <2>6
    <2> QED
      BY <1>4, <2>7, <2>8
  <1> QED
    BY <1>7, <1>8

\* What the relationships lead to from a user: groups the user is in, and
\* items Drive lets the user view.
LEMMA ViewsEntitled ==
    ASSUME DriveType, NEW u \in Users, NEW d \in Documents,
           d \in Reached(Planned, {u})
    PROVE  d \in Enabled /\ Entitled(drive, u, d)
  <1> DEFINE in == Reached(AllMembers(drive), {u})
             mine(x) == x \in in /\ (x = u \/ u \notin drive.gone)
             good == {x \in Nodes : /\ x \in Users \cup Groups => mine(x)
                                    /\ x \in Items => Entitled(drive, u, x)
                                    /\ x \in Documents => x \in Enabled}
  <1>1. drive \in Drives /\ {u} \in SUBSET Nodes /\ Documents \subseteq Items
    BY DEF DriveType, Nodes, Items
  <1>2. u \in in /\ \A e \in AllMembers(drive) : e[2] \in in => e[1] \in in
    <2>1. \A e \in AllMembers(drive) : e[1] \in Nodes
      BY DEF AllMembers, Nodes
    <2> QED
      BY <1>1, <2>1, ReachedFacts DEF IsClosed
  <1> HIDE DEF in
  <1>3. (Users \cup Groups) \cap Items = {}
    BY NodesAssumption
  <1>4. ASSUME NEW e \in PlannedGroups, e[2] \in good PROVE e[1] \in good
    <2>1. e[1] \in Groups /\ e[2] \in Members(drive, e[1]) /\ e \in AllMembers(drive)
      BY PlannedGroupPair
    <2>2. e[2] \in Users \cup Groups /\ e[2] \notin drive.gone
      BY <1>1, <2>1, MembersFacts
    <2>3. mine(e[2])
      BY <1>4, <2>2
    <2>4. mine(e[1])
      BY <1>2, <2>1, <2>2, <2>3
    <2> QED
      BY <1>1, <1>3, <2>1, <2>4 DEF Nodes
  <1>5. ASSUME NEW i \in PlannedItems, Entitled(drive, u, i) PROVE i \in good
    <2>1. i \in Items /\ i \in Nodes /\ (i \in Documents => i \in Enabled)
      BY PlannedItem DEF Nodes
    <2> QED
      BY <1>3, <1>5, <2>1
  <1>6. ASSUME NEW i \in PlannedItems, NEW f \in ParentsInScope(Listed, i), f \in good
        PROVE  i \in good
    <2>1. i \in Items /\ f \in Folders /\ f \in Items /\ f \in drive.parents[i]
      BY PlannedItem, ListedIs DEF ParentsInScope, ActiveFolders, Items
    <2>2. Entitled(drive, u, f)
      BY <1>6, <2>1
    <2>3. Above(drive, f) \subseteq Above(drive, i)
      BY <2>1, AboveFacts
    <2>4. Entitled(drive, u, i)
      BY <2>2, <2>3, EntitledIs
    <2> QED
      BY <1>5, <2>4
  <1>7. ASSUME NEW i \in PlannedItems, NEW p \in ListedAcl(drive, i), ~p.deleted,
               p.who \in good
        PROVE  i \in good
    <2>1. PICK w \in Principals : Given(drive, i, w) # {} /\ p = Entry(drive, i, w)
      BY ListedAclIs
    <2>2. p.who = w /\ w \notin drive.gone
      BY <1>7, <2>1 DEF Entry
    <2>3. w # Refused
      BY <2>2, PlannedItem DEF AclIsUsable
    <2>4. mine(w)
      BY <1>7, <2>2, <2>3 DEF Principals
    <2>5. u \notin drive.gone
      BY <2>2, <2>4
    <2>6. PICK f \in Above(drive, i) : w \in drive.share[f]
      BY <2>1 DEF Given
    <2>7. Entitled(drive, u, i)
      BY <2>2, <2>4, <2>5, <2>6, EntitledIs DEF in
    <2> QED
      BY <1>5, <2>7
  <1>8. u \in good
    BY <1>1, <1>2, <1>3
  <1>9. Reached(Planned, {u}) \subseteq good
    <2> HIDE DEF good
    <2>1. \A e \in Planned : e[2] \in good => e[1] \in good
      BY <1>4, <1>6, <1>7, PlannedCases
    <2> QED
      BY <1>1, <1>8, <2>1, PlannedNodes, ReachedIsLeast
  <1> QED
    BY <1>1, <1>9

\* ViewIsDriveAccess, from the two directions.
LEMMA ViewHolds == DriveType => ViewIsDriveAccess
  BY OutcomeIs, EntitledViews, ViewsEntitled DEF ViewIsDriveAccess, Views

-----------------------------------------------------------------------------
(* What leaves a document out.                                             *)

\* Above is transitive.
LEMMA AboveAbove ==
    ASSUME NEW dr, NEW i \in Items, NEW f \in Above(dr, i), NEW h \in Above(dr, f)
    PROVE  h \in Above(dr, i)
  <1>1. \A e \in Hierarchy(dr) : e[1] \in Nodes
    BY DEF Hierarchy, Nodes
  <1>2. CASE f = i
    BY <1>2
  <1>3. CASE f # i
    <2>1. f \in Folders /\ h \in Folders
      BY <1>3 DEF Above
    <2>2. i \in Reached(Hierarchy(dr), {f}) /\ f \in Reached(Hierarchy(dr), {h})
      BY DEF Above
    <2>3. {f} \in SUBSET Nodes /\ {h} \in SUBSET Nodes
      BY <2>1 DEF Nodes, Items
    <2>4. \A e \in Hierarchy(dr) :
             e[2] \in Reached(Hierarchy(dr), {h}) => e[1] \in Reached(Hierarchy(dr), {h})
      BY <1>1, <2>3, ReachedFacts DEF IsClosed
    <2>5. Reached(Hierarchy(dr), {f}) \subseteq Reached(Hierarchy(dr), {h})
      BY <1>1, <2>2, <2>3, <2>4, ReachedIsLeast
    <2> QED
      BY <2>1, <2>2, <2>5 DEF Above
  <1> QED
    BY <1>2, <1>3

\* With every group in sight and none inside itself, the groups of a listing
\* resolve.
LEMMA GroupsInSightResolve ==
    ASSUME DriveType, drive.hidden = {}, ~NestedInItself
    PROVE  Resolved
  <1> DEFINE tuples == GroupTuples(drive, Referenced)
             groups == {e \in Groups \X Groups : e[2] \in Members(drive, e[1])}
  <1>1. ASSUME NEW t \in tuples
        PROVE  /\ t[1] \in Groups /\ t[2] \in Members(drive, t[1])
               /\ t[2] \notin drive.gone /\ t = <<t[1], t[2]>>
    BY MembersFacts DEF GroupTuples, DriveType
  <1> HIDE DEF tuples
  <1>2. ASSUME NEW g \in Referenced PROVE g \notin drive.gone
    <2>1. PICK i \in Listed.active : \E p \in Listed.acl[i] : p.who = g /\ ~p.deleted
      BY DEF Referenced, ReferencedGroups
    <2>2. PICK p \in Listed.acl[i] : p.who = g /\ ~p.deleted
      BY <2>1
    <2>3. i \in Items
      BY <2>1, ListedIs
    <2>4. p \in ListedAcl(drive, i)
      BY <2>2, <2>3 DEF Listed, ListPermissionResources
    <2>5. PICK w \in Principals : p = Entry(drive, i, w)
      BY <2>4, ListedAclIs
    <2> QED
      BY <2>2, <2>5 DEF Entry
  <1>3. ASSUME NEW t \in tuples, t[2] \in Reached(tuples, {t[1]}) PROVE FALSE
    <2> DEFINE good == {x \in Groups : x \in Reached(groups, {t[1]})}
    <2>1. /\ {t[1]} \in SUBSET Nodes /\ t[1] \in Groups
          /\ \A e \in tuples : e[1] \in Nodes
          /\ \A e \in groups : e[1] \in Nodes
      BY <1>1 DEF Nodes
    <2>2. /\ t[1] \in good
          /\ \A e \in groups : e[2] \in good => e[1] \in good
      <3> HIDE DEF groups
      <3>1. /\ t[1] \in Reached(groups, {t[1]})
            /\ \A e \in groups : e[2] \in Reached(groups, {t[1]})
                                    => e[1] \in Reached(groups, {t[1]})
        BY <2>1, ReachedFacts DEF IsClosed
      <3> QED
        BY <2>1, <3>1 DEF groups
    <2>3. \A e \in tuples : e[2] \in good => e[1] \in good
      <3> TAKE e \in tuples
      <3> HAVE e[2] \in good
      <3>1. e \in groups
        BY <1>1
      <3> HIDE DEF good
      <3> QED
        BY <2>2, <3>1
    <2>4. t[2] \in good
      <3> HIDE DEF good
      <3> QED
        BY <1>3, <2>1, <2>2, <2>3, ReachedIsLeast
    <2>5. t \in groups
      BY <1>1, <2>4
    <2> QED
      BY <2>4, <2>5 DEF NestedInItself
  <1> QED
    BY <1>1, <1>2, <1>3 DEF Resolved, GroupsResolve, tuples

\* Below an unusable folder: one that is above has no usable ACL.
LEMMA InvalidIsBelow ==
    ASSUME NEW f \in InvalidFolders(Listed, Unresolved)
    PROVE  f \in Folders /\ \E y \in UnusableFolders(Listed, Unresolved) : y \in Above(drive, f)
  <1> DEFINE down == {e \in ActiveFolders(Listed) \X Folders :
                        e[2] \in Listed.parents[e[1]]}
             unusable == UnusableFolders(Listed, Unresolved)
             good == {x \in Folders : \E y \in unusable : y \in Above(drive, x)}
  <1>1. unusable \in SUBSET Nodes /\ unusable \subseteq Folders /\ Folders \subseteq Items
        /\ \A e \in down : e[1] \in Nodes
    BY DEF UnusableFolders, ActiveFolders, Nodes, Items
  <1>2. unusable \subseteq good
    BY <1>1, AboveFacts
  <1>3. ASSUME NEW e \in down, e[2] \in good PROVE e[1] \in good
    <2>1. e[1] \in Folders /\ e[2] \in Folders /\ e[2] \in drive.parents[e[1]]
      BY ListedIs DEF ActiveFolders
    <2>2. Above(drive, e[2]) \subseteq Above(drive, e[1])
      BY <1>1, <2>1, AboveFacts
    <2> QED
      BY <1>3, <2>1, <2>2
  <1>4. InvalidFolders(Listed, Unresolved) = Reached(down, unusable)
    BY DEF InvalidFolders
  <1>5. Reached(down, unusable) \subseteq good
    <2> HIDE DEF down, unusable, good
    <2> QED
      BY <1>1, <1>2, <1>3, ReachedIsLeast
  <1> QED
    BY <1>4, <1>5

\* Above a document that nothing unreadable or refused is above, every item is
\* usable, once the groups resolve.
LEMMA UsableAbove ==
    ASSUME NEW d \in Items, NEW i \in Above(drive, d), i \in Items,
           Above(drive, d) \cap drive.unreadable = {},
           \A f \in Above(drive, d) : Refused \notin drive.share[f]
    PROVE  AclIsUsable(Listed, i, {})
  <1>1. i \notin Listed.failed /\ Listed.acl[i] = ListedAcl(drive, i)
    BY ListedIs
  <1>2. ASSUME NEW p \in ListedAcl(drive, i) PROVE p.who # Refused
    <2>1. PICK w \in Principals : Given(drive, i, w) # {} /\ p = Entry(drive, i, w)
      BY ListedAclIs
    <2>2. PICK f \in Above(drive, i) : w \in drive.share[f]
      BY <2>1 DEF Given
    <2>3. f \in Above(drive, d)
      BY <2>2, AboveAbove
    <2> QED
      BY <2>1, <2>2, <2>3 DEF Entry
  <1> QED
    BY <1>1, <1>2 DEF AclIsUsable

\* LeftOutForAReason: a document that is not enabled has an unusable folder or
\* ACL above it, or the groups do not resolve.
LEMMA LeftOutHolds == DriveType => LeftOutForAReason
  <1> SUFFICES ASSUME DriveType, NEW d \in Documents, d \in Listed.active,
                      Above(drive, d) \cap drive.unreadable = {},
                      drive.hidden = {}, ~NestedInItself,
                      \A i \in Above(drive, d) : Refused \notin drive.share[i],
                      NEW u \in Users, Entitled(drive, u, d)
               PROVE  d \in Enabled
    BY OutcomeIs DEF LeftOutForAReason
  <1>1. drive \in Drives /\ d \in Items /\ d \in ActiveDocuments(Listed)
    BY DEF DriveType, Items, ActiveDocuments
  <1>2. Unresolved = {}
    BY GroupsInSightResolve DEF Unresolved
  <1>3. AclIsUsable(Listed, d, {})
    BY <1>1, AboveFacts, UsableAbove
  <1>4. Listed.parents[d] \cap InvalidFolders(Listed, Unresolved) = {}
    <2> SUFFICES ASSUME NEW f \in drive.parents[d], f \in InvalidFolders(Listed, Unresolved)
                 PROVE  FALSE
      BY ListedIs
    <2>1. PICK y \in UnusableFolders(Listed, Unresolved) : y \in Above(drive, f)
      BY InvalidIsBelow
    <2>2. f \in Folders
      BY InvalidIsBelow
    <2>3. y \in Above(drive, d)
      BY <1>1, <2>1, <2>2, AboveFacts
    <2>4. y \in Items /\ ~AclIsUsable(Listed, y, {})
      BY <1>2 DEF UnusableFolders, ActiveFolders, Items
    <2> QED
      BY <1>1, <2>3, <2>4, UsableAbove
  <1>5. ItemTuples(Listed, d) # {}
    <2>1. PICK f \in Above(drive, d) : \E w \in drive.share[f] : w \notin drive.gone
      BY EntitledIs
    <2>2. PICK w \in drive.share[f] : w \notin drive.gone
      BY <2>1
    <2> DEFINE p == Entry(drive, d, w)
    <2>3. p \in ListedAcl(drive, d) /\ ~p.deleted
      BY <1>1, <2>1, <2>2, EntryFacts
    <2>4. Listed.acl[d] = ListedAcl(drive, d)
      BY <1>1, <1>3, ListedIs DEF AclIsUsable
    <2> HIDE DEF p
    <2>5. CASE SafelyInherited(Listed, d, p)
      BY <2>5 DEF SafelyInherited, ItemTuples, ParentTuples
    <2>6. CASE ~SafelyInherited(Listed, d, p)
      BY <2>3, <2>4, <2>6 DEF ItemTuples, AclTuples
    <2> QED
      BY <2>5, <2>6
  <1> QED
    BY <1>1, <1>2, <1>3, <1>4, <1>5 DEF Enabled, EligibleDocuments

=============================================================================
