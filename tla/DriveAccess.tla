----------------------------- MODULE DriveAccess -----------------------------
(***************************************************************************)
(* Who may view what: sharing in Google Drive, the listing a permission     *)
(* scan takes of it, the SpiceDB relationships built from that listing      *)
(* (authorization/sync.py) and the `view` permission SpiceDB evaluates on   *)
(* them (authorization/schema.zed).                                         *)
(*                                                                         *)
(* A relationship is a pair <<resource, subject>>: the types of the two     *)
(* tell member, parent and role relations apart, and `view` takes the       *)
(* union of all roles, so a role needs no name.  With that, a user views a  *)
(* document when the pairs lead from the user up to the document.           *)
(*                                                                         *)
(* A permission names a principal and where it was given: on the item       *)
(* itself (Direct) or on folders it is inherited from.  An item in My Drive *)
(* lists inherited permissions without their source, as if given directly.  *)
(* Refused stands for what the sync refuses to model: public links, domain  *)
(* visibility, unknown roles or principals, pending owners.                 *)
(***************************************************************************)
EXTENDS Naturals, FiniteSets

CONSTANTS
    Users, Groups, Folders, Documents,
    Root,       \* the connection's root folder
    Direct,     \* the source of a permission given on the item itself
    Refused,    \* a principal no relationship can express
    Detailed,   \* whether listings name sources: TRUE for a shared drive
    MaxEdits    \* bound on the edits made in Google Workspace

Items == Folders \cup Documents
Principals == Users \cup Groups \cup {Refused}
Nodes == Users \cup Groups \cup Items

ASSUME AccessAssumption ==
    /\ Root \in Folders
    /\ Folders \cap Documents = {}
    /\ Direct \notin Folders
    /\ Refused \notin Users \cup Groups
    /\ Detailed \subseteq BOOLEAN
    /\ MaxEdits \in Nat

Permission ==
    [who : Principals, sources : SUBSET (Folders \cup {Direct}), deleted : BOOLEAN]

\* What one listing, or the rows that store it, say about the items.
Listings ==
    [active : SUBSET Items, parents : [Items -> SUBSET Folders],
     acl : [Items -> SUBSET Permission], failed : SUBSET Items]

Nothing ==
    [active |-> {}, parents |-> [i \in Items |-> {}],
     acl |-> [i \in Items |-> {}], failed |-> {}]

\* A workspace is finite, and object types are disjoint in SpiceDB.
ASSUME NodesAssumption ==
    /\ IsFiniteSet(Nodes)
    /\ (Users \cup Groups) \cap Items = {}

\* What a relationship can be.
Tuples == Nodes \X (Users \cup Groups \cup Folders)

\* The nodes that the pairs of `edges` lead to from S, S included.
Reached(edges, S) ==
    LET grow[T \in SUBSET Nodes] ==
            LET more == T \cup {e[1] : e \in {x \in edges : x[2] \in T}}
            IN  IF more = T THEN T ELSE grow[more]
    IN  grow[S]

-----------------------------------------------------------------------------
(* Google Workspace.                                                       *)

VARIABLES
    drive,     \* sharing, hierarchy, groups and failures of Google Workspace
    edits      \* the edits made so far

Drives ==
    [share : [Items -> SUBSET Principals],  \* given directly on the item
     parents : [Items -> SUBSET Folders],
     members : [Groups -> SUBSET (Users \cup Groups)],
     gone : SUBSET (Users \cup Groups),     \* deleted accounts
     unreadable : SUBSET Items,             \* permissions.list fails
     hidden : SUBSET Groups,                \* members.list fails
     detailed : Detailed]                   \* are sources listed?

Hierarchy(dr) == {e \in Items \X Folders : e[2] \in dr.parents[e[1]]}
Above(dr, i) ==
    LET up == Hierarchy(dr)
    IN  {f \in Folders \cup {i} : i \in Reached(up, {f})}
Members(dr, g) == IF g \in dr.gone THEN {} ELSE dr.members[g] \ dr.gone

\* Whom Drive lets view an item: what is shared with them or with a group
\* they are in, on the item or on a folder above it.
Entitled(dr, u, i) ==
    LET groups == {e \in Groups \X (Users \cup Groups) : e[2] \in Members(dr, e[1])}
        principals == Reached(groups, {u}) \ dr.gone
    IN  /\ u \notin dr.gone
        /\ \E f \in Above(dr, i) : dr.share[f] \cap principals # {}

\* The permissions of an item: inherited ones are listed with it.
ListedAcl(dr, i) ==
    LET above == Above(dr, i)
        given(w) == {f \in above : w \in dr.share[f]}
        source(f) == IF f = i \/ ~dr.detailed THEN Direct ELSE f
    IN  {[who |-> w, sources |-> {source(f) : f \in given(w)},
          deleted |-> w \in dr.gone] : w \in {x \in Principals : given(x) # {}}}

\* What Google Workspace states now, as relationships.
Stated(dr) ==
    LET given(i) == {p.who : p \in {x \in ListedAcl(dr, i) : ~x.deleted}} \ {Refused}
    IN  Hierarchy(dr) \cup (UNION {{i} \X given(i) : i \in Items})
           \cup (UNION {{g} \X Members(dr, g) : g \in Groups})

\* The walk from the root, taken at one moment (DriveWalk has its requests);
\* an unreadable ACL is listed as an empty one.
ListPermissionResources(dr) ==
    [active |-> {i \in Items : i \in Reached(Hierarchy(dr), {Root})},
     parents |-> dr.parents,
     acl |-> [i \in Items |-> IF i \in dr.unreadable THEN {} ELSE ListedAcl(dr, i)],
     failed |-> dr.unreadable]

DriveInit ==
    /\ drive \in
          [share : {[i \in Items |-> IF i \in Documents THEN first ELSE {}] :
                       first \in {{}, Groups}},
           parents : {[i \in Items |-> IF i = Root THEN {} ELSE {Root}]},
           members : {[g \in Groups |-> Users]},
           gone : {{}}, unreadable : {{}}, hidden : {{}}, detailed : Detailed]
    /\ edits = 0

Counted == edits < MaxEdits /\ edits' = edits + 1

\* Give or take back a permission on an item.
Share ==
    /\ Counted
    /\ \E i \in Items, w \in Principals :
          drive' = [drive EXCEPT !.share[i] =
                       IF w \in @ THEN @ \ {w} ELSE @ \cup {w}]

\* Add an item to a folder or remove it from one; a walk that meets a move
\* half way can list a cycle.
Move ==
    /\ Counted
    /\ \E i \in Items : \E f \in Folders \ {i} :
          drive' = [drive EXCEPT !.parents[i] =
                       IF f \in @ THEN @ \ {f} ELSE @ \cup {f}]

ChangeGroup ==
    /\ Counted
    /\ \E g \in Groups : \E m \in (Users \cup Groups) \ {g} :
          drive' = [drive EXCEPT !.members[g] =
                       IF m \in @ THEN @ \ {m} ELSE @ \cup {m}]

DeleteAccount ==
    /\ Counted
    /\ \E a \in (Users \cup Groups) \ drive.gone :
          drive' = [drive EXCEPT !.gone = @ \cup {a}]

\* The service account loses sight of an ACL or of a group.
LoseSight ==
    /\ Counted
    /\ \/ \E i \in Items : drive' = [drive EXCEPT !.unreadable = @ \cup {i}]
       \/ \E g \in Groups : drive' = [drive EXCEPT !.hidden = @ \cup {g}]

DriveNext == Share \/ Move \/ ChangeGroup \/ DeleteAccount \/ LoseSight

-----------------------------------------------------------------------------
(* From a listing to relationships.                                        *)

ActiveFolders(listing) == listing.active \cap Folders
ActiveDocuments(listing) == listing.active \cap Documents
ParentsInScope(listing, i) == listing.parents[i] \cap ActiveFolders(listing)
ParentTuples(listing, i) == {<<i, f>> : f \in ParentsInScope(listing, i)}

HierarchyIsAcyclic(listing) ==
    LET up == UNION {ParentTuples(listing, f) : f \in ActiveFolders(listing)}
    IN  \A e \in up : e[2] \notin Reached(up, {e[1]})

\* Mutant: deleted groups are sent to the resolver, which cannot find them.
ReferencedGroupsWithDeleted(listing) ==
    {g \in Groups : \E i \in listing.active :
        \E p \in listing.acl[i] : p.who = g}

ReferencedGroups(listing) ==
    {g \in Groups : \E i \in listing.active :
        \E p \in listing.acl[i] : p.who = g /\ ~p.deleted}

\* The groups the resolver visits, and their memberships.
GroupTuples(dr, referenced) ==
    LET down == {e \in (Users \cup Groups) \X Groups : e[1] \in Members(dr, e[2])}
        visited == Reached(down, referenced) \cap Groups
    IN  {e \in visited \X (Users \cup Groups) : e[2] \in Members(dr, e[1])}

\* One group that cannot be listed, or a cycle, leaves every group unresolved.
GroupsResolve(dr, referenced) ==
    LET tuples == GroupTuples(dr, referenced)
        visited == referenced \cup ({t[2] : t \in tuples} \cap Groups)
    IN  /\ visited \cap (dr.hidden \cup dr.gone) = {}
        /\ \A t \in tuples : t[2] \notin Reached(tuples, {t[1]})

\* Mutant: a public link is mapped like any principal.
AclIsKnown(listing, i, unresolved) ==
    /\ i \notin listing.failed
    /\ \A p \in listing.acl[i] : p.deleted \/ p.who \notin unresolved

\* The reason a resource's own ACL cannot be used, if there is one.
AclIsUsable(listing, i, unresolved) ==
    /\ i \notin listing.failed
    /\ \A p \in listing.acl[i] :
          /\ p.who # Refused
          /\ p.deleted \/ p.who \notin unresolved

UnusableFolders(listing, unresolved) ==
    {f \in ActiveFolders(listing) : ~AclIsUsable(listing, f, unresolved)}

\* They take every folder below them along.
InvalidFolders(listing, unresolved) ==
    LET down == {e \in ActiveFolders(listing) \X Folders :
                    e[2] \in listing.parents[e[1]]}
    IN  Reached(down, UnusableFolders(listing, unresolved))

\* The parent relationship conveys what every source in scope gives.
SafelyInherited(listing, i, p) ==
    /\ p.sources # {}
    /\ p.sources \subseteq ParentsInScope(listing, i)

AclTuples(listing, i) ==
    {<<i, p.who>> : p \in {x \in listing.acl[i] :
                              ~x.deleted /\ ~SafelyInherited(listing, i, x)}}

ItemTuples(listing, i) == ParentTuples(listing, i) \cup AclTuples(listing, i)

\* Mutant: a document is enabled although a folder above it is unusable.
EligibleOnOwnAcl(listing, unresolved, unsupported) ==
    {d \in ActiveDocuments(listing) \ unsupported :
        /\ AclIsUsable(listing, d, unresolved)
        /\ ItemTuples(listing, d) # {}}

\* Documents a run may enable; `unsupported` are those whose row says that
\* their type is not supported.
EligibleDocuments(listing, unresolved, unsupported) ==
    {d \in ActiveDocuments(listing) \ unsupported :
        /\ listing.parents[d] \cap InvalidFolders(listing, unresolved) = {}
        /\ AclIsUsable(listing, d, unresolved)
        /\ ItemTuples(listing, d) # {}}

\* The complete relationship set a run reconciles SpiceDB to.
DesiredState(listing, groups, unresolved, unsupported) ==
    LET items == (ActiveFolders(listing) \ UnusableFolders(listing, unresolved))
                    \cup EligibleDocuments(listing, unresolved, unsupported)
    IN  groups \cup UNION {ItemTuples(listing, i) : i \in items}

\* SpiceDB's lookup of `view`, without the oauth_viewer relation it unites with
\* the others: none exists on a connection that was always delegated.
Views(tuples, u, d) == d \in Reached(tuples, {u})

-----------------------------------------------------------------------------
(* Checked in every state of Drive.                                        *)

Listed == ListPermissionResources(drive)

\* What a run would plan now, undisturbed: relationships and documents.
Outcome(unsupported) ==
    LET listing == Listed
        referenced == ReferencedGroups(listing)
        resolved == GroupsResolve(drive, referenced)
        groups == IF resolved THEN GroupTuples(drive, referenced) ELSE {}
        unresolved == IF resolved THEN {} ELSE referenced
    IN  [desired |-> DesiredState(listing, groups, unresolved, unsupported),
         eligible |-> EligibleDocuments(listing, unresolved, unsupported)]

\* The relationships of a run give each user exactly the documents that Drive
\* lets them view, through nested folders and groups, as far as documents are
\* eligible, and give nobody any other document.
ViewIsDriveAccess ==
    HierarchyIsAcyclic(Listed) =>
        \E outcome \in {Outcome({})} : \A u \in Users, d \in Documents :
            Views(outcome.desired, u, d)
                <=> d \in outcome.eligible /\ Entitled(drive, u, d)

NestedInItself ==
    LET groups == {e \in Groups \X Groups : e[2] \in Members(drive, e[1])}
    IN  \E e \in groups : e[2] \in Reached(groups, {e[1]})

\* A document is left out only for a reason: an unreadable ACL or an unusable
\* permission on it or on a folder above it, a group that cannot be listed, or
\* nobody to share it with.  A deleted account in an ACL is no reason.
LeftOutForAReason ==
    \A d \in Documents :
        (/\ d \in Listed.active
         /\ Above(drive, d) \cap drive.unreadable = {}
         /\ drive.hidden = {} /\ ~NestedInItself
         /\ \A i \in Above(drive, d) : Refused \notin drive.share[i]
         /\ \E u \in Users : Entitled(drive, u, d))
        => d \in Outcome({}).eligible

=============================================================================
