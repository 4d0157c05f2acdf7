-------------------- MODULE DelegatedPermissionSync_proofs --------------------
(***************************************************************************)
(* The revocation bound of delegated connections, for any Drive, any number *)
(* of runs and syncs, any batch size and any limits.                        *)
(*                                                                         *)
(* What a run writes is planned from rows that a scan of its own or a sync  *)
(* stored while it was under way, so each tuple it wants was stated at most *)
(* one run and one sync ago (RunsRecent).  Evidence of some age says that,  *)
(* so long ago, SpiceDB held what a run wanted and nothing else; what came  *)
(* since was younger than that (EvidenceRecent).  Hence fresh evidence      *)
(* makes every tuple in SpiceDB recent, not only those of its document.     *)
(***************************************************************************)
EXTENDS DelegatedPermissionSync, DriveAccess_proofs

Eligibles == UNION {[S -> Acls] : S \in SUBSET Documents}
Exclusions == UNION {[S -> {"mime", "other"}] : S \in SUBSET Documents}
Kept == UNION {[S -> Evidence] : S \in SUBSET Documents}

RunRecords ==
    [step : {"idle", "listed", "persisted", "planned", "writing", "verified"},
     age : 0..RunLimit, seen : Listings, desired : SUBSET Tuples,
     eligible : Eligibles, excluded : Exclusions,
     touches : SUBSET Tuples, deletes : SUBSET Tuples]

SyncRecords ==
    [step : {"idle", "listed"}, age : 0..SyncLimit, seen : Listings, kept : Kept]

RowsType ==
    /\ listing \in Listings
    /\ known \subseteq Documents
    /\ evidence \in [Documents -> Evidence]
    /\ tuples \subseteq Tuples

GhostType ==
    /\ since \in [Tuples -> 0..(Bound + 1)]
    /\ granted \subseteq Users \X Documents

Typed ==
    /\ DriveType /\ RowsType /\ GhostType
    /\ run \in [Runs -> RunRecords]
    /\ sync \in [Syncs -> SyncRecords]
    /\ faults \in 0..MaxFaults

\* Every relationship the active items of a listing convey was stated at most
\* n ticks ago.
RecentBy(clock, list, n) ==
    \A i \in list.active :
        /\ \A f \in list.parents[i] : clock[<<i, f>>] <= n
        /\ \A p \in list.acl[i] :
              ~p.deleted /\ p.who # Refused => clock[<<i, p.who>>] <= n

StatedIsNow == \A t \in Stated(drive) : since[t] = 0

OneRun ==
    \A r \in Runs, q \in Runs : r # q => run[r].step = "idle" \/ run[q].step = "idle"

RunRecent(r) ==
    /\ run[r].step = "listed" => RecentBy(since, run[r].seen, run[r].age)
    /\ run[r].step = "persisted" => RecentBy(since, listing, run[r].age + SyncLimit)
    /\ run[r].step \in {"planned", "writing", "verified"} =>
          \A t \in run[r].desired : since[t] <= run[r].age + SyncLimit
    /\ run[r].step = "writing" => run[r].touches \subseteq run[r].desired
    /\ run[r].step = "verified" => tuples = run[r].desired

RunsRecent == \A r \in Runs : RunRecent(r)

SyncsRecent ==
    \A s \in Syncs : sync[s].step = "listed" => RecentBy(since, sync[s].seen, sync[s].age)

\* Evidence of that age stands for the present tuples.
Within(clock, held, age) ==
    age <= MaxAge => \A t \in held : clock[t] <= RunLimit + SyncLimit + age

EvidenceRecent == \A d \in Documents : Within(since, tuples, evidence[d].age)

KeptRecent ==
    \A s \in Syncs : \A d \in DOMAIN sync[s].kept :
        sync[s].step # "idle" /\ Within(since, tuples, sync[s].kept[d].age)

Inv ==
    /\ Typed /\ StatedIsNow /\ OneRun
    /\ RunsRecent /\ SyncsRecent /\ EvidenceRecent /\ KeptRecent

-----------------------------------------------------------------------------
(* Listings and what is planned from them.                                 *)

\* What the entries of a listing convey are relationships.
LEMMA ConveyedAreTuples ==
    ASSUME NEW list \in Listings, NEW i \in list.active
    PROVE  /\ i \in Items
           /\ \A f \in list.parents[i] : f \in Folders /\ <<i, f>> \in Tuples
           /\ \A p \in list.acl[i] :
                 /\ p \in Permission
                 /\ p.who # Refused => /\ p.who \in Users \cup Groups
                                       /\ <<i, p.who>> \in Tuples
  <1>1. i \in Items /\ list.parents[i] \in SUBSET Folders /\ list.acl[i] \in SUBSET Permission
    BY DEF Listings
  <1>2. \A p \in list.acl[i] : p.who \in Principals
    BY <1>1 DEF Permission
  <1> QED
    BY <1>1, <1>2 DEF Tuples, Nodes, Principals

LEMMA RecentLater ==
    ASSUME NEW list \in Listings, NEW n, NEW m, NEW old, NEW new,
           RecentBy(old, list, n),
           \A t \in Tuples : old[t] <= n => new[t] <= m
    PROVE  RecentBy(new, list, m)
  BY ConveyedAreTuples DEF RecentBy

\* A listing taken now conveys what is stated now.
LEMMA ListingIsRecent ==
    ASSUME DriveType, StatedIsNow
    PROVE  RecentBy(since, ListPermissionResources(drive), 0)
  <1> DEFINE list == ListPermissionResources(drive)
  <1>1. /\ list.active \subseteq Items /\ list.parents = drive.parents
        /\ \A i \in Items : list.acl[i] \in {{}, ListedAcl(drive, i)}
    BY DEF ListPermissionResources
  <1>2. drive.parents \in [Items -> SUBSET Folders]
    BY DEF DriveType, Drives
  <1> HIDE DEF list
  <1>3. \A i \in Items : \A f \in drive.parents[i] : <<i, f>> \in Stated(drive)
    BY <1>2, ParentIsStated
  <1>4. \A i \in Items : \A p \in ListedAcl(drive, i) :
           ~p.deleted /\ p.who # Refused => <<i, p.who>> \in Stated(drive)
    BY ListedIsStated
  <1>5. RecentBy(since, list, 0)
    BY <1>1, <1>3, <1>4 DEF RecentBy, StatedIsNow
  <1> QED
    BY <1>5 DEF list

LEMMA GroupTuplesStated ==
    ASSUME NEW dr \in Drives, NEW referenced
    PROVE  /\ GroupTuples(dr, referenced) \subseteq Stated(dr)
           /\ GroupTuples(dr, referenced) \subseteq Tuples
  <1>1. ASSUME NEW t \in GroupTuples(dr, referenced)
        PROVE  \E g \in Groups : t \in {g} \X Members(dr, g)
    <2>1. t \in Groups \X (Users \cup Groups) /\ t[2] \in Members(dr, t[1])
      BY DEF GroupTuples
    <2>2. t = <<t[1], t[2]>> /\ t[1] \in Groups
      BY <2>1
    <2> QED
      BY <2>1, <2>2
  <1>2. UNION {{g} \X Members(dr, g) : g \in Groups} \subseteq Stated(dr)
    BY DEF Stated
  <1> QED
    BY <1>1, <1>2, StatedType

LEMMA EligibleType ==
    ASSUME NEW list \in Listings, NEW unresolved, NEW unsupported
    PROVE  EligibleDocuments(list, unresolved, unsupported) \subseteq Documents
  BY DEF EligibleDocuments, ActiveDocuments

\* What a run wants: memberships, and what its listing conveys.
LEMMA DesiredIsConveyed ==
    ASSUME NEW list \in Listings, NEW groups, NEW unresolved, NEW unsupported,
           NEW t \in DesiredState(list, groups, unresolved, unsupported)
    PROVE  \/ t \in groups
           \/ \E i \in list.active :
                 \/ \E f \in list.parents[i] : t = <<i, f>>
                 \/ \E p \in list.acl[i] :
                       ~p.deleted /\ p.who # Refused /\ t = <<i, p.who>>
  <1>1. CASE t \in groups
    BY <1>1
  <1>2. CASE t \notin groups
    <2>1. PICK i \in (ActiveFolders(list) \ UnusableFolders(list, unresolved))
                         \cup EligibleDocuments(list, unresolved, unsupported) :
             t \in ItemTuples(list, i)
      BY <1>2 DEF DesiredState
    <2>2. i \in list.active /\ AclIsUsable(list, i, unresolved)
      BY <2>1 DEF ActiveFolders, UnusableFolders, EligibleDocuments, ActiveDocuments
    <2>3. CASE t \in ParentTuples(list, i)
      BY <2>2, <2>3 DEF ParentTuples, ParentsInScope
    <2>4. CASE t \in AclTuples(list, i)
      BY <2>2, <2>4 DEF AclTuples, AclIsUsable
    <2> QED
      BY <2>1, <2>3, <2>4 DEF ItemTuples
  <1> QED
    BY <1>1, <1>2

LEMMA DesiredType ==
    ASSUME NEW list \in Listings, NEW groups, groups \subseteq Tuples,
           NEW unresolved, NEW unsupported
    PROVE  DesiredState(list, groups, unresolved, unsupported) \subseteq Tuples
  BY DesiredIsConveyed, ConveyedAreTuples

LEMMA DesiredIsRecent ==
    ASSUME NEW list \in Listings, NEW groups, NEW unresolved, NEW unsupported,
           NEW n \in Nat, RecentBy(since, list, n), \A t \in groups : since[t] = 0
    PROVE  \A t \in DesiredState(list, groups, unresolved, unsupported) : since[t] <= n
  <1> SUFFICES ASSUME NEW t \in DesiredState(list, groups, unresolved, unsupported)
               PROVE  since[t] <= n
    OBVIOUS
  <1>1. CASE t \in groups
    BY <1>1
  <1>2. CASE t \notin groups
    BY <1>2, DesiredIsConveyed DEF RecentBy
  <1> QED
    BY <1>1, <1>2

-----------------------------------------------------------------------------
(* Beginning.                                                              *)

LEMMA RecordTypes ==
    /\ IdleRun \in RunRecords
    /\ IdleSync \in SyncRecords
    /\ \A reason \in {"none", "mime", "other"} : Unverified(reason) \in Evidence
  <1>1. /\ [d \in {} |-> {}] \in Eligibles
        /\ [d \in {} |-> "other"] \in Exclusions
        /\ [d \in {} |-> {}] \in Kept
    <2>1. [d \in {} |-> {}] \in [{} -> Acls] /\ [d \in {} |-> {}] \in [{} -> Evidence]
      OBVIOUS
    <2>2. [d \in {} |-> "other"] \in [{} -> {"mime", "other"}]
      OBVIOUS
    <2> QED
      BY <2>1, <2>2 DEF Eligibles, Exclusions, Kept
  <1>2. 0 \in 0..RunLimit /\ 0 \in 0..SyncLimit
    BY SyncAssumption
  <1>3. IdleRun \in RunRecords
    BY <1>1, <1>2, NothingType DEF IdleRun, RunRecords
  <1>4. IdleSync \in SyncRecords
    BY <1>1, <1>2, NothingType DEF IdleSync, SyncRecords
  <1>5. Never \in 0..Never
    BY SyncAssumption DEF Never
  <1> QED
    BY <1>3, <1>4, <1>5 DEF Unverified, Evidence

LEMMA BoundIsNat == Bound \in Nat /\ Never \in Nat
  BY SyncAssumption DEF Bound, Never

LEMMA InitInv == Init => Inv
  <1> SUFFICES ASSUME Init PROVE Inv
    OBVIOUS
  <1>1. DriveType
    BY DriveInitType DEF Init
  <1>2. since = [t \in Tuples |-> IF t \in Stated(drive) THEN 0 ELSE Bound + 1]
    BY DEF Init
  <1>3. StatedIsNow
    BY <1>1, <1>2, StatedType DEF StatedIsNow, DriveType
  <1>4. GhostType
    <2>1. granted \subseteq Users \X Documents
      BY DEF Init, EntitledPairs
    <2> QED
      BY <1>2, <2>1, BoundIsNat DEF GhostType
  <1>5. RowsType
    <2>1. evidence \in [Documents -> Evidence]
      BY RecordTypes DEF Init
    <2> QED
      BY <2>1, NothingType DEF Init, RowsType
  <1>6. Typed
    BY <1>1, <1>4, <1>5, RecordTypes, SyncAssumption DEF Init, Typed
  <1>7. \A r \in Runs : run[r].step = "idle"
    BY DEF Init, IdleRun
  <1>8. RunsRecent /\ OneRun
    BY <1>7 DEF RunsRecent, RunRecent, OneRun
  <1>9. SyncsRecent /\ KeptRecent
    BY DEF Init, IdleSync, SyncsRecent, KeptRecent
  <1>10. EvidenceRecent
    BY DEF Init, EvidenceRecent, Within
  <1> QED
    BY <1>3, <1>6, <1>8, <1>9, <1>10 DEF Inv

-----------------------------------------------------------------------------
(* Drive and time.                                                         *)

LEMMA DriveChangesInv ==
    ASSUME Inv, DriveChanges
    PROVE  Inv'
  <1>1. /\ since' = [t \in Tuples |-> IF t \in Stated(drive') THEN 0 ELSE since[t]]
        /\ granted' = granted \cup EntitledPairs(drive')
        /\ UNCHANGED <<listing, known, evidence, tuples, run, sync, faults>>
    BY DEF DriveChanges
  <1>2. DriveType'
    BY DriveNextType DEF DriveChanges, Inv, Typed
  <1>3. /\ since \in [Tuples -> 0..(Bound + 1)]
        /\ since' \in [Tuples -> 0..(Bound + 1)]
        /\ \A t \in Tuples : since'[t] <= since[t]
    BY <1>1, BoundIsNat DEF Inv, Typed, GhostType
  <1>4. Typed'
    <2>1. GhostType'
      BY <1>1, <1>3 DEF Inv, Typed, GhostType, EntitledPairs
    <2>2. RowsType'
      BY <1>1 DEF Inv, Typed, RowsType
    <2> QED
      BY <1>1, <1>2, <2>1, <2>2 DEF Inv, Typed
  <1>5. StatedIsNow'
    BY <1>1, <1>2, StatedType DEF StatedIsNow, DriveType
  <1>6. \A list \in Listings, n \in Nat :
           RecentBy(since, list, n) => RecentBy(since', list, n)
    <2> SUFFICES ASSUME NEW list \in Listings, NEW n \in Nat, RecentBy(since, list, n)
                 PROVE  RecentBy(since', list, n)
      OBVIOUS
    <2>1. \A t \in Tuples : since[t] <= n => since'[t] <= n
      BY <1>3, BoundIsNat
    <2> QED
      BY <2>1, RecentLater
  <1>7. RunsRecent'
    <2> SUFFICES ASSUME NEW r \in Runs
                 PROVE  RunRecent(r)'
      BY DEF RunsRecent
    <2>1. /\ run[r].age \in Nat /\ run[r].age + SyncLimit \in Nat
          /\ run[r].seen \in Listings /\ listing \in Listings
          /\ run[r].desired \subseteq Tuples
      BY SyncAssumption DEF Inv, Typed, RowsType, RunRecords
    <2>2. RunRecent(r)
      BY DEF Inv, RunsRecent
    <2>3. run[r].step = "listed" => RecentBy(since', run[r].seen, run[r].age)
      BY <1>6, <2>1, <2>2 DEF RunRecent
    <2>4. run[r].step = "persisted" => RecentBy(since', listing, run[r].age + SyncLimit)
      BY <1>6, <2>1, <2>2 DEF RunRecent
    <2>5. run[r].step \in {"planned", "writing", "verified"} =>
             \A t \in run[r].desired : since'[t] <= run[r].age + SyncLimit
      <3> SUFFICES ASSUME run[r].step \in {"planned", "writing", "verified"},
                          NEW t \in run[r].desired
                   PROVE  since'[t] <= run[r].age + SyncLimit
        OBVIOUS
      <3>1. since[t] <= run[r].age + SyncLimit
        BY <2>2 DEF RunRecent
      <3>2. t \in Tuples /\ since[t] \in Nat /\ since'[t] \in Nat
        BY <1>3, <2>1, BoundIsNat
      <3> QED
        BY <1>3, <2>1, <3>1, <3>2
    <2> QED
      BY <1>1, <2>2, <2>3, <2>4, <2>5 DEF RunRecent
  <1>8. SyncsRecent'
    <2> SUFFICES ASSUME NEW s \in Syncs, sync[s].step = "listed"
                 PROVE  RecentBy(since', sync[s].seen, sync[s].age)
      BY <1>1 DEF SyncsRecent
    <2>1. sync[s].age \in Nat /\ sync[s].seen \in Listings
      BY DEF Inv, Typed, SyncRecords
    <2> QED
      BY <1>6, <2>1 DEF Inv, SyncsRecent
  <1>9. \A age \in Nat : Within(since, tuples, age) => Within(since', tuples, age)
    <2> SUFFICES ASSUME NEW age \in Nat, Within(since, tuples, age), age <= MaxAge,
                        NEW t \in tuples
                 PROVE  since'[t] <= RunLimit + SyncLimit + age
      BY DEF Within
    <2>1. t \in Tuples /\ since[t] \in Nat /\ since'[t] \in Nat
      BY <1>3, BoundIsNat DEF Inv, Typed, RowsType
    <2>2. since[t] <= RunLimit + SyncLimit + age /\ since'[t] <= since[t]
      BY <1>3, <2>1 DEF Within
    <2> QED
      BY <2>1, <2>2, SyncAssumption
  <1>10. EvidenceRecent'
    <2>1. \A d \in Documents : evidence[d].age \in Nat
      BY BoundIsNat DEF Inv, Typed, RowsType, Evidence
    <2> QED
      BY <1>1, <1>9, <2>1 DEF Inv, EvidenceRecent
  <1>11. KeptRecent'
    <2>1. \A s \in Syncs : \A d \in DOMAIN sync[s].kept : sync[s].kept[d].age \in Nat
      BY BoundIsNat DEF Inv, Typed, SyncRecords, Kept, Evidence
    <2> QED
      BY <1>1, <1>9, <2>1 DEF Inv, KeptRecent
  <1>12. OneRun'
    BY <1>1 DEF Inv, OneRun
  <1> QED
    BY <1>4, <1>5, <1>7, <1>8, <1>10, <1>11, <1>12 DEF Inv

\* A tick makes a run, a sync and a tuple one tick older, and evidence too, until
\* it counts no more.
LEMMA TickChanges ==
    ASSUME Inv, Tick
    PROVE  /\ UNCHANGED <<drive, edits, listing, known, tuples, granted, faults>>
           /\ since' \in [Tuples -> 0..(Bound + 1)]
           /\ \A t \in Tuples : since'[t] <= since[t] + 1
           /\ \A t \in Stated(drive) : since'[t] = 0
           /\ run' \in [Runs -> RunRecords]
           /\ \A r \in Runs :
                 /\ run'[r].step = run[r].step /\ run'[r].seen = run[r].seen
                 /\ run'[r].desired = run[r].desired /\ run'[r].touches = run[r].touches
                 /\ run[r].step # "idle" => run'[r].age = run[r].age + 1
           /\ sync' \in [Syncs -> SyncRecords]
           /\ \A s \in Syncs :
                 /\ sync'[s].step = sync[s].step /\ sync'[s].seen = sync[s].seen
                 /\ sync[s].step # "idle" => sync'[s].age = sync[s].age + 1
                 /\ DOMAIN sync'[s].kept = DOMAIN sync[s].kept
                 /\ sync[s].step # "idle" => \A d \in DOMAIN sync[s].kept :
                       sync'[s].kept[d].age = Older(sync[s].kept[d].age, Never)
           /\ evidence' \in [Documents -> Evidence]
           /\ \A d \in Documents : evidence'[d].age = Older(evidence[d].age, Never)
  <1>1. UNCHANGED <<drive, edits, listing, known, tuples, granted, faults>>
    BY DEF Tick
  <1>2. /\ since' \in [Tuples -> 0..(Bound + 1)]
        /\ \A t \in Tuples : since'[t] <= since[t] + 1
        /\ \A t \in Stated(drive) : since'[t] = 0
    <2>1. since' = [t \in Tuples |-> IF t \in Stated(drive) THEN 0
                                     ELSE Older(since[t], Bound + 1)]
      BY DEF Tick
    <2>2. since \in [Tuples -> 0..(Bound + 1)] /\ Stated(drive) \subseteq Tuples
      BY StatedType DEF Inv, Typed, GhostType, DriveType
    <2> QED
      BY <2>1, <2>2, BoundIsNat DEF Older
  <1>3. /\ run' \in [Runs -> RunRecords]
        /\ \A r \in Runs :
              /\ run'[r].step = run[r].step /\ run'[r].seen = run[r].seen
              /\ run'[r].desired = run[r].desired /\ run'[r].touches = run[r].touches
              /\ run[r].step # "idle" => run'[r].age = run[r].age + 1
    <2>1. run' = [r \in Runs |-> IF run[r].step = "idle" THEN run[r]
                                 ELSE [run[r] EXCEPT !.age = @ + 1]]
      BY DEF Tick
    <2>2. run \in [Runs -> RunRecords]
      BY DEF Inv, Typed
    <2>3. ASSUME NEW r \in Runs, run[r].step # "idle"
          PROVE  [run[r] EXCEPT !.age = @ + 1] \in RunRecords
      <3>1. run[r].age \in 0..RunLimit /\ run[r].age < RunLimit /\ run[r] \in RunRecords
        BY <2>2, <2>3 DEF Tick, RunRecords
      <3>2. run[r].age + 1 \in 0..RunLimit
        BY <3>1, SyncAssumption
      <3> QED
        BY <3>1, <3>2 DEF RunRecords
    <2>4. \A r \in Runs : run'[r] \in RunRecords
      BY <2>1, <2>2, <2>3
    <2> QED
      BY <2>1, <2>2, <2>4 DEF RunRecords
  <1>4. ASSUME NEW e \in Evidence
        PROVE  Aged(e) \in Evidence /\ Aged(e).age = Older(e.age, Never)
    <2>1. e.age \in 0..Never
      BY DEF Evidence
    <2>2. Older(e.age, Never) \in 0..Never
      BY <2>1, BoundIsNat DEF Older
    <2> QED
      BY <2>2 DEF Evidence, Aged
  <1>5. /\ evidence' \in [Documents -> Evidence]
        /\ \A d \in Documents : evidence'[d].age = Older(evidence[d].age, Never)
    <2>1. evidence' = [d \in Documents |-> Aged(evidence[d])]
      BY DEF Tick
    <2>2. evidence \in [Documents -> Evidence]
      BY DEF Inv, Typed, RowsType
    <2>3. \A d \in Documents : evidence'[d] \in Evidence
      BY <1>4, <2>1, <2>2
    <2> QED
      BY <1>4, <2>1, <2>2, <2>3
  <1>6. ASSUME NEW s \in Syncs
        PROVE  /\ sync'[s] \in SyncRecords
               /\ sync'[s].step = sync[s].step /\ sync'[s].seen = sync[s].seen
               /\ sync[s].step # "idle" => sync'[s].age = sync[s].age + 1
               /\ DOMAIN sync'[s].kept = DOMAIN sync[s].kept
               /\ sync[s].step # "idle" => \A d \in DOMAIN sync[s].kept :
                     sync'[s].kept[d].age = Older(sync[s].kept[d].age, Never)
    <2> DEFINE older == [d \in DOMAIN sync[s].kept |-> Aged(sync[s].kept[d])]
    <2>1. sync'[s] = IF sync[s].step = "idle" THEN sync[s]
                     ELSE [sync[s] EXCEPT !.age = @ + 1, !.kept = older]
      <3>1. sync' = [x \in Syncs |->
               IF sync[x].step = "idle" THEN sync[x]
               ELSE [sync[x] EXCEPT
                        !.age = @ + 1,
                        !.kept = [d \in DOMAIN @ |-> Aged(@[d])]]]
        BY DEF Tick
      <3> QED
        BY <3>1
    <2>2. sync[s] \in SyncRecords
      BY DEF Inv, Typed
    <2>3. CASE sync[s].step = "idle"
      BY <2>1, <2>2, <2>3
    <2>4. CASE sync[s].step # "idle"
      <3>1. sync[s].age \in 0..SyncLimit /\ sync[s].age < SyncLimit
        BY <2>2, <2>4 DEF Tick, SyncRecords
      <3>2. sync[s].age + 1 \in 0..SyncLimit
        BY <3>1, SyncAssumption
      <3>3. PICK S \in SUBSET Documents : sync[s].kept \in [S -> Evidence]
        BY <2>2 DEF SyncRecords, Kept
      <3>4. older \in [S -> Evidence]
        BY <1>4, <3>3
      <3>5. older \in Kept
        BY <3>4 DEF Kept
      <3>6. \A d \in DOMAIN sync[s].kept : older[d].age = Older(sync[s].kept[d].age, Never)
        BY <1>4, <3>3
      <3> HIDE DEF older
      <3>7. sync'[s] = [sync[s] EXCEPT !.age = @ + 1, !.kept = older]
        BY <2>1, <2>4
      <3>8. DOMAIN older = DOMAIN sync[s].kept
        BY <3>3, <3>4
      <3>9. /\ sync'[s] \in SyncRecords /\ sync'[s].kept = older
            /\ sync'[s].age = sync[s].age + 1
            /\ sync'[s].step = sync[s].step /\ sync'[s].seen = sync[s].seen
        BY <2>2, <3>2, <3>5, <3>7 DEF SyncRecords
      <3> QED
        BY <3>6, <3>8, <3>9
    <2> QED
      BY <2>3, <2>4
  <1>7. sync' \in [Syncs -> SyncRecords]
    <2>1. DOMAIN sync' = Syncs /\ sync' = [s \in Syncs |-> sync'[s]]
      BY DEF Tick
    <2> QED
      BY <1>6, <2>1
  <1> QED
    BY <1>1, <1>2, <1>3, <1>5, <1>6, <1>7

LEMMA TickInv ==
    ASSUME Inv, Tick
    PROVE  Inv'
  <1>1. Typed'
    BY TickChanges DEF Inv, Typed, DriveType, RowsType, GhostType
  <1>2. StatedIsNow'
    BY TickChanges DEF StatedIsNow
  <1>3. OneRun'
    BY TickChanges DEF Inv, OneRun
  <1>4. since \in [Tuples -> 0..(Bound + 1)] /\ since' \in [Tuples -> 0..(Bound + 1)]
        /\ \A t \in Tuples : since'[t] <= since[t] + 1
    BY TickChanges DEF Inv, Typed, GhostType
  <1>5. \A list \in Listings, n \in Nat :
           RecentBy(since, list, n) => RecentBy(since', list, n + 1)
    <2> SUFFICES ASSUME NEW list \in Listings, NEW n \in Nat, RecentBy(since, list, n)
                 PROVE  RecentBy(since', list, n + 1)
      OBVIOUS
    <2>1. \A t \in Tuples : since[t] <= n => since'[t] <= n + 1
      BY <1>4, BoundIsNat
    <2> QED
      BY <2>1, RecentLater
  <1>6. RunsRecent'
    <2> SUFFICES ASSUME NEW r \in Runs
                 PROVE  RunRecent(r)'
      BY DEF RunsRecent
    <2>1. /\ run[r].age \in Nat /\ run[r].age + SyncLimit \in Nat
          /\ run[r].seen \in Listings /\ listing \in Listings
          /\ run[r].desired \subseteq Tuples
      BY SyncAssumption DEF Inv, Typed, RowsType, RunRecords
    <2>2. RunRecent(r)
      BY DEF Inv, RunsRecent
    <2>3. CASE run[r].step = "idle"
      BY <2>3, TickChanges DEF RunRecent
    <2>4. CASE run[r].step # "idle"
      <3>1. /\ run'[r].step = run[r].step /\ run'[r].seen = run[r].seen
            /\ run'[r].desired = run[r].desired /\ run'[r].touches = run[r].touches
            /\ run'[r].age = run[r].age + 1 /\ listing' = listing /\ tuples' = tuples
        BY <2>4, TickChanges
      <3>2. run[r].age + 1 + SyncLimit = run[r].age + SyncLimit + 1
        BY <2>1, SyncAssumption
      <3>3. run[r].step = "listed" => RecentBy(since', run[r].seen, run[r].age + 1)
        BY <1>5, <2>1, <2>2 DEF RunRecent
      <3>4. run[r].step = "persisted" =>
               RecentBy(since', listing, run[r].age + 1 + SyncLimit)
        BY <1>5, <2>1, <2>2, <3>2 DEF RunRecent
      <3>5. run[r].step \in {"planned", "writing", "verified"} =>
               \A t \in run[r].desired : since'[t] <= run[r].age + 1 + SyncLimit
        <4> SUFFICES ASSUME run[r].step \in {"planned", "writing", "verified"},
                            NEW t \in run[r].desired
                     PROVE  since'[t] <= run[r].age + 1 + SyncLimit
          OBVIOUS
        <4>1. since[t] <= run[r].age + SyncLimit
          BY <2>2 DEF RunRecent
        <4>2. t \in Tuples /\ since[t] \in Nat /\ since'[t] \in Nat
          BY <1>4, <2>1, BoundIsNat
        <4>3. since'[t] <= since[t] + 1
          BY <1>4, <4>2
        <4> QED
          BY <2>1, <3>2, <4>1, <4>2, <4>3
      <3> QED
        BY <2>2, <3>1, <3>3, <3>4, <3>5 DEF RunRecent
    <2> QED
      BY <2>3, <2>4
  <1>7. SyncsRecent'
    <2> SUFFICES ASSUME NEW s \in Syncs, sync[s].step = "listed"
                 PROVE  RecentBy(since', sync'[s].seen, sync'[s].age)
      BY TickChanges DEF SyncsRecent
    <2>1. sync[s].age \in Nat /\ sync[s].seen \in Listings
      BY DEF Inv, Typed, SyncRecords
    <2>2. sync'[s].seen = sync[s].seen /\ sync'[s].age = sync[s].age + 1
      BY TickChanges
    <2> QED
      BY <1>5, <2>1, <2>2 DEF Inv, SyncsRecent
  <1>8. \A age \in 0..Never :
           Within(since, tuples, age) => Within(since', tuples, Older(age, Never))
    <2> SUFFICES ASSUME NEW age \in 0..Never, Within(since, tuples, age),
                        Older(age, Never) <= MaxAge, NEW t \in tuples
                 PROVE  since'[t] <= RunLimit + SyncLimit + Older(age, Never)
      BY DEF Within
    <2>1. Older(age, Never) = age + 1 /\ age <= MaxAge
      BY SyncAssumption DEF Older, Never
    <2>2. t \in Tuples /\ since[t] \in Nat /\ since'[t] \in Nat
      BY <1>4, BoundIsNat DEF Inv, Typed, RowsType
    <2>3. since[t] <= RunLimit + SyncLimit + age /\ since'[t] <= since[t] + 1
      BY <1>4, <2>1, <2>2 DEF Within
    <2> QED
      BY <2>1, <2>2, <2>3, SyncAssumption
  <1>9. EvidenceRecent'
    <2>1. \A d \in Documents : evidence[d].age \in 0..Never
      BY DEF Inv, Typed, RowsType, Evidence
    <2> QED
      BY <1>8, <2>1, TickChanges DEF Inv, EvidenceRecent
  <1>10. KeptRecent'
    <2> SUFFICES ASSUME NEW s \in Syncs, NEW d \in DOMAIN sync[s].kept
                 PROVE  /\ sync[s].step # "idle"
                        /\ Within(since', tuples, sync'[s].kept[d].age)
      <3>1. /\ tuples' = tuples
            /\ \A s \in Syncs : /\ DOMAIN sync'[s].kept = DOMAIN sync[s].kept
                                /\ sync'[s].step = sync[s].step
        BY TickChanges
      <3> QED
        BY <3>1 DEF KeptRecent
    <2>1. sync[s].kept[d].age \in 0..Never
      BY DEF Inv, Typed, SyncRecords, Kept, Evidence
    <2>2. sync[s].step # "idle"
      BY DEF Inv, KeptRecent
    <2>3. sync'[s].kept[d].age = Older(sync[s].kept[d].age, Never)
      BY <2>2, TickChanges
    <2> QED
      BY <1>8, <2>1, <2>3 DEF Inv, KeptRecent
  <1> QED
    BY <1>1, <1>2, <1>3, <1>6, <1>7, <1>9, <1>10 DEF Inv

-----------------------------------------------------------------------------
(* Permission runs.                                                        *)

\* A step of one run that touches neither rows nor tuples.
LEMMA RunOnly ==
    ASSUME Inv, NEW r \in Runs, NEW x \in RunRecords, run' = [run EXCEPT ![r] = x],
           UNCHANGED <<driveVars, store, tuples, sync, ghosts>>,
           faults' \in 0..MaxFaults, RunRecent(r)',
           x.step = "idle" \/ \A q \in Runs \ {r} : run[q].step = "idle"
    PROVE  Inv'
  <1>1. /\ UNCHANGED <<drive, edits, listing, known, evidence, tuples, sync, since, granted>>
        /\ run \in [Runs -> RunRecords]
    BY DEF driveVars, store, ghosts, Inv, Typed
  <1>2. run'[r] = x /\ \A q \in Runs \ {r} : run'[q] = run[q]
    BY <1>1
  <1>3. Typed'
    BY <1>1 DEF Inv, Typed, DriveType, RowsType, GhostType
  <1>4. OneRun'
    BY <1>2 DEF Inv, OneRun
  <1>5. RunsRecent'
    BY <1>1, <1>2 DEF Inv, RunsRecent, RunRecent
  <1>6. StatedIsNow' /\ SyncsRecent' /\ EvidenceRecent' /\ KeptRecent'
    BY <1>1 DEF Inv, StatedIsNow, SyncsRecent, EvidenceRecent, KeptRecent
  <1> QED
    BY <1>3, <1>4, <1>5, <1>6 DEF Inv

LEMMA OthersIdle ==
    ASSUME Inv, NEW r \in Runs, run[r].step # "idle"
    PROVE  \A q \in Runs \ {r} : run[q].step = "idle"
  BY DEF Inv, OneRun

LEMMA ListInv ==
    ASSUME Inv, NEW r \in Runs, List(r)
    PROVE  Inv'
  <1> DEFINE x == [run[r] EXCEPT !.step = "listed", !.seen = ListPermissionResources(drive)]
  <1>1. /\ run' = [run EXCEPT ![r] = x]
        /\ UNCHANGED <<driveVars, store, tuples, sync, ghosts, faults>>
        /\ \A q \in Runs \ {r} : run[q].step = "idle"
    BY DEF List, LockIsFree
  <1>2. run[r] \in RunRecords /\ run \in [Runs -> RunRecords]
    BY DEF Inv, Typed
  <1>3. x \in RunRecords
    BY <1>2, ListingType DEF RunRecords, Inv, Typed, DriveType
  <1>4. x.step = "listed" /\ x.seen = ListPermissionResources(drive) /\ x.age \in Nat
    BY <1>2 DEF RunRecords
  <1>5. RecentBy(since, x.seen, x.age)
    <2>1. RecentBy(since, x.seen, 0)
      BY <1>4, ListingIsRecent DEF Inv, Typed
    <2>2. \A t \in Tuples : since[t] <= 0 => since[t] <= x.age
      BY <1>4, BoundIsNat DEF Inv, Typed, GhostType
    <2> QED
      BY <1>3, <2>1, <2>2, RecentLater DEF RunRecords
  <1> HIDE DEF x
  <1>6. run'[r] = x /\ since' = since
    BY <1>1, <1>2 DEF ghosts
  <1>7. RunRecent(r)'
    BY <1>4, <1>5, <1>6 DEF RunRecent
  <1> QED
    BY <1>1, <1>3, <1>7, RunOnly DEF Inv, Typed

LEMMA PlanInv ==
    ASSUME Inv, NEW r \in Runs, Plan(r)
    PROVE  Inv'
  <1> DEFINE referenced == ReferencedGroups(listing)
             resolved == GroupsResolve(drive, referenced)
             unresolved == IF resolved THEN {} ELSE referenced
             groups == IF resolved THEN GroupTuples(drive, referenced) ELSE {}
             eligible == EligibleDocuments(listing, unresolved, StickyExclusions)
             desired == DesiredState(listing, groups, unresolved, StickyExclusions)
             with == [d \in eligible |-> listing.acl[d]]
             without == [d \in ActiveDocuments(listing) \ eligible |->
                            IF d \in StickyExclusions THEN "mime" ELSE "other"]
             x == [run[r] EXCEPT !.step = "planned", !.desired = desired,
                                 !.eligible = with, !.excluded = without]
  <1>1. /\ run' = [run EXCEPT ![r] = x] /\ run[r].step = "persisted"
        /\ UNCHANGED <<driveVars, store, tuples, sync, ghosts, faults>>
    BY DEF Plan
  <1>2. /\ run[r] \in RunRecords /\ run \in [Runs -> RunRecords]
        /\ listing \in Listings /\ drive \in Drives
    BY DEF Inv, Typed, RowsType, DriveType
  <1>3. groups \subseteq Tuples /\ groups \subseteq Stated(drive)
    BY <1>2, GroupTuplesStated
  <1>4. with \in Eligibles
    <2>1. eligible \in SUBSET Documents
      BY <1>2, EligibleType
    <2>2. with \in [eligible -> Acls]
      BY <1>2, <2>1 DEF Listings, Items, Acls
    <2> QED
      BY <2>1, <2>2 DEF Eligibles
  <1>5. without \in Exclusions
    <2>1. ActiveDocuments(listing) \ eligible \in SUBSET Documents
      BY DEF ActiveDocuments
    <2>2. without \in [ActiveDocuments(listing) \ eligible -> {"mime", "other"}]
      OBVIOUS
    <2> QED
      BY <2>1, <2>2 DEF Exclusions
  <1> HIDE DEF groups, unresolved, with, without
  <1>6. desired \subseteq Tuples
    BY <1>2, <1>3, DesiredType
  <1>7. \A t \in desired : since[t] <= run[r].age + SyncLimit
    <2>1. RecentBy(since, listing, run[r].age + SyncLimit)
      BY <1>1 DEF Inv, RunsRecent, RunRecent
    <2>2. run[r].age + SyncLimit \in Nat
      BY <1>2, SyncAssumption DEF RunRecords
    <2>3. \A t \in groups : since[t] = 0
      BY <1>3 DEF Inv, StatedIsNow
    <2> QED
      BY <1>2, <2>1, <2>2, <2>3, DesiredIsRecent
  <1> HIDE DEF desired
  <1>8. /\ x \in RunRecords /\ x.step = "planned" /\ x.desired = desired
        /\ x.age = run[r].age
    BY <1>2, <1>4, <1>5, <1>6 DEF RunRecords
  <1> HIDE DEF x
  <1>9. run'[r] = x /\ since' = since
    BY <1>1, <1>2 DEF ghosts
  <1>10. RunRecent(r)'
    BY <1>7, <1>8, <1>9 DEF RunRecent
  <1>11. \A q \in Runs \ {r} : run[q].step = "idle"
    BY <1>1, OthersIdle
  <1>12. UNCHANGED <<driveVars, store, tuples, sync, ghosts>> /\ faults' \in 0..MaxFaults
    BY <1>1 DEF Inv, Typed
  <1> QED
    BY <1>1, <1>8, <1>10, <1>11, <1>12, RunOnly

LEMMA ReadTuplesInv ==
    ASSUME Inv, NEW r \in Runs, ReadTuples(r)
    PROVE  Inv'
  <1> DEFINE x == [run[r] EXCEPT !.step = "writing",
                                 !.touches = run[r].desired \ tuples,
                                 !.deletes = tuples \ run[r].desired]
  <1>1. /\ run' = [run EXCEPT ![r] = x] /\ run[r].step = "planned"
        /\ UNCHANGED <<driveVars, store, tuples, sync, ghosts, faults>>
    BY DEF ReadTuples, Inv, Typed
  <1>2. run[r] \in RunRecords /\ run \in [Runs -> RunRecords] /\ tuples \subseteq Tuples
    BY DEF Inv, Typed, RowsType
  <1>3. /\ x \in RunRecords /\ x.step = "writing" /\ x.desired = run[r].desired
        /\ x.age = run[r].age /\ x.touches \subseteq run[r].desired
    BY <1>2 DEF RunRecords
  <1> HIDE DEF x
  <1>4. run'[r] = x /\ since' = since
    BY <1>1, <1>2 DEF ghosts
  <1>5. RunRecent(r)'
    BY <1>1, <1>3, <1>4 DEF RunRecent, Inv, RunsRecent
  <1>6. \A q \in Runs \ {r} : run[q].step = "idle"
    BY <1>1, OthersIdle
  <1> QED
    BY <1>1, <1>3, <1>5, <1>6, RunOnly DEF Inv, Typed

LEMMA VerifyInv ==
    ASSUME Inv, NEW r \in Runs, Verify(r)
    PROVE  Inv'
  <1> DEFINE x == [run[r] EXCEPT !.step = "verified"]
  <1>1. /\ run' = [run EXCEPT ![r] = x] /\ run[r].step = "writing"
        /\ tuples = run[r].desired
        /\ UNCHANGED <<driveVars, store, tuples, sync, ghosts, faults>>
    BY DEF Verify, Inv, Typed
  <1>2. run[r] \in RunRecords /\ run \in [Runs -> RunRecords]
    BY DEF Inv, Typed
  <1>3. /\ x \in RunRecords /\ x.step = "verified" /\ x.desired = run[r].desired
        /\ x.age = run[r].age
    BY <1>2 DEF RunRecords
  <1> HIDE DEF x
  <1>4. run'[r] = x /\ since' = since /\ tuples' = tuples
    BY <1>1, <1>2 DEF ghosts
  <1>5. RunRecent(r)'
    BY <1>1, <1>3, <1>4 DEF RunRecent, Inv, RunsRecent
  <1>6. \A q \in Runs \ {r} : run[q].step = "idle"
    BY <1>1, OthersIdle
  <1> QED
    BY <1>1, <1>3, <1>5, <1>6, RunOnly DEF Inv, Typed

LEMMA StopInv ==
    ASSUME Inv, NEW r \in Runs, Refuse(r) \/ Fail(r)
    PROVE  Inv'
  <1>1. /\ run' = [run EXCEPT ![r] = IdleRun]
        /\ UNCHANGED <<driveVars, store, tuples, sync, ghosts>>
        /\ faults' \in 0..MaxFaults
    BY SyncAssumption DEF Refuse, Fail, Inv, Typed
  <1>2. IdleRun \in RunRecords /\ IdleRun.step = "idle" /\ run \in [Runs -> RunRecords]
    BY RecordTypes DEF IdleRun, Inv, Typed
  <1>3. RunRecent(r)'
    BY <1>1, <1>2 DEF RunRecent
  <1> QED
    BY <1>1, <1>2, <1>3, RunOnly

LEMMA WriteBatchInv ==
    ASSUME Inv, NEW r \in Runs, WriteBatch(r)
    PROVE  Inv'
  <1>1. PICK batch \in SUBSET (run[r].touches \cup run[r].deletes) :
           /\ tuples' = (tuples \cup (batch \cap run[r].touches))
                           \ (batch \cap run[r].deletes)
           /\ run' = [run EXCEPT ![r].touches = @ \ batch, ![r].deletes = @ \ batch]
    BY DEF WriteBatch
  <1>2. /\ UNCHANGED <<drive, edits, listing, known, evidence, sync, since, granted, faults>>
        /\ run[r].step = "writing" /\ run \in [Runs -> RunRecords]
        /\ run[r] \in RunRecords
    BY DEF WriteBatch, driveVars, store, ghosts, Inv, Typed
  <1>3. /\ run'[r] = [run[r] EXCEPT !.touches = @ \ batch, !.deletes = @ \ batch]
        /\ \A q \in Runs \ {r} : run'[q] = run[q]
        /\ run' = [run EXCEPT ![r] = run'[r]]
    BY <1>1, <1>2
  <1>4. /\ run'[r] \in RunRecords /\ run'[r].step = "writing"
        /\ run'[r].desired = run[r].desired /\ run'[r].age = run[r].age
        /\ run'[r].touches \subseteq run[r].touches
    BY <1>2, <1>3 DEF RunRecords
  <1>5. run' \in [Runs -> RunRecords]
    BY <1>2, <1>3, <1>4
  <1>6. /\ run[r].touches \subseteq run[r].desired /\ run[r].desired \subseteq Tuples
        /\ \A t \in run[r].desired : since[t] <= run[r].age + SyncLimit
    BY <1>2 DEF Inv, RunsRecent, RunRecent, RunRecords
  <1>7. Typed'
    BY <1>1, <1>2, <1>5, <1>6 DEF Inv, Typed, DriveType, RowsType, GhostType
  <1>8. \A q \in Runs \ {r} : run[q].step = "idle"
    BY <1>2, OthersIdle
  <1>9. OneRun'
    BY <1>3, <1>8 DEF OneRun
  <1>10. RunsRecent'
    <2>1. RunRecent(r)'
      BY <1>2, <1>4, <1>6 DEF RunRecent
    <2>2. \A q \in Runs \ {r} : RunRecent(q)'
      BY <1>3, <1>8 DEF RunRecent
    <2> QED
      BY <2>1, <2>2 DEF RunsRecent
  <1>11. \A age \in Nat : Within(since, tuples, age) => Within(since, tuples', age)
    <2> SUFFICES ASSUME NEW age \in Nat, Within(since, tuples, age), age <= MaxAge,
                        NEW t \in tuples'
                 PROVE  since[t] <= RunLimit + SyncLimit + age
      BY DEF Within
    <2>1. t \in tuples \/ t \in run[r].desired
      BY <1>1, <1>6
    <2>2. CASE t \in tuples
      BY <2>2 DEF Within
    <2>3. CASE t \in run[r].desired
      <3>1. since[t] <= run[r].age + SyncLimit /\ since[t] \in Nat
        BY <1>6, <2>3, BoundIsNat DEF Inv, Typed, GhostType
      <3>2. run[r].age \in 0..RunLimit
        BY <1>2 DEF RunRecords
      <3> QED
        BY <3>1, <3>2, SyncAssumption
    <2> QED
      BY <2>1, <2>2, <2>3
  <1>12. EvidenceRecent'
    <2>1. \A d \in Documents : evidence[d].age \in Nat
      BY BoundIsNat DEF Inv, Typed, RowsType, Evidence
    <2> QED
      BY <1>2, <1>11, <2>1 DEF Inv, EvidenceRecent
  <1>13. KeptRecent'
    <2>1. \A s \in Syncs : \A d \in DOMAIN sync[s].kept : sync[s].kept[d].age \in Nat
      BY BoundIsNat DEF Inv, Typed, SyncRecords, Kept, Evidence
    <2> QED
      BY <1>2, <1>11, <2>1 DEF Inv, KeptRecent
  <1>14. StatedIsNow' /\ SyncsRecent'
    BY <1>2 DEF Inv, StatedIsNow, SyncsRecent
  <1> QED
    BY <1>7, <1>9, <1>10, <1>12, <1>13, <1>14 DEF Inv

\* Steps of a run or a sync that replace evidence leave none younger than what
\* it stands for.
LEMMA PersistInv ==
    ASSUME Inv, NEW r \in Runs, PersistCompleteScan(r)
    PROVE  Inv'
  <1> DEFINE seen == run[r].seen
             stored == seen.active \cap (Folders \cup known)
             x == [run[r] EXCEPT !.step = "persisted", !.seen = Nothing]
  <1>1. /\ UNCHANGED <<drive, edits, known, tuples, sync, since, granted, faults>>
        /\ run[r].step = "listed" /\ run \in [Runs -> RunRecords]
        /\ run[r] \in RunRecords /\ seen \in Listings /\ listing \in Listings
        /\ evidence \in [Documents -> Evidence]
    BY DEF PersistCompleteScan, driveVars, ghosts, Inv, Typed, RowsType, RunRecords
  <1>2. /\ run'[r] = x /\ \A q \in Runs \ {r} : run'[q] = run[q]
        /\ run' = [run EXCEPT ![r] = x]
    BY <1>1 DEF PersistCompleteScan
  <1>3. x \in RunRecords /\ x.step = "persisted" /\ x.age = run[r].age
    BY <1>1, NothingType DEF RunRecords
  <1>4. /\ listing' =
              [active |-> stored,
               parents |-> [i \in Items |-> IF i \in stored THEN seen.parents[i]
                                            ELSE listing.parents[i]],
               acl |-> [i \in Items |-> IF i \in stored THEN seen.acl[i]
                                        ELSE listing.acl[i]],
               failed |-> (seen.failed \cap stored) \cup (listing.failed \ stored)]
        /\ evidence' = [d \in Documents |->
              IF d \in listing.active \ stored THEN Unverified("other")
              ELSE IF d \in seen.failed \cap stored
              THEN [evidence[d] EXCEPT !.exclusion = "other"]
              ELSE evidence[d]]
    BY DEF PersistCompleteScan
  <1>5. stored \subseteq Items /\ stored \subseteq seen.active
    BY <1>1 DEF Listings
  <1>6. listing' \in Listings
    BY <1>1, <1>4, <1>5 DEF Listings
  <1>7. \A d \in Documents : /\ evidence'[d] \in Evidence
                             /\ evidence'[d].age \in {Never, evidence[d].age}
    <2> SUFFICES ASSUME NEW d \in Documents
                 PROVE  /\ evidence'[d] \in Evidence
                        /\ evidence'[d].age \in {Never, evidence[d].age}
      OBVIOUS
    <2>1. /\ Unverified("other") \in Evidence /\ Unverified("other").age = Never
          /\ evidence[d] \in Evidence
      BY <1>1, RecordTypes DEF Unverified
    <2>2. /\ [evidence[d] EXCEPT !.exclusion = "other"] \in Evidence
          /\ [evidence[d] EXCEPT !.exclusion = "other"].age = evidence[d].age
      BY <2>1 DEF Evidence
    <2> QED
      BY <1>4, <2>1, <2>2
  <1>8. evidence' \in [Documents -> Evidence]
    BY <1>4, <1>7
  <1> HIDE DEF x
  <1>9. Typed'
    <2>1. run' \in [Runs -> RunRecords]
      BY <1>1, <1>2, <1>3
    <2> QED
      BY <1>1, <1>6, <1>8, <2>1 DEF Inv, Typed, DriveType, RowsType, GhostType
  <1>10. \A q \in Runs \ {r} : run[q].step = "idle"
    BY <1>1, OthersIdle
  <1>11. RecentBy(since, listing', run[r].age + SyncLimit)
    <2>1. RecentBy(since, seen, run[r].age)
      BY <1>1 DEF Inv, RunsRecent, RunRecent
    <2>2. \A t \in Tuples : since[t] <= run[r].age => since[t] <= run[r].age + SyncLimit
      BY <1>1, BoundIsNat, SyncAssumption DEF Inv, Typed, GhostType, RunRecords
    <2>3. RecentBy(since, seen, run[r].age + SyncLimit)
      BY <1>1, <2>1, <2>2, RecentLater
    <2>4. /\ listing'.active = stored
          /\ \A i \in stored : listing'.parents[i] = seen.parents[i]
                              /\ listing'.acl[i] = seen.acl[i]
      BY <1>4, <1>5
    <2> QED
      BY <1>5, <2>3, <2>4 DEF RecentBy
  <1>12. RunsRecent'
    <2>1. RunRecent(r)'
      BY <1>1, <1>2, <1>3, <1>11 DEF RunRecent
    <2>2. \A q \in Runs \ {r} : RunRecent(q)'
      BY <1>2, <1>10 DEF RunRecent
    <2> QED
      BY <2>1, <2>2 DEF RunsRecent
  <1>13. OneRun'
    BY <1>2, <1>10 DEF OneRun
  <1>14. EvidenceRecent'
    <2>1. Within(since, tuples, Never)
      BY SyncAssumption DEF Within, Never
    <2> QED
      BY <1>1, <1>7, <2>1 DEF Inv, EvidenceRecent
  <1>15. StatedIsNow' /\ SyncsRecent' /\ KeptRecent'
    BY <1>1 DEF Inv, StatedIsNow, SyncsRecent, KeptRecent
  <1> QED
    BY <1>9, <1>12, <1>13, <1>14, <1>15 DEF Inv

LEMMA CommitInv ==
    ASSUME Inv, NEW r \in Runs, CommitVerifiedDocuments(r)
    PROVE  Inv'
  <1> DEFINE eligible == run[r].eligible
             excluded == run[r].excluded
             current == {d \in DOMAIN eligible : d \in listing.active
                                                   /\ listing.acl[d] = eligible[d]}
             fresh(d) == [exclusion |-> "none", eligible |-> TRUE,
                          version |-> {eligible[d]}, age |-> 0]
  <1>1. /\ UNCHANGED <<drive, edits, listing, known, tuples, sync, since, granted, faults>>
        /\ run[r].step = "verified" /\ run \in [Runs -> RunRecords]
        /\ run[r] \in RunRecords /\ run' = [run EXCEPT ![r] = IdleRun]
        /\ evidence \in [Documents -> Evidence]
        /\ evidence' = [d \in Documents |->
              IF d \in current THEN fresh(d)
              ELSE IF d \in DOMAIN excluded THEN Unverified(excluded[d])
              ELSE evidence[d]]
    BY DEF CommitVerifiedDocuments, driveVars, ghosts, Inv, Typed, RowsType
  <1>2. /\ run'[r] = IdleRun /\ IdleRun.step = "idle" /\ IdleRun \in RunRecords
        /\ \A q \in Runs \ {r} : run'[q] = run[q]
    BY <1>1, RecordTypes DEF IdleRun
  <1>3. \A d \in current : fresh(d) \in Evidence
    <2>1. \A d \in DOMAIN eligible : eligible[d] \in Acls
      BY <1>1 DEF RunRecords, Eligibles
    <2>2. 0 \in 0..Never
      BY BoundIsNat
    <2> QED
      BY <2>1, <2>2 DEF Evidence
  <1>4. \A d \in DOMAIN excluded : /\ Unverified(excluded[d]) \in Evidence
                                  /\ Unverified(excluded[d]).age = Never
    <2>1. \A d \in DOMAIN excluded : excluded[d] \in {"mime", "other"}
      BY <1>1 DEF RunRecords, Exclusions
    <2> QED
      BY <2>1, RecordTypes DEF Unverified
  <1>5. \A d \in Documents : /\ evidence'[d] \in Evidence
                             /\ evidence'[d].age \in {0, Never, evidence[d].age}
    BY <1>1, <1>3, <1>4
  <1>6. evidence' \in [Documents -> Evidence]
    BY <1>1, <1>5
  <1>7. Typed'
    <2>1. run' \in [Runs -> RunRecords]
      BY <1>1, <1>2
    <2> QED
      BY <1>1, <1>6, <2>1 DEF Inv, Typed, DriveType, RowsType, GhostType
  <1>8. RunsRecent' /\ OneRun'
    BY <1>1, <1>2 DEF Inv, RunsRecent, RunRecent, OneRun
  <1>9. Within(since, tuples, 0)
    <2>1. tuples = run[r].desired /\ \A t \in tuples : since[t] <= run[r].age + SyncLimit
      BY <1>1 DEF Inv, RunsRecent, RunRecent
    <2>2. run[r].age \in 0..RunLimit /\ \A t \in tuples : since[t] \in Nat
      BY <1>1, BoundIsNat DEF RunRecords, Inv, Typed, RowsType, GhostType
    <2> QED
      BY <2>1, <2>2, SyncAssumption DEF Within
  <1>10. Within(since, tuples, Never)
    BY SyncAssumption DEF Within, Never
  <1>11. EvidenceRecent'
    BY <1>1, <1>5, <1>9, <1>10 DEF Inv, EvidenceRecent
  <1>12. StatedIsNow' /\ SyncsRecent' /\ KeptRecent'
    BY <1>1 DEF Inv, StatedIsNow, SyncsRecent, KeptRecent
  <1> QED
    BY <1>7, <1>8, <1>11, <1>12 DEF Inv

-----------------------------------------------------------------------------
(* Drive syncs.                                                            *)

\* A step of one sync that touches no row.
LEMMA SyncOnly ==
    ASSUME Inv, NEW s \in Syncs, NEW x \in SyncRecords, sync' = [sync EXCEPT ![s] = x],
           UNCHANGED <<driveVars, store, tuples, run, ghosts>>,
           faults' \in 0..MaxFaults,
           x.step = "listed" => RecentBy(since, x.seen, x.age),
           \A d \in DOMAIN x.kept : x.step # "idle" /\ Within(since, tuples, x.kept[d].age)
    PROVE  Inv'
  <1>1. /\ UNCHANGED <<drive, edits, listing, known, evidence, tuples, run, since, granted>>
        /\ sync \in [Syncs -> SyncRecords]
    BY DEF driveVars, store, ghosts, Inv, Typed
  <1>2. sync'[s] = x /\ \A z \in Syncs \ {s} : sync'[z] = sync[z]
    BY <1>1
  <1>3. Typed'
    BY <1>1 DEF Inv, Typed, DriveType, RowsType, GhostType
  <1>4. SyncsRecent'
    BY <1>1, <1>2 DEF Inv, SyncsRecent
  <1>5. KeptRecent'
    BY <1>1, <1>2 DEF Inv, KeptRecent
  <1>6. StatedIsNow' /\ OneRun' /\ RunsRecent' /\ EvidenceRecent'
    BY <1>1 DEF Inv, StatedIsNow, OneRun, RunsRecent, RunRecent, EvidenceRecent
  <1> QED
    BY <1>3, <1>4, <1>5, <1>6 DEF Inv

LEMMA SyncListInv ==
    ASSUME Inv, NEW s \in Syncs, SyncList(s)
    PROVE  Inv'
  <1> DEFINE x == [sync[s] EXCEPT !.step = "listed", !.seen = ListPermissionResources(drive)]
  <1>1. /\ sync' = [sync EXCEPT ![s] = x] /\ sync[s].step = "idle"
        /\ UNCHANGED <<driveVars, store, tuples, run, ghosts, faults>>
    BY DEF SyncList
  <1>2. sync[s] \in SyncRecords
    BY DEF Inv, Typed
  <1>3. /\ x \in SyncRecords /\ x.seen = ListPermissionResources(drive) /\ x.age \in Nat
        /\ x.kept = sync[s].kept
    <2>1. ListPermissionResources(drive) \in Listings
      BY ListingType DEF Inv, Typed, DriveType
    <2>2. x \in SyncRecords
      BY <1>2, <2>1 DEF SyncRecords
    <2>3. x.seen = ListPermissionResources(drive)
      BY <1>2 DEF SyncRecords
    <2>4. x.age \in Nat /\ x.kept = sync[s].kept
      BY <1>2 DEF SyncRecords
    <2> QED
      BY <2>2, <2>3, <2>4
  <1>4. RecentBy(since, x.seen, x.age)
    <2>1. RecentBy(since, x.seen, 0)
      BY <1>3, ListingIsRecent DEF Inv, Typed
    <2>2. \A t \in Tuples : since[t] <= 0 => since[t] <= x.age
      BY <1>3, BoundIsNat DEF Inv, Typed, GhostType
    <2> QED
      BY <1>3, <2>1, <2>2, RecentLater DEF SyncRecords
  <1>5. DOMAIN x.kept = {}
    BY <1>1, <1>3 DEF Inv, KeptRecent
  <1> HIDE DEF x
  <1> QED
    BY <1>1, <1>3, <1>4, <1>5, SyncOnly DEF Inv, Typed

LEMMA SyncReadInv ==
    ASSUME Inv, NEW s \in Syncs, NEW d \in Documents, SyncRead(s, d)
    PROVE  Inv'
  <1> DEFINE kept == [e \in (DOMAIN sync[s].kept) \cup {d} |->
                         IF e = d THEN Preserved(s, d) ELSE sync[s].kept[e]]
             x == [sync[s] EXCEPT !.kept = kept]
  <1>1. /\ sync[s] \in SyncRecords /\ sync \in [Syncs -> SyncRecords]
        /\ evidence[d] \in Evidence
    BY DEF Inv, Typed, RowsType
  <1>2. /\ sync' = [sync EXCEPT ![s] = x] /\ sync[s].step = "listed"
        /\ UNCHANGED <<driveVars, store, tuples, run, ghosts, faults>>
    BY <1>1 DEF SyncRead
  <1>3. /\ Preserved(s, d) \in Evidence
        /\ Preserved(s, d).age \in {Never, evidence[d].age}
    <2> DEFINE reason == ExclusionReason(sync[s].seen, d)
    <2>1. reason \in {"none", "mime", "other"}
      BY DEF ExclusionReason
    <2>2. Unverified(reason) \in Evidence /\ Unverified(reason).age = Never
      BY <2>1, RecordTypes DEF Unverified
    <2>3. /\ [evidence[d] EXCEPT !.exclusion = "none"] \in Evidence
          /\ [evidence[d] EXCEPT !.exclusion = "none"].age = evidence[d].age
      BY <1>1 DEF Evidence
    <2>4. Preserved(s, d) \in {Unverified(reason), [evidence[d] EXCEPT !.exclusion = "none"]}
      BY DEF Preserved
    <2> QED
      BY <2>2, <2>3, <2>4
  <1>4. PICK S \in SUBSET Documents : sync[s].kept \in [S -> Evidence]
    BY <1>1 DEF SyncRecords, Kept
  <1>5. kept \in [S \cup {d} -> Evidence] /\ DOMAIN kept = S \cup {d}
    BY <1>3, <1>4
  <1>6. kept \in Kept
    BY <1>5 DEF Kept
  <1>7. \A e \in S \cup {d} : Within(since, tuples, kept[e].age)
    <2>1. Within(since, tuples, Never)
      BY SyncAssumption DEF Within, Never
    <2>2. Within(since, tuples, Preserved(s, d).age)
      BY <1>3, <2>1 DEF Inv, EvidenceRecent
    <2>3. \A e \in S : Within(since, tuples, sync[s].kept[e].age)
      BY <1>4 DEF Inv, KeptRecent
    <2> QED
      BY <1>4, <2>2, <2>3
  <1> HIDE DEF kept
  <1>8. /\ x \in SyncRecords /\ x.kept = kept /\ x.step = "listed"
        /\ x.seen = sync[s].seen /\ x.age = sync[s].age
    BY <1>1, <1>2, <1>6 DEF SyncRecords
  <1>9. RecentBy(since, x.seen, x.age)
    BY <1>2, <1>8 DEF Inv, SyncsRecent
  <1> HIDE DEF x
  <1>10. \A e \in DOMAIN x.kept : x.step # "idle" /\ Within(since, tuples, x.kept[e].age)
    BY <1>5, <1>7, <1>8
  <1> QED
    BY <1>2, <1>8, <1>9, <1>10, SyncOnly DEF Inv, Typed

LEMMA SyncFailInv ==
    ASSUME Inv, NEW s \in Syncs, SyncFail(s)
    PROVE  Inv'
  <1>1. /\ sync' = [sync EXCEPT ![s] = IdleSync]
        /\ UNCHANGED <<driveVars, store, tuples, run, ghosts>>
        /\ faults' \in 0..MaxFaults
    BY SyncAssumption DEF SyncFail, Inv, Typed
  <1>2. IdleSync \in SyncRecords /\ IdleSync.step = "idle" /\ DOMAIN IdleSync.kept = {}
    BY RecordTypes DEF IdleSync
  <1> QED
    BY <1>1, <1>2, SyncOnly

LEMMA SyncCommitInv ==
    ASSUME Inv, NEW s \in Syncs, SyncCommit(s)
    PROVE  Inv'
  <1> DEFINE seen == sync[s].seen
             listed == seen.active \cap Documents
  <1>1. /\ UNCHANGED <<drive, edits, tuples, run, since, granted, faults>>
        /\ sync[s].step = "listed" /\ DOMAIN sync[s].kept = listed
        /\ known' = known \cup listed
        /\ sync' = [sync EXCEPT ![s] = IdleSync]
        /\ listing' =
              [active |-> (listing.active \cap Folders) \cup listed,
               parents |-> [i \in Items |-> IF i \in listed THEN seen.parents[i]
                                            ELSE listing.parents[i]],
               acl |-> [i \in Items |-> IF i \in listed THEN seen.acl[i]
                                        ELSE listing.acl[i]],
               failed |-> (seen.failed \cap listed) \cup (listing.failed \ listed)]
        /\ evidence' = [d \in Documents |->
              IF d \in listed THEN sync[s].kept[d]
              ELSE IF d \in listing.active THEN Unverified("other")
              ELSE evidence[d]]
    BY DEF SyncCommit, driveVars, ghosts
  <1>2. /\ sync \in [Syncs -> SyncRecords] /\ sync[s] \in SyncRecords
        /\ seen \in Listings /\ listing \in Listings /\ listed \subseteq Items
        /\ evidence \in [Documents -> Evidence]
    BY DEF Inv, Typed, RowsType, SyncRecords, Items
  <1>3. /\ sync'[s] = IdleSync /\ \A z \in Syncs \ {s} : sync'[z] = sync[z]
        /\ sync' \in [Syncs -> SyncRecords]
    BY <1>1, <1>2, RecordTypes
  <1>4. listing' \in Listings
    BY <1>1, <1>2 DEF Listings
  <1>5. \A d \in Documents : /\ evidence'[d] \in Evidence
                             /\ Within(since, tuples, evidence'[d].age)
    <2> SUFFICES ASSUME NEW d \in Documents
                 PROVE  evidence'[d] \in Evidence /\ Within(since, tuples, evidence'[d].age)
      OBVIOUS
    <2>1. CASE d \in listed
      BY <1>1, <1>2, <2>1 DEF SyncRecords, Kept, Inv, KeptRecent
    <2>2. CASE d \notin listed /\ d \in listing.active
      <3>1. Unverified("other") \in Evidence /\ Unverified("other").age = Never
        BY RecordTypes DEF Unverified
      <3>2. Within(since, tuples, Never)
        BY SyncAssumption DEF Within, Never
      <3>3. evidence'[d] = Unverified("other")
        BY <1>1, <2>2
      <3> QED
        BY <3>1, <3>2, <3>3
    <2>3. CASE d \notin listed /\ d \notin listing.active
      BY <1>1, <1>2, <2>3 DEF Inv, EvidenceRecent
    <2> QED
      BY <2>1, <2>2, <2>3
  <1>6. Typed'
    <2>1. RowsType'
      BY <1>1, <1>4, <1>5 DEF Inv, Typed, RowsType
    <2> QED
      BY <1>1, <1>3, <2>1 DEF Inv, Typed, DriveType, GhostType
  <1>7. ASSUME NEW r \in Runs, run[r].step = "persisted"
        PROVE  RecentBy(since, listing', run[r].age + SyncLimit)
    <2>1. RecentBy(since, listing, run[r].age + SyncLimit)
      BY <1>7 DEF Inv, RunsRecent, RunRecent
    <2>2. RecentBy(since, seen, run[r].age + SyncLimit)
      <3>1. RecentBy(since, seen, sync[s].age)
        BY <1>1 DEF Inv, SyncsRecent
      <3>2. sync[s].age \in 0..SyncLimit /\ run[r].age \in Nat
        BY DEF Inv, Typed, SyncRecords, RunRecords
      <3>3. \A t \in Tuples : since[t] <= sync[s].age => since[t] <= run[r].age + SyncLimit
        BY <3>2, BoundIsNat, SyncAssumption DEF Inv, Typed, GhostType
      <3> QED
        BY <1>2, <3>1, <3>3, RecentLater
    <2>3. \A i \in listing'.active :
             \/ /\ i \in seen.active
                /\ listing'.parents[i] = seen.parents[i] /\ listing'.acl[i] = seen.acl[i]
             \/ /\ i \in listing.active
                /\ listing'.parents[i] = listing.parents[i]
                /\ listing'.acl[i] = listing.acl[i]
      BY <1>1, <1>2 DEF Items
    <2> QED
      BY <2>1, <2>2, <2>3 DEF RecentBy
  <1>8. RunsRecent'
    BY <1>1, <1>7 DEF Inv, RunsRecent, RunRecent
  <1>9. SyncsRecent' /\ KeptRecent'
    BY <1>1, <1>3 DEF Inv, SyncsRecent, KeptRecent, IdleSync
  <1>10. EvidenceRecent'
    BY <1>1, <1>5 DEF EvidenceRecent
  <1>11. StatedIsNow' /\ OneRun'
    BY <1>1 DEF Inv, StatedIsNow, OneRun
  <1> QED
    BY <1>6, <1>8, <1>9, <1>10, <1>11 DEF Inv

LEMMA NextInv == Inv /\ [Next]_vars => Inv'
  <1> SUFFICES ASSUME Inv, [Next]_vars PROVE Inv'
    OBVIOUS
  <1>1. CASE DriveChanges
    BY <1>1, DriveChangesInv
  <1>2. CASE Tick
    BY <1>2, TickInv
  <1>3. ASSUME NEW r \in Runs, RunStep(r) \/ Fail(r)
        PROVE  Inv'
    BY <1>3, ListInv, PersistInv, PlanInv, ReadTuplesInv, WriteBatchInv, VerifyInv,
       CommitInv, StopInv DEF RunStep
  <1>4. ASSUME NEW s \in Syncs, SyncList(s) \/ SyncStep(s) \/ SyncFail(s)
        PROVE  Inv'
    BY <1>4, SyncListInv, SyncReadInv, SyncCommitInv, SyncFailInv DEF SyncStep
  <1>5. CASE UNCHANGED vars
    BY <1>5 DEF vars, Inv, Typed, DriveType, RowsType, GhostType, StatedIsNow, OneRun,
       RunsRecent, RunRecent, SyncsRecent, EvidenceRecent, KeptRecent
  <1> QED
    BY <1>1, <1>2, <1>3, <1>4, <1>5 DEF Next

LEMMA Invariance == Spec => []Inv
  BY InitInv, NextInv, PTL DEF Spec

-----------------------------------------------------------------------------
(* The theorems.                                                           *)

\* Rows, relationships, runs and syncs hold what their types say.
THEOREM TypeCorrect == Spec => []TypeOK
  <1>1. Inv => TypeOK
    <2> SUFFICES ASSUME Inv PROVE TypeOK
      OBVIOUS
    <2>1. ASSUME NEW s \in Syncs
          PROVE  /\ sync[s].step \in {"idle", "listed"}
                 /\ sync[s].age \in 0..SyncLimit /\ sync[s].seen \in Listings
                 /\ \A d \in DOMAIN sync[s].kept : sync[s].kept[d] \in Evidence
      BY DEF Inv, Typed, SyncRecords, Kept
    <2> QED
      BY <2>1 DEF Inv, Typed, TypeOK, DriveType, RowsType, GhostType, RunRecords
  <1> QED
    BY <1>1, Invariance, PTL

\* The hard revocation bound of allowed_source_document_ids: whoever is allowed
\* a document is allowed it over tuples stated within the age of evidence and
\* the time of one run and one sync, for any limits and any batches.
THEOREM RevocationBound == Spec => []AllowedOverRecentTuples
  <1>1. Inv => AllowedOverRecentTuples
    <2> SUFFICES ASSUME Inv, NEW u \in Users, NEW d \in Documents, Allowed(u, d)
                 PROVE  Views({t \in tuples : since[t] <= Bound}, u, d)
      BY DEF AllowedOverRecentTuples
    <2>1. evidence[d].age \in Nat /\ evidence[d].age <= MaxAge
      BY BoundIsNat DEF Allowed, PermissionVerified, Inv, Typed, RowsType, Evidence
    <2>2. \A t \in tuples : since[t] \in Nat
      BY BoundIsNat DEF Inv, Typed, RowsType, GhostType
    <2>3. \A t \in tuples : since[t] <= RunLimit + SyncLimit + evidence[d].age
      BY <2>1 DEF Inv, EvidenceRecent, Within
    <2>4. \A t \in tuples : since[t] <= Bound
      BY <2>1, <2>2, <2>3, SyncAssumption DEF Bound
    <2>5. {t \in tuples : since[t] <= Bound} = tuples
      BY <2>4
    <2> QED
      BY <2>5 DEF Allowed
  <1> QED
    BY <1>1, Invariance, PTL

=============================================================================
