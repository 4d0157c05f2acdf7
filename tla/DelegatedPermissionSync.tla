----------------------- MODULE DelegatedPermissionSync -----------------------
(***************************************************************************)
(* The permission sync of a delegated connection: a run lists the ACLs of   *)
(* the Drive scope, stores them, plans the complete relationship set from   *)
(* the stored rows and the groups, writes the difference to SpiceDB, reads  *)
(* it back and commits eligibility (authorization/sync.py).  Drive metadata *)
(* syncs rewrite the same document rows in between, in a transaction of     *)
(* their own (integrations/drive/sync.py), and a user is answered with what *)
(* SpiceDB's `view` and the evidence in the rows agree on                   *)
(* (authorization/lookup.py).                                               *)
(*                                                                         *)
(* Abstractions: an ACL is its own version (source_permissions_version is a *)
(* hash of it); a verified version is a set that holds it, empty for none;  *)
(* time passes in ticks, and an age counts them up to where the code and    *)
(* the properties treat all ages alike.  The run rows, their lock and the   *)
(* scheduler are reduced to: a run that may start, one at a time.           *)
(***************************************************************************)
EXTENDS DriveAccess

CONSTANTS
    Runs,         \* permission runs that could execute at a time
    Syncs,        \* drive metadata syncs in progress at a time
    Unsupported,  \* documents whose MIME type is not supported
    BatchSize,    \* SPICEDB_BATCH_SIZE
    MaxAge,       \* PERMISSION_VERIFICATION_MAX_AGE_SECONDS, in ticks
    RunLimit,     \* bound on the time a permission run takes
    SyncLimit,    \* bound on the time a drive sync takes
    MaxFaults     \* bound on failing runs and lost workers

ASSUME SyncAssumption ==
    /\ Unsupported \subseteq Documents
    /\ BatchSize \in Nat \ {0}
    /\ MaxAge \in Nat /\ RunLimit \in Nat /\ SyncLimit \in Nat /\ MaxFaults \in Nat

VARIABLES
    listing,     \* folders and documents as stored: scope, parents, ACLs
    known,       \* documents that have a SourceDocument row
    evidence,    \* per document: exclusion, eligibility and verification
    tuples,      \* the connection's relationships in SpiceDB
    run,         \* the permission runs
    sync,        \* the drive syncs
    since,       \* ghost: ticks since Google Workspace last stated a tuple
    granted,     \* ghost: <<user, document>> pairs Drive has ever let view
    faults       \* failures so far

driveVars == <<drive, edits>>
store == <<listing, known, evidence>>
vars == <<drive, edits, listing, known, evidence, tuples, run, sync, since, granted, faults>>
ghosts == <<since, granted>>

Bound == MaxAge + RunLimit + SyncLimit
Acls == SUBSET Permission
Never == MaxAge + 1

Unverified(reason) ==
    [exclusion |-> reason, eligible |-> FALSE, version |-> {}, age |-> Never]

Evidence ==
    [exclusion : {"none", "mime", "other"}, eligible : BOOLEAN,
     version : SUBSET Acls, age : 0..Never]

IdleRun ==
    [step |-> "idle", age |-> 0, seen |-> Nothing, desired |-> {},
     eligible |-> [d \in {} |-> {}], excluded |-> [d \in {} |-> "other"], touches |-> {}, deletes |-> {}]
IdleSync ==
    [step |-> "idle", age |-> 0, seen |-> Nothing, kept |-> [d \in {} |-> {}]]

EntitledPairs(dr) == {p \in Users \X Documents : Entitled(dr, p[1], p[2])}

\* Without drive syncs the rows of an earlier one are there.
Init ==
    /\ DriveInit
    /\ listing = Nothing
    /\ known = IF Syncs = {} THEN Documents ELSE {}
    /\ evidence = [d \in Documents |-> Unverified("none")]
    /\ tuples = {}
    /\ run = [r \in Runs |-> IdleRun]
    /\ sync = [s \in Syncs |-> IdleSync]
    /\ \E now \in {Stated(drive)} :
          since = [t \in Tuples |-> IF t \in now THEN 0 ELSE Bound + 1]
    /\ granted = EntitledPairs(drive)
    /\ faults = 0

-----------------------------------------------------------------------------
(* Google Workspace and time.                                              *)

DriveChanges ==
    /\ DriveNext
    /\ \E now \in {Stated(drive')} :
          since' = [t \in Tuples |-> IF t \in now THEN 0 ELSE since[t]]
    /\ granted' = granted \cup EntitledPairs(drive')
    /\ UNCHANGED <<listing, known, evidence, tuples, run, sync, faults>>

Older(age, top) == IF age < top THEN age + 1 ELSE top
Aged(e) == [e EXCEPT !.age = Older(@, Never)]

\* Executing runs and syncs end within their limits.
Tick ==
    /\ \A r \in Runs : run[r].step # "idle" => run[r].age < RunLimit
    /\ \A s \in Syncs : sync[s].step # "idle" => sync[s].age < SyncLimit
    /\ evidence' = [d \in Documents |-> Aged(evidence[d])]
    /\ \E now \in {Stated(drive)} :
          since' = [t \in Tuples |-> IF t \in now THEN 0 ELSE Older(since[t], Bound + 1)]
    /\ run' = [r \in Runs |-> IF run[r].step = "idle" THEN run[r]
                              ELSE [run[r] EXCEPT !.age = @ + 1]]
    /\ sync' = [s \in Syncs |->
           IF sync[s].step = "idle" THEN sync[s]
           ELSE [sync[s] EXCEPT
                    !.age = @ + 1,
                    !.kept = [d \in DOMAIN @ |-> Aged(@[d])]]]
    /\ UNCHANGED <<drive, edits, listing, known, tuples, granted, faults>>

-----------------------------------------------------------------------------
(* A permission run: run_permission_sync and synchronize_permissions.      *)

\* permission-sync:connection:<id> outlives any run that holds it.
LockIsFree(r) == \A other \in Runs \ {r} : run[other].step = "idle"

List(r) ==
    /\ run[r].step = "idle"
    /\ LockIsFree(r)
    /\ run' = [run EXCEPT ![r] = [@ EXCEPT !.step = "listed", !.seen =
                   ListPermissionResources(drive)]]
    /\ UNCHANGED <<driveVars, store, tuples, sync, ghosts, faults>>

\* One transaction; rows of listed documents are updated, never created, and
\* an item that was not listed leaves the scope.
PersistCompleteScan(r) ==
    LET seen == run[r].seen
        stored == seen.active \cap (Folders \cup known)
    IN  /\ run[r].step = "listed"
        /\ listing' =
              [active |-> stored,
               parents |-> [i \in Items |-> IF i \in stored THEN seen.parents[i]
                                            ELSE listing.parents[i]],
               acl |-> [i \in Items |-> IF i \in stored THEN seen.acl[i]
                                        ELSE listing.acl[i]],
               failed |-> (seen.failed \cap stored) \cup (listing.failed \ stored)]
        /\ evidence' = [d \in Documents |->
              IF d \in listing.active \ stored THEN Unverified("other")
              ELSE IF d \in seen.failed \cap stored
              THEN [evidence[d] EXCEPT !.exclusion = "other"]
              ELSE evidence[d]]
        /\ run' = [run EXCEPT ![r].step = "persisted", ![r].seen = Nothing]
        /\ UNCHANGED <<driveVars, known, tuples, sync, ghosts, faults>>

\* Only the MIME exclusion is sticky: a scan cannot judge content types.
StickyExclusions == {d \in Documents : evidence[d].exclusion = "mime"}

\* Folders and documents come back from the rows, whoever wrote them last,
\* and the Directory is asked for the groups only now.
Plan(r) ==
    LET referenced == ReferencedGroups(listing)
        resolved == GroupsResolve(drive, referenced)
        unresolved == IF resolved THEN {} ELSE referenced
        groups == IF resolved THEN GroupTuples(drive, referenced) ELSE {}
        eligible == EligibleDocuments(listing, unresolved, StickyExclusions)
    IN  /\ run[r].step = "persisted"
        /\ HierarchyIsAcyclic(listing)
        /\ run' = [run EXCEPT ![r] = [@ EXCEPT
              !.step = "planned",
              !.desired = DesiredState(listing, groups, unresolved, StickyExclusions),
              !.eligible = [d \in eligible |-> listing.acl[d]],
              !.excluded = [d \in ActiveDocuments(listing) \ eligible |->
                               IF d \in StickyExclusions THEN "mime" ELSE "other"]]]
        /\ UNCHANGED <<driveVars, store, tuples, sync, ghosts, faults>>

ReadTuples(r) ==
    /\ run[r].step = "planned"
    /\ run' = [run EXCEPT ![r].step = "writing",
                          ![r].touches = run[r].desired \ tuples,
                          ![r].deletes = tuples \ run[r].desired]
    /\ UNCHANGED <<driveVars, store, tuples, sync, ghosts, faults>>

\* Touches are sent before deletes, each sorted by resource type; the order
\* within a type is that of the hashed object ids, which is any order.
Place(r, t) ==
    (IF t \in run[r].touches THEN 0 ELSE 3)
        + (IF t[1] \in Documents THEN 0 ELSE IF t[1] \in Folders THEN 1 ELSE 2)

\* One WriteRelationships call.
WriteBatch(r) ==
    LET left == run[r].touches \cup run[r].deletes
    IN  /\ run[r].step = "writing" /\ left # {}
        /\ \E batch \in SUBSET left :
              /\ Cardinality(batch) = IF Cardinality(left) < BatchSize
                                      THEN Cardinality(left) ELSE BatchSize
              /\ \A sent \in batch, kept \in left \ batch : Place(r, sent) <= Place(r, kept)
              /\ tuples' = (tuples \cup (batch \cap run[r].touches))
                              \ (batch \cap run[r].deletes)
              /\ run' = [run EXCEPT ![r].touches = @ \ batch,
                                    ![r].deletes = @ \ batch]
        /\ UNCHANGED <<driveVars, store, sync, ghosts, faults>>

\* The read-back at the write's revision finds exactly the desired set.
Verify(r) ==
    /\ run[r].step = "writing"
    /\ run[r].touches = {} /\ run[r].deletes = {}
    /\ tuples = run[r].desired
    /\ run' = [run EXCEPT ![r].step = "verified"]
    /\ UNCHANGED <<driveVars, store, tuples, sync, ghosts, faults>>

\* A document whose ACL changed since the plan keeps its row as it is.
CommitVerifiedDocuments(r) ==
    LET eligible == run[r].eligible
        excluded == run[r].excluded
        current == {d \in DOMAIN eligible : d \in listing.active
                                              /\ listing.acl[d] = eligible[d]}
    IN  /\ run[r].step = "verified"
        /\ evidence' = [d \in Documents |->
              IF d \in current
              THEN [exclusion |-> "none", eligible |-> TRUE,
                    version |-> {eligible[d]}, age |-> 0]
              ELSE IF d \in DOMAIN excluded THEN Unverified(excluded[d])
              ELSE evidence[d]]
        /\ run' = [run EXCEPT ![r] = IdleRun]
        /\ UNCHANGED <<driveVars, listing, known, tuples, sync, ghosts, faults>>

\* The plan meets a cycle, or the read-back another set than the desired one. The
\* code checks for the second although no other run can write meanwhile.
Refuse(r) ==
    /\ \/ run[r].step = "persisted" /\ ~HierarchyIsAcyclic(listing)
       \/ /\ run[r].step = "writing" /\ run[r].touches = {} /\ run[r].deletes = {}
          /\ tuples # run[r].desired
    /\ run' = [run EXCEPT ![r] = IdleRun]
    /\ UNCHANGED <<driveVars, store, tuples, sync, ghosts, faults>>

\* Mutant: a lost worker's lock has no expiry.
FailKeepingLock(r) ==
    /\ run[r].step # "idle"
    /\ faults < MaxFaults /\ faults' = faults + 1
    /\ run' = [run EXCEPT ![r].step = "lost"]
    /\ UNCHANGED <<driveVars, store, tuples, sync, ghosts>>

\* Google or SpiceDB fails, or the worker is lost; what is done stays done.
Fail(r) ==
    /\ run[r].step # "idle"
    /\ faults < MaxFaults /\ faults' = faults + 1
    /\ run' = [run EXCEPT ![r] = IdleRun]
    /\ UNCHANGED <<driveVars, store, tuples, sync, ghosts>>

-----------------------------------------------------------------------------
(* A drive metadata sync of a delegated connection.                        *)

SyncList(s) ==
    /\ sync[s].step = "idle"
    /\ sync' = [sync EXCEPT ![s] = [@ EXCEPT !.step = "listed", !.seen =
                    ListPermissionResources(drive)]]
    /\ UNCHANGED <<driveVars, store, tuples, run, ghosts, faults>>

\* Unknown roles, part of Refused, are no reason here; no row is verified at
\* such an ACL, so it makes no difference.
ExclusionReason(seen, d) ==
    IF d \in seen.failed \/ \E p \in seen.acl[d] : p.who = Refused THEN "other"
    ELSE IF d \in Unsupported THEN "mime" ELSE "none"

\* is_permission_verified and permission_verified of a document row.
PermissionVerified(d, version) ==
    /\ d \in listing.active
    /\ evidence[d].eligible
    /\ evidence[d].age <= MaxAge
    /\ listing.acl[d] = version
    /\ version \in evidence[d].version

\* Mutant: preserved evidence is stamped anew.
PreservedAnew(s, d) ==
    LET seen == sync[s].seen
    IN  IF /\ d \in known
           /\ ExclusionReason(seen, d) = "none"
           /\ PermissionVerified(d, seen.acl[d])
        THEN [evidence[d] EXCEPT !.exclusion = "none", !.age = 0]
        ELSE Unverified(ExclusionReason(seen, d))

\* The evidence a sync will store: what it read of the row, if that verifies
\* the ACL just listed.
Preserved(s, d) ==
    LET seen == sync[s].seen
    IN  IF /\ d \in known
           /\ ExclusionReason(seen, d) = "none"
           /\ PermissionVerified(d, seen.acl[d])
        THEN [evidence[d] EXCEPT !.exclusion = "none"]
        ELSE Unverified(ExclusionReason(seen, d))

\* The row is read without a lock.
SyncRead(s, d) ==
    /\ sync[s].step = "listed"
    /\ d \in sync[s].seen.active \ DOMAIN sync[s].kept
    /\ sync' = [sync EXCEPT ![s].kept =
           [x \in (DOMAIN @) \cup {d} |-> IF x = d THEN Preserved(s, d) ELSE @[x]]]
    /\ UNCHANGED <<driveVars, store, tuples, run, ghosts, faults>>

\* The transaction commits every listed row and retires the others.
SyncCommit(s) ==
    LET seen == sync[s].seen
        listed == seen.active \cap Documents
    IN  /\ sync[s].step = "listed"
        /\ DOMAIN sync[s].kept = listed
        /\ known' = known \cup listed
        /\ listing' =
              [active |-> (listing.active \cap Folders) \cup listed,
               parents |-> [i \in Items |-> IF i \in listed THEN seen.parents[i]
                                            ELSE listing.parents[i]],
               acl |-> [i \in Items |-> IF i \in listed THEN seen.acl[i]
                                        ELSE listing.acl[i]],
               failed |-> (seen.failed \cap listed) \cup (listing.failed \ listed)]
        /\ evidence' = [d \in Documents |->
              IF d \in listed THEN sync[s].kept[d]
              ELSE IF d \in listing.active THEN Unverified("other")
              ELSE evidence[d]]
        /\ sync' = [sync EXCEPT ![s] = IdleSync]
        /\ UNCHANGED <<driveVars, tuples, run, ghosts, faults>>

SyncFail(s) ==
    /\ sync[s].step # "idle"
    /\ faults < MaxFaults /\ faults' = faults + 1
    /\ sync' = [sync EXCEPT ![s] = IdleSync]
    /\ UNCHANGED <<driveVars, store, tuples, run, ghosts>>

-----------------------------------------------------------------------------

RunStep(r) ==
    \/ List(r) \/ PersistCompleteScan(r) \/ Plan(r) \/ ReadTuples(r)
    \/ WriteBatch(r) \/ Verify(r) \/ CommitVerifiedDocuments(r) \/ Refuse(r)

SyncStep(s) == SyncCommit(s) \/ \E d \in Documents : SyncRead(s, d)

Next ==
    \/ DriveChanges \/ Tick
    \/ \E r \in Runs : RunStep(r) \/ Fail(r)
    \/ \E s \in Syncs : SyncList(s) \/ SyncStep(s) \/ SyncFail(s)

Spec == Init /\ [][Next]_vars

\* Beat starts runs, workers carry them on; nobody has to start a drive sync.
FairSpec ==
    /\ Spec
    /\ \A r \in Runs : WF_vars(RunStep(r))
    /\ \A s \in Syncs : WF_vars(SyncStep(s))

-----------------------------------------------------------------------------
(* Properties.                                                             *)

TypeOK ==
    /\ drive \in Drives /\ edits \in 0..MaxEdits
    /\ listing \in Listings
    /\ known \subseteq Documents
    /\ evidence \in [Documents -> Evidence]
    /\ tuples \subseteq Tuples
    /\ \A r \in Runs :
          /\ run[r].step \in {"idle", "listed", "persisted", "planned", "writing", "verified"}
          /\ run[r].age \in 0..RunLimit
          /\ run[r].seen \in Listings
          /\ run[r].desired \subseteq Tuples
          /\ run[r].touches \subseteq Tuples /\ run[r].deletes \subseteq Tuples
    /\ \A s \in Syncs :
          /\ sync[s].step \in {"idle", "listed"}
          /\ sync[s].age \in 0..SyncLimit
          /\ sync[s].seen \in Listings
          /\ \A d \in DOMAIN sync[s].kept : sync[s].kept[d] \in Evidence
    /\ since \in [Tuples -> 0..(Bound + 1)]
    /\ granted \subseteq Users \X Documents
    /\ faults \in 0..MaxFaults

\* allowed_source_document_ids lets u have d.
Allowed(u, d) == PermissionVerified(d, listing.acl[d]) /\ Views(tuples, u, d)

\* The hard revocation bound: a user is only allowed a document over
\* relationships each of which Google Workspace stated within the maximum age
\* of evidence and the time a run and a sync may take.
AllowedOverRecentTuples ==
    \A u \in Users, d \in Documents :
        Allowed(u, d) => Views({t \in tuples : since[t] <= Bound}, u, d)

\* "Partial permission sync failure -> every document touched by the run
\* remains retrieval-ineligible": half-written relationships let nobody view
\* a document that Drive never let them view.
OnlyGrantedIsAllowed ==
    \A u \in Users, d \in Documents : Allowed(u, d) => <<u, d>> \in granted

Servable(u, d) ==
    /\ d \in known \ Unsupported /\ Entitled(drive, u, d)
    /\ HierarchyIsAcyclic(Listed)
    /\ d \in Outcome({}).eligible

\* Whatever runs and syncs overtake each other, a user whom Drive goes on
\* letting view a stored document is allowed it again and again.
EntitledUserIsServed ==
    \A u \in Users, d \in Documents : []<>(Allowed(u, d) \/ ~Servable(u, d))

=============================================================================
