---------------------------- MODULE UserVisibility ----------------------------
(***************************************************************************)
(* The per-user visibility protocol: how one Google user's connected Drive *)
(* account is turned into evidence rows in PostgreSQL and oauth_viewer      *)
(* tuples in SpiceDB, and how connecting, disconnecting, sweeping and the   *)
(* authority cutover race with the Celery workers doing it.                 *)
(*                                                                         *)
(* Every action is one database transaction, one SpiceDB request or one     *)
(* remote exchange; the state a process read earlier and still holds is     *)
(* kept in the per-process variables.  Nothing here relies on the cache     *)
(* lock that serialises deliveries: it has a time to live, so a slow worker *)
(* outlives it, and any worker may pick up any unfinished run.              *)
(*                                                                         *)
(* Abstractions: a uuid4 generation or marker is the next natural number;   *)
(* the DENIED and UNKNOWN row states are one state, "withheld", and the     *)
(* SUCCEEDED and PARTIAL run states one state, "done"; the age of a row is  *)
(* the flag fresh, which the passage of time clears.                        *)
(***************************************************************************)
EXTENDS Naturals, FiniteSets

CONSTANTS
    Docs,          \* indexed source documents of the connection
    Workers,       \* Celery worker slots executing run_user_visibility_sync
    Runs,          \* UserVisibilitySyncRun rows that may be created
    Web,           \* the web process that serves a disconnect request
    NoRun,         \* no run: what an idle process works on
    MaxDocuments,  \* GOOGLE_USER_VISIBILITY_MAX_DOCUMENTS
    MaxConnGen,    \* bound on connection generations
    MaxAuthGen,    \* bound on authorization generations
    MaxMarker      \* bound on visibility sync markers

ASSUME ConstantsAssumption ==
    /\ Web \notin Workers
    /\ NoRun \notin Runs
    /\ MaxDocuments \in Nat
    /\ MaxConnGen \in Nat /\ MaxAuthGen \in Nat /\ MaxMarker \in Nat

VARIABLES
    connection,     \* the DriveConnection row: enabled, authority, generation
    authorization,  \* the user's GoogleDriveAuthorization row
    active,         \* documents with active_in_scope
    versioned,      \* documents with a non-empty source_permissions_version
    eligible,       \* documents whose coarse content gate is open
    evidence,       \* the UserDocumentVisibility row of each document
    tuples,         \* documents with an oauth_viewer tuple for this user
    run,            \* the UserVisibilitySyncRun rows
    sweeping,       \* runs failed by the sweeper, evidence not yet expired
    lastMarker,     \* the last visibility_sync_marker issued
    pc,             \* where each process is in its handler
    job,            \* the run a worker executes
    heldGen,        \* connection generation a process read and still holds
    marker,         \* the marker of a worker's preinvalidation
    candidates,     \* the documents a worker preinvalidated
    seen,           \* the documents whose tuples a process wants to exist
    touches,        \* tuples a process has still to touch
    deletes,        \* tuples a process has still to delete
    cutover,        \* the switch_permission_authority command
    answers,        \* ghost: visible answers obtained since the last fence
    trusted         \* ghost: rows resting on an answer since the last fence

rowVars     == <<connection, authorization>>
docVars     == <<active, versioned, eligible>>
runVars     == <<run, sweeping>>
memoryVars  == <<job, heldGen, marker, candidates, seen>>
writeVars   == <<touches, deletes>>
ghostVars   == <<answers, trusted>>
vars == <<rowVars, docVars, evidence, tuples, runVars, lastMarker, pc,
          memoryVars, writeVars, cutover, ghostVars>>

Procs == Workers \cup {Web}

PerUser   == "per_user_oauth"
Delegated == "delegated_acl"

WorkerSteps == {"idle", "claimed", "invalidated", "asking", "answered",
                "writing", "verified", "markedFailed"}
CutoverSteps == {"idle", "denied", "deleting", "verifying", "activating"}

EvidenceRows == [state : {"absent", "withheld", "visible"}, connGen : Nat,
                 authGen : Nat, marker : Nat, fresh : BOOLEAN]
RunRows == [status : {"unused", "queued", "running", "failed", "done"},
            connGen : Nat, authGen : Nat]

NoRow == [state |-> "absent", connGen |-> 0, authGen |-> 0, marker |-> 0,
          fresh |-> FALSE]

TypeOK ==
    /\ connection \in [enabled : BOOLEAN, authority : {PerUser, Delegated},
                       gen : Nat]
    /\ authorization \in [status : {"active", "disconnected"}, connGen : Nat,
                          authGen : Nat]
    /\ active \in SUBSET Docs /\ versioned \in SUBSET Docs
    /\ eligible \in SUBSET Docs
    /\ evidence \in [Docs -> EvidenceRows]
    /\ tuples \in SUBSET Docs
    /\ run \in [Runs -> RunRows] /\ sweeping \in SUBSET Runs
    /\ lastMarker \in Nat
    /\ pc \in [Procs -> WorkerSteps]
    /\ job \in [Procs -> Runs \cup {NoRun}]
    /\ \A w \in Workers : pc[w] # "idle" => job[w] \in Runs
    /\ heldGen \in [Procs -> Nat]
    /\ marker \in [Procs -> Nat]
    /\ candidates \in [Procs -> SUBSET Docs]
    /\ seen \in [Procs -> SUBSET Docs]
    /\ touches \in [Procs -> SUBSET Docs]
    /\ deletes \in [Procs -> SUBSET Docs]
    /\ cutover \in [step : CutoverSteps, target : {PerUser, Delegated},
                    gen : Nat, deletes : SUBSET Docs]
    /\ answers \in [Procs -> SUBSET Docs]
    /\ trusted \in SUBSET Docs

-----------------------------------------------------------------------------
(* What the database rows promise.                                         *)

\* Mutant: the denied connection is still served during a cutover.
ServesUsersWhileDenied == connection.authority = PerUser

\* The connection serves per-user mode (its selected root never is empty).
ServesUsers == connection.enabled /\ connection.authority = PerUser

\* The authorization may be used: the checks of _user_authorization_ready,
\* _load_authorization, queue_user_visibility_sync and _current_authorization.
\* Scopes and credential are present exactly while the row is active.
AuthorizationReady ==
    /\ ServesUsers
    /\ authorization.status = "active"
    /\ authorization.connGen = connection.gen

\* A row is live evidence: what only a commit writes.
Positive(d) == evidence[d].state = "visible"

FreshDocuments ==
    {d \in active \cap versioned \cap eligible :
        /\ Positive(d)
        /\ evidence[d].fresh
        /\ evidence[d].connGen = connection.gen
        /\ evidence[d].authGen = authorization.authGen}

\* The documents the user may be answered from: tuples narrowed by evidence.
Allowed == IF AuthorizationReady THEN tuples \cap FreshDocuments ELSE {}

\* Every row of the authorization set back to unknown; the markers stay.
Withheld == [d \in Docs |->
    IF evidence[d].state = "absent" THEN evidence[d]
    ELSE [evidence[d] EXCEPT !.state = "withheld", !.fresh = FALSE]]

NoEvidence == [d \in Docs |-> NoRow]

\* An event after which earlier Google answers about S may no longer count.
Fence(S) ==
    /\ answers' = [p \in Procs |-> answers[p] \ S]
    /\ trusted' = trusted \ S

-----------------------------------------------------------------------------
Init ==
    /\ connection = [enabled |-> TRUE, authority |-> PerUser, gen |-> 1]
    /\ authorization = [status |-> "disconnected", connGen |-> 0, authGen |-> 0]
    /\ active \in SUBSET Docs
    /\ versioned = active
    /\ eligible \in SUBSET active
    /\ evidence = NoEvidence
    /\ tuples = {}
    /\ run = [r \in Runs |-> [status |-> "unused", connGen |-> 0, authGen |-> 0]]
    /\ sweeping = {}
    /\ lastMarker = 0
    /\ pc = [p \in Procs |-> "idle"]
    /\ job = [p \in Procs |-> NoRun]
    /\ heldGen = [p \in Procs |-> 0]
    /\ marker = [p \in Procs |-> 0]
    /\ candidates = [p \in Procs |-> {}]
    /\ seen = [p \in Procs |-> {}]
    /\ touches = [p \in Procs |-> {}]
    /\ deletes = [p \in Procs |-> {}]
    /\ cutover = [step |-> "idle", target |-> PerUser, gen |-> 0, deletes |-> {}]
    /\ answers = [p \in Procs |-> {}]
    /\ trusted = {}

-----------------------------------------------------------------------------
(* Steps every process shares.                                             *)

\* The handler returns, raises or dies: its local memory is gone.
Unwind(p, step, r) ==
    /\ pc' = [pc EXCEPT ![p] = step]
    /\ job' = [job EXCEPT ![p] = r]
    /\ heldGen' = [heldGen EXCEPT ![p] = 0]
    /\ marker' = [marker EXCEPT ![p] = 0]
    /\ candidates' = [candidates EXCEPT ![p] = {}]
    /\ seen' = [seen EXCEPT ![p] = {}]
    /\ touches' = [touches EXCEPT ![p] = {}]
    /\ deletes' = [deletes EXCEPT ![p] = {}]
    /\ answers' = [answers EXCEPT ![p] = {}]

Forget(p) == Unwind(p, "idle", NoRun)

Goto(p, step) == pc' = [pc EXCEPT ![p] = step]

SetStatus(r, status) == run' = [run EXCEPT ![r].status = status]

Unfinished(r) == run[r].status \in {"queued", "running"}

\* _mark_failed: a run that already ended keeps its status.
MarkFailed(r) == IF Unfinished(r) THEN SetStatus(r, "failed") ELSE UNCHANGED run

\* A failure the task does not retry: mark the run failed and re-raise.
Abort(w) ==
    /\ MarkFailed(job[w])
    /\ Forget(w)
    /\ UNCHANGED <<rowVars, docVars, tuples, sweeping, lastMarker, cutover>>

\* Mutant: the task forgets which run it has to requeue.
AbortRetryableLosingRun(w) ==
    /\ MarkFailed(job[w])
    /\ Unwind(w, "markedFailed", NoRun)
    /\ UNCHANGED <<rowVars, docVars, evidence, tuples, sweeping, lastMarker,
                   cutover, trusted>>

\* A failure the task may retry: the run is failed first, requeued later.
AbortRetryable(w) ==
    /\ MarkFailed(job[w])
    /\ Unwind(w, "markedFailed", job[w])
    /\ UNCHANGED <<rowVars, docVars, evidence, tuples, sweeping, lastMarker,
                   cutover, trusted>>

\* Only this process's place and its own memory move.
OutsideUnchanged ==
    UNCHANGED <<rowVars, docVars, evidence, sweeping, lastMarker, cutover>>

-----------------------------------------------------------------------------
(* A worker executing run_user_visibility_sync.                            *)

\* Start on a queued run, or on a running one whose message came again.
Claim(w, r) ==
    /\ pc[w] = "idle" /\ Unfinished(r)
    /\ SetStatus(r, "running")
    /\ Goto(w, "claimed")
    /\ job' = [job EXCEPT ![w] = r]
    /\ UNCHANGED <<tuples, heldGen, marker, candidates, seen, writeVars,
                   ghostVars>>
    /\ OutsideUnchanged

\* Mutant: a row that exists is re-marked but keeps its state until the commit.
RefreshedRowKeepingState(w, d) ==
    [evidence[d] EXCEPT !.state = IF @ = "absent" THEN "withheld" ELSE @,
                        !.marker = lastMarker + 1]

RefreshedRow(w, d) ==
    [state |-> "withheld", connGen |-> run[job[w]].connGen,
     authGen |-> run[job[w]].authGen, marker |-> lastMarker + 1,
     fresh |-> FALSE]

\* Deny before asking: every row withheld, each indexed document re-marked.
Preinvalidate(w) ==
    /\ pc[w] = "claimed" /\ lastMarker < MaxMarker
    /\ Cardinality(active) <= MaxDocuments
    /\ lastMarker' = lastMarker + 1
    /\ evidence' = [d \in Docs |->
           IF d \in active THEN RefreshedRow(w, d) ELSE Withheld[d]]
    /\ Fence(active)
    /\ marker' = [marker EXCEPT ![w] = lastMarker + 1]
    /\ candidates' = [candidates EXCEPT ![w] = active]
    /\ Goto(w, "invalidated")
    /\ UNCHANGED <<rowVars, docVars, tuples, runVars, job, heldGen, seen,
                   writeVars, cutover>>

\* Too many documents: the denial is kept, the run fails.
PreinvalidateOverCap(w) ==
    /\ pc[w] = "claimed" /\ Cardinality(active) > MaxDocuments
    /\ evidence' = Withheld
    /\ trusted' = trusted
    /\ Abort(w)

\* Mutant: the user may have reconnected since the run was created.
ScopeHoldsAcrossReconnect(r) ==
    /\ AuthorizationReady
    /\ connection.gen = run[r].connGen

\* The run still matches its connection and authorization.
ScopeHolds(r) ==
    /\ AuthorizationReady
    /\ connection.gen = run[r].connGen
    /\ authorization.authGen = run[r].authGen

\* Reload the run, validate it, load the authorization and its documents.
LoadScope(w) ==
    /\ pc[w] = "invalidated"
    /\ ScopeHolds(job[w]) /\ active = candidates[w]
    /\ heldGen' = [heldGen EXCEPT ![w] = connection.gen]
    /\ Goto(w, "asking")
    /\ UNCHANGED <<tuples, run, job, marker, candidates, seen, writeVars,
                   ghostVars>>
    /\ OutsideUnchanged

RejectScope(w) ==
    /\ pc[w] = "invalidated"
    /\ ~ (ScopeHolds(job[w]) /\ active = candidates[w])
    /\ Abort(w)
    /\ UNCHANGED <<evidence, trusted>>

\* Google answers for every candidate; S are the visible ones.
AnswerGoogle(w) ==
    /\ pc[w] = "asking"
    /\ \E S \in SUBSET candidates[w] :
          /\ seen' = [seen EXCEPT ![w] = S]
          /\ answers' = [answers EXCEPT ![w] = S]
    /\ Goto(w, "answered")
    /\ UNCHANGED <<tuples, run, job, heldGen, marker, candidates, writeVars,
                   trusted>>
    /\ OutsideUnchanged

-----------------------------------------------------------------------------
(* reconcile_oauth_viewer_relationships, by a worker or after a disconnect. *)

ConnectionHeld(p) == ServesUsers /\ connection.gen = heldGen[p]

\* An unchanged non-empty set is touched once, to obtain a revision.
Touch(current, desired) ==
    IF desired \subseteq current /\ desired # {}
    THEN {{d} : d \in desired}
    ELSE {desired \ current}

ReconcileRead(p) ==
    /\ pc[p] = "answered"
    /\ ConnectionHeld(p) /\ seen[p] \subseteq active
    /\ \E T \in Touch(tuples, seen[p]) : touches' = [touches EXCEPT ![p] = T]
    /\ deletes' = [deletes EXCEPT ![p] = tuples \ seen[p]]
    /\ Goto(p, "writing")
    /\ UNCHANGED <<tuples, run, memoryVars, ghostVars>>
    /\ OutsideUnchanged

ReconcileMismatch(w) ==
    /\ pc[w] = "answered" /\ ~ ConnectionHeld(w)
    /\ Abort(w)
    /\ UNCHANGED <<evidence, trusted>>

ReconcileScopeInvalid(w) ==
    /\ pc[w] = "answered"
    /\ ConnectionHeld(w) /\ ~ seen[w] \subseteq active
    /\ AbortRetryable(w)

\* Batches are written in order, touches before deletes; here one tuple each.
WriteTouch(p) ==
    /\ pc[p] = "writing"
    /\ \E d \in touches[p] :
          /\ tuples' = tuples \cup {d}
          /\ touches' = [touches EXCEPT ![p] = @ \ {d}]
    /\ UNCHANGED <<run, pc, memoryVars, deletes, ghostVars>>
    /\ OutsideUnchanged

WriteDelete(p) ==
    /\ pc[p] = "writing" /\ touches[p] = {}
    /\ \E d \in deletes[p] :
          /\ tuples' = tuples \ {d}
          /\ deletes' = [deletes EXCEPT ![p] = @ \ {d}]
    /\ UNCHANGED <<run, pc, memoryVars, touches, ghostVars>>
    /\ OutsideUnchanged

\* Read back at the revision of the last write: exactly the desired tuples.
Verify(w) ==
    /\ pc[w] = "writing" /\ touches[w] = {} /\ deletes[w] = {}
    /\ tuples = seen[w]
    /\ Goto(w, "verified")
    /\ UNCHANGED <<tuples, run, memoryVars, writeVars, ghostVars>>
    /\ OutsideUnchanged

VerifyMismatch(w) ==
    /\ pc[w] = "writing" /\ touches[w] = {} /\ deletes[w] = {}
    /\ tuples # seen[w]
    /\ AbortRetryable(w)

-----------------------------------------------------------------------------
(* The commit, and the ways a run ends without one.                        *)

\* Mutant: the commit updates the rows whatever marker they carry.
CandidatesHeldAnyMarker(w) ==
    \A d \in candidates[w] : d \in active /\ evidence[d].state # "absent"

\* Every candidate is still indexed and its row still carries this marker.
CandidatesHeld(w) ==
    \A d \in candidates[w] :
        /\ d \in active
        /\ evidence[d].state # "absent"
        /\ evidence[d].marker = marker[w]

CommitRow(w, d) ==
    [state |-> IF d \in seen[w] THEN "visible" ELSE "withheld",
     connGen |-> run[job[w]].connGen, authGen |-> run[job[w]].authGen,
     marker |-> marker[w], fresh |-> d \in seen[w]]

\* Neither the run's current status nor its sweep is looked at.
Commit(w) ==
    /\ pc[w] = "verified"
    /\ ScopeHolds(job[w]) /\ CandidatesHeld(w)
    /\ evidence' = [d \in Docs |->
           IF d \in candidates[w] THEN CommitRow(w, d) ELSE evidence[d]]
    /\ trusted' = (trusted \ candidates[w]) \cup answers[w]
    /\ SetStatus(job[w], "done")
    /\ Forget(w)
    /\ UNCHANGED <<rowVars, docVars, tuples, sweeping, lastMarker, cutover>>

RejectCommit(w) ==
    /\ pc[w] = "verified"
    /\ ~ (ScopeHolds(job[w]) /\ CandidatesHeld(w))
    /\ Abort(w)
    /\ UNCHANGED <<evidence, trusted>>

\* Google, SpiceDB or the database fails: a retryable or a final error.
WorkerFails(w) ==
    /\ pc[w] \notin {"idle", "markedFailed"}
    /\ AbortRetryable(w)

\* The task requeues its run whatever became of it, or has no retry left.
RetryRun(w) ==
    /\ pc[w] = "markedFailed"
    /\ \/ SetStatus(job[w], "queued")
       \/ UNCHANGED run
    /\ Forget(w)
    /\ UNCHANGED <<rowVars, docVars, evidence, tuples, sweeping, lastMarker,
                   cutover, trusted>>

\* The worker process is lost.
Crash(w) ==
    /\ pc[w] # "idle"
    /\ Forget(w)
    /\ UNCHANGED <<rowVars, docVars, evidence, tuples, runVars, lastMarker,
                   cutover, trusted>>

-----------------------------------------------------------------------------
(* The scheduler, the sweeper and the passage of time.                     *)

\* The view or the beat task creates a run unless one is unfinished.
CreateRun ==
    /\ AuthorizationReady
    /\ \A r \in Runs : ~ Unfinished(r)
    /\ \E r \in Runs :
          /\ run[r].status = "unused"
          /\ run' = [run EXCEPT ![r] =
                 [status |-> "queued", connGen |-> authorization.connGen,
                  authGen |-> authorization.authGen]]
    /\ UNCHANGED <<tuples, pc, memoryVars, writeVars, ghostVars>>
    /\ OutsideUnchanged

\* The beat task withholds the rows of an authorization that is not ready.
ScheduleWithholds ==
    /\ ServesUsers /\ ~ AuthorizationReady
    /\ evidence' = Withheld
    /\ UNCHANGED <<rowVars, docVars, tuples, runVars, lastMarker, pc,
                   memoryVars, writeVars, cutover, ghostVars>>

\* The sweeper fails a run found past its timeout; its worker may live on.
SweepRun(r) ==
    /\ run[r].status = "running"
    /\ SetStatus(r, "failed")
    /\ sweeping' = sweeping \cup {r}
    /\ UNCHANGED <<rowVars, docVars, evidence, tuples, lastMarker, pc,
                   memoryVars, writeVars, cutover, ghostVars>>

\* Its next statement expires the evidence, leaving the markers in place.
SweepWithholds(r) ==
    /\ r \in sweeping
    /\ sweeping' = sweeping \ {r}
    /\ evidence' = Withheld
    /\ UNCHANGED <<rowVars, docVars, tuples, run, lastMarker, pc, memoryVars,
                   writeVars, cutover, ghostVars>>

\* A row passes GOOGLE_USER_VISIBILITY_MAX_AGE_SECONDS.
EvidenceAges(d) ==
    /\ evidence[d].fresh
    /\ evidence' = [evidence EXCEPT ![d].fresh = FALSE]
    /\ UNCHANGED <<rowVars, docVars, tuples, runVars, lastMarker, pc,
                   memoryVars, writeVars, cutover, ghostVars>>

-----------------------------------------------------------------------------
(* The user connects and disconnects the Google account.                   *)

Connect ==
    /\ ServesUsers /\ authorization.authGen < MaxAuthGen
    /\ authorization' = [status |-> "active", connGen |-> connection.gen,
                         authGen |-> authorization.authGen + 1]
    /\ evidence' = NoEvidence
    /\ Fence(Docs)
    /\ UNCHANGED <<connection, docVars, tuples, runVars, lastMarker, pc,
                   memoryVars, writeVars, cutover>>

DisconnectedRow ==
    [authorization EXCEPT !.status = "disconnected", !.authGen = @ + 1]

\* Deny in PostgreSQL; the web process goes on to delete the user's tuples.
Disconnect ==
    /\ ServesUsers /\ authorization.authGen < MaxAuthGen
    /\ pc[Web] = "idle"
    /\ authorization' = DisconnectedRow
    /\ evidence' = NoEvidence
    /\ Fence(Docs)
    /\ Goto(Web, "answered")
    /\ heldGen' = [heldGen EXCEPT ![Web] = connection.gen]
    /\ UNCHANGED <<connection, docVars, tuples, runVars, lastMarker, job,
                   marker, candidates, seen, writeVars, cutover>>

\* The deletion is best effort: done, refused or failed, the request ends.
DisconnectEnds ==
    /\ pc[Web] # "idle"
    /\ Forget(Web)
    /\ UNCHANGED <<tuples, run, trusted>>
    /\ OutsideUnchanged

-----------------------------------------------------------------------------
(* switch_permission_authority, run by an operator.                        *)

\* One transaction denies the connection and everything derived from it.
CutoverDeny ==
    /\ cutover.step = "idle"
    /\ connection.gen < MaxConnGen /\ authorization.authGen < MaxAuthGen
    /\ connection' = [connection EXCEPT !.enabled = FALSE, !.gen = @ + 1]
    /\ versioned' = {} /\ eligible' = {}
    /\ authorization' = DisconnectedRow
    /\ evidence' = NoEvidence
    /\ Fence(Docs)
    /\ \E target \in {PerUser, Delegated} \ {connection.authority} :
          cutover' = [step |-> "denied", target |-> target,
                      gen |-> connection.gen + 1, deletes |-> {}]
    /\ UNCHANGED <<active, tuples, runVars, lastMarker, pc, memoryVars,
                   writeVars>>

CutoverStep(from, to) ==
    /\ cutover.step = from
    /\ cutover' = [cutover EXCEPT !.step = to]
    /\ UNCHANGED <<rowVars, docVars, evidence, runVars, lastMarker, pc,
                   memoryVars, writeVars, ghostVars>>

CutoverRead ==
    /\ cutover.step = "denied"
    /\ cutover' = [cutover EXCEPT !.step = "deleting", !.deletes = tuples]
    /\ UNCHANGED <<rowVars, docVars, evidence, tuples, runVars, lastMarker,
                   pc, memoryVars, writeVars, ghostVars>>

CutoverDelete ==
    /\ tuples' = tuples \ cutover.deletes
    /\ CutoverStep("deleting", "verifying")

CutoverVerify ==
    /\ tuples = {}
    /\ CutoverStep("verifying", "activating")
    /\ UNCHANGED tuples

CutoverActivate ==
    /\ cutover.step = "activating"
    /\ connection.gen = cutover.gen
    /\ connection' = [connection EXCEPT !.enabled = TRUE,
                                        !.authority = cutover.target]
    /\ cutover' = [step |-> "idle", target |-> PerUser, gen |-> 0, deletes |-> {}]
    /\ UNCHANGED <<authorization, docVars, evidence, tuples, runVars,
                   lastMarker, pc, memoryVars, writeVars, ghostVars>>

\* SpiceDB fails or is not empty: the connection is left disabled.
CutoverFails ==
    /\ cutover.step # "idle"
    /\ cutover' = [step |-> "idle", target |-> PerUser, gen |-> 0, deletes |-> {}]
    /\ UNCHANGED <<rowVars, docVars, evidence, tuples, runVars, lastMarker, pc,
                   memoryVars, writeVars, ghostVars>>

-----------------------------------------------------------------------------
(* Drive synchronisation and extraction, as far as the lookup sees them.    *)

\* A metadata sync found the documents S: it closes every content gate.
DriveSync ==
    /\ connection.authority = PerUser
    /\ \E S \in SUBSET Docs :
          /\ active' = S
          /\ versioned' = versioned \cup S
    /\ eligible' = {}
    /\ UNCHANGED <<rowVars, evidence, tuples, runVars, lastMarker, pc,
                   memoryVars, writeVars, cutover, ghostVars>>

\* An extraction of current content succeeded: the gate opens again.
ContentReady(d) ==
    /\ ServesUsers
    /\ d \in (active \cap versioned) \ eligible
    /\ eligible' = eligible \cup {d}
    /\ UNCHANGED <<rowVars, active, versioned, evidence, tuples, runVars,
                   lastMarker, pc, memoryVars, writeVars, cutover, ghostVars>>

-----------------------------------------------------------------------------
WorkerNext(w) ==
    \/ \E r \in Runs : Claim(w, r)
    \/ Preinvalidate(w) \/ PreinvalidateOverCap(w)
    \/ LoadScope(w) \/ RejectScope(w)
    \/ AnswerGoogle(w)
    \/ ReconcileMismatch(w) \/ ReconcileScopeInvalid(w)
    \/ Verify(w) \/ VerifyMismatch(w)
    \/ Commit(w) \/ RejectCommit(w)
    \/ WorkerFails(w) \/ RetryRun(w) \/ Crash(w)

ReconcileNext(p) == ReconcileRead(p) \/ WriteTouch(p) \/ WriteDelete(p)

CutoverNext ==
    \/ CutoverDeny \/ CutoverRead \/ CutoverDelete \/ CutoverVerify
    \/ CutoverActivate \/ CutoverFails

Next ==
    \/ \E w \in Workers : WorkerNext(w)
    \/ \E p \in Procs : ReconcileNext(p)
    \/ \E r \in Runs : SweepRun(r) \/ SweepWithholds(r)
    \/ CreateRun \/ ScheduleWithholds
    \/ Connect \/ Disconnect \/ DisconnectEnds
    \/ CutoverNext
    \/ DriveSync
    \/ \E d \in Docs : EvidenceAges(d) \/ ContentReady(d)

Spec == Init /\ [][Next]_vars

-----------------------------------------------------------------------------
(* Properties.                                                             *)

\* Steps at which a worker still counts on its own preinvalidation.
Refreshing(w) == pc[w] \in {"invalidated", "asking", "answered", "writing",
                            "verified"}

\* PostgreSQL never holds live evidence of an earlier generation: whatever
\* worker was in flight when the user reconnected or the authority was cut
\* over, a visible row belongs to the enabled connection and the active
\* authorization as they are now (_validate_scope, _disconnect_authorization_row,
\* complete_authorization, _deny_connection).
EvidenceIsCurrentGeneration ==
    \A d \in Docs : Positive(d) =>
        /\ connection.enabled /\ connection.authority = PerUser
        /\ authorization.status = "active"
        /\ authorization.connGen = connection.gen
        /\ evidence[d].connGen = connection.gen
        /\ evidence[d].authGen = authorization.authGen

\* A visible row rests on an answer Google gave after the last event that
\* voided earlier answers about the document: a connect, a disconnect, a
\* cutover, or another worker's preinvalidation of it.  A superseded worker
\* therefore cannot commit what it learned before (the marker match of
\* _commit_verified_results).
EvidenceRestsOnCurrentAnswer == \A d \in Docs : Positive(d) => d \in trusted

\* While a worker refreshes a document it has not lost to a later refresh, the
\* document is withheld: no answer, tuple write or failure in between opens it
\* (the denial of _preinvalidate lasts until the commit).
RefreshFailsClosed ==
    \A w \in Workers : Refreshing(w) =>
        \A d \in candidates[w] :
            evidence[d].marker = marker[w] => ~ Positive(d)

\* Once a cutover has activated the delegated authority no direct tuple of
\* the per-user authority is left or appears (switch_permission_authority
\* deletes the old relationships before it activates one authority).
NoDirectTupleUnderDelegated ==
    connection.enabled /\ connection.authority = Delegated => tuples = {}

=============================================================================
