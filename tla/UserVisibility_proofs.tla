------------------------- MODULE UserVisibility_proofs -------------------------
(* Machine-checked proofs about UserVisibility, for any documents, workers,  *)
(* runs and bounds.                                                         *)
EXTENDS UserVisibility, TLAPS

-----------------------------------------------------------------------------
(* Type correctness.                                                       *)

\* A failed, requeued or crashed process is left in a well-typed state.
LEMMA UnwindType ==
    ASSUME TypeOK, NEW p \in Procs, NEW step \in WorkerSteps,
           NEW r \in Runs \cup {NoRun}, r = NoRun => step = "idle",
           Unwind(p, step, r)
    PROVE  /\ pc' \in [Procs -> WorkerSteps]
           /\ job' \in [Procs -> Runs \cup {NoRun}]
           /\ \A w \in Workers : pc'[w] # "idle" => job'[w] \in Runs
           /\ heldGen' \in [Procs -> Nat]
           /\ marker' \in [Procs -> Nat]
           /\ candidates' \in [Procs -> SUBSET Docs]
           /\ seen' \in [Procs -> SUBSET Docs]
           /\ touches' \in [Procs -> SUBSET Docs]
           /\ deletes' \in [Procs -> SUBSET Docs]
           /\ answers' \in [Procs -> SUBSET Docs]
  BY ConstantsAssumption DEF TypeOK, Unwind, Procs

\* Withholding every row keeps the rows well typed.
LEMMA WithheldType ==
    ASSUME TypeOK
    PROVE  Withheld \in [Docs -> EvidenceRows]
  <1> SUFFICES ASSUME NEW d \in Docs
               PROVE  (IF evidence[d].state = "absent" THEN evidence[d]
                       ELSE [evidence[d] EXCEPT !.state = "withheld",
                                                !.fresh = FALSE]) \in EvidenceRows
    BY DEF Withheld
  <1>1. evidence[d] \in EvidenceRows
    BY DEF TypeOK
  <1> QED
    BY <1>1 DEF EvidenceRows

LEMMA NoEvidenceType == NoEvidence \in [Docs -> EvidenceRows]
  BY DEF NoEvidence, NoRow, EvidenceRows

LEMMA SetStatusType ==
    ASSUME TypeOK, NEW r \in Runs,
           NEW status \in {"unused", "queued", "running", "failed", "done"},
           SetStatus(r, status)
    PROVE  run' \in [Runs -> RunRows]
  BY DEF TypeOK, SetStatus, RunRows

LEMMA MarkFailedType ==
    ASSUME TypeOK, NEW r \in Runs, MarkFailed(r)
    PROVE  run' \in [Runs -> RunRows]
  BY SetStatusType DEF TypeOK, MarkFailed

\* Aborting a run keeps the types, whatever rows the abort leaves behind.
LEMMA AbortType ==
    ASSUME TypeOK, NEW w \in Workers, job[w] \in Runs, Abort(w),
           evidence' \in [Docs -> EvidenceRows], trusted' \in SUBSET Docs
    PROVE  TypeOK'
  <1>1. run' \in [Runs -> RunRows]
    BY MarkFailedType DEF Abort
  <1>2. w \in Procs /\ Unwind(w, "idle", NoRun)
    BY DEF Abort, Forget, Procs
  <1> QED
    BY <1>1, <1>2, UnwindType DEF TypeOK, Abort, rowVars, docVars, WorkerSteps

LEMMA AbortRetryableType ==
    ASSUME TypeOK, NEW w \in Workers, job[w] \in Runs, AbortRetryable(w)
    PROVE  TypeOK'
  <1>1. run' \in [Runs -> RunRows]
    BY MarkFailedType DEF AbortRetryable
  <1>2. w \in Procs /\ Unwind(w, "markedFailed", job[w])
    BY DEF AbortRetryable, Procs
  <1>3. job[w] # NoRun
    BY ConstantsAssumption
  <1> QED
    BY <1>1, <1>2, <1>3, UnwindType
    DEF TypeOK, AbortRetryable, rowVars, docVars, WorkerSteps

\* A busy worker has a run.
LEMMA BusyWorkerHasRun ==
    ASSUME TypeOK, NEW w \in Workers, pc[w] # "idle"
    PROVE  job[w] \in Runs
  BY DEF TypeOK

\* The steps of the worker's handler keep the types.
LEMMA WorkerType ==
    ASSUME TypeOK, NEW w \in Workers, WorkerNext(w)
    PROVE  TypeOK'
  <1> USE DEF rowVars, docVars, runVars, memoryVars, writeVars, ghostVars,
              Goto, OutsideUnchanged
  <1>0. w \in Procs
    BY DEF Procs
  <1>1. ASSUME NEW r \in Runs, Claim(w, r) PROVE TypeOK'
    <2>1. run' \in [Runs -> RunRows]
      BY <1>1, SetStatusType DEF Claim
    <2> QED
      BY <1>0, <1>1, <2>1 DEF TypeOK, Claim, WorkerSteps
  <1>2. CASE Preinvalidate(w)
    <2>1. job[w] \in Runs /\ run[job[w]] \in RunRows /\ lastMarker' \in Nat
      BY <1>2, BusyWorkerHasRun DEF Preinvalidate, TypeOK
    <2>2. \A d \in Docs : RefreshedRow(w, d) \in EvidenceRows
      BY <2>1, <1>2 DEF RefreshedRow, EvidenceRows, RunRows, Preinvalidate
    <2>3. evidence' \in [Docs -> EvidenceRows]
      BY <1>2, <2>2, WithheldType DEF Preinvalidate
    <2>4. answers' \in [Procs -> SUBSET Docs] /\ trusted' \in SUBSET Docs
      BY <1>2 DEF Preinvalidate, Fence, TypeOK
    <2>5. /\ pc' \in [Procs -> WorkerSteps] /\ job' = job
          /\ \A v \in Workers : pc'[v] # "idle" => job'[v] \in Runs
          /\ marker' \in [Procs -> Nat]
          /\ candidates' \in [Procs -> SUBSET Docs]
      BY <1>0, <1>2, <2>1 DEF Preinvalidate, TypeOK, WorkerSteps
    <2>6. UNCHANGED <<connection, authorization, active, versioned, eligible,
                      tuples, run, sweeping, heldGen, seen, touches, deletes,
                      cutover>>
      BY <1>2 DEF Preinvalidate
    <2> QED
      BY <2>1, <2>3, <2>4, <2>5, <2>6 DEF TypeOK
  <1>3. CASE PreinvalidateOverCap(w)
    BY <1>3, AbortType, BusyWorkerHasRun, WithheldType
    DEF PreinvalidateOverCap, TypeOK
  <1>4. CASE LoadScope(w)
    BY <1>0, <1>4 DEF TypeOK, LoadScope, WorkerSteps
  <1>5. CASE RejectScope(w)
    BY <1>5, AbortType, BusyWorkerHasRun DEF RejectScope, TypeOK
  <1>6. CASE AnswerGoogle(w)
    BY <1>0, <1>6 DEF TypeOK, AnswerGoogle, WorkerSteps
  <1>7. CASE ReconcileMismatch(w)
    BY <1>7, AbortType, BusyWorkerHasRun DEF ReconcileMismatch, TypeOK
  <1>8. CASE \/ ReconcileScopeInvalid(w) \/ VerifyMismatch(w) \/ WorkerFails(w)
    BY <1>8, AbortRetryableType, BusyWorkerHasRun
    DEF ReconcileScopeInvalid, VerifyMismatch, WorkerFails
  <1>9. CASE Verify(w)
    BY <1>0, <1>9 DEF TypeOK, Verify, WorkerSteps
  <1>10. CASE Commit(w)
    <2>1. job[w] \in Runs /\ run[job[w]] \in RunRows
      BY <1>10, BusyWorkerHasRun DEF Commit, TypeOK
    <2>2. \A d \in Docs : CommitRow(w, d) \in EvidenceRows
      BY <1>0, <2>1 DEF CommitRow, EvidenceRows, RunRows, TypeOK
    <2>3. evidence' \in [Docs -> EvidenceRows]
      BY <1>10, <2>2 DEF Commit, TypeOK
    <2>4. trusted' \in SUBSET Docs
      BY <1>0, <1>10 DEF Commit, TypeOK
    <2>5. run' \in [Runs -> RunRows]
      BY <1>10, <2>1, SetStatusType DEF Commit
    <2>6. Unwind(w, "idle", NoRun)
      BY <1>10 DEF Commit, Forget
    <2> QED
      BY <1>0, <1>10, <2>3, <2>4, <2>5, <2>6, UnwindType
      DEF TypeOK, Commit, WorkerSteps
  <1>11. CASE RejectCommit(w)
    BY <1>11, AbortType, BusyWorkerHasRun DEF RejectCommit, TypeOK
  <1>12. CASE RetryRun(w)
    <2>1. run' \in [Runs -> RunRows]
      BY <1>12, BusyWorkerHasRun, SetStatusType DEF RetryRun, TypeOK
    <2> QED
      BY <1>0, <1>12, <2>1, UnwindType DEF TypeOK, RetryRun, Forget, WorkerSteps
  <1>13. CASE Crash(w)
    BY <1>0, <1>13, UnwindType DEF TypeOK, Crash, Forget, WorkerSteps
  <1> QED
    BY <1>1, <1>2, <1>3, <1>4, <1>5, <1>6, <1>7, <1>8, <1>9, <1>10, <1>11,
       <1>12, <1>13 DEF WorkerNext

\* The reconciliation of tuples keeps the types.
LEMMA ReconcileType ==
    ASSUME TypeOK, NEW p \in Procs, ReconcileNext(p)
    PROVE  TypeOK'
  <1> USE DEF rowVars, docVars, runVars, memoryVars, writeVars, ghostVars,
              Goto, OutsideUnchanged
  <1>1. CASE ReconcileRead(p)
    <2>1. PICK T \in Touch(tuples, seen[p]) : touches' = [touches EXCEPT ![p] = T]
      BY <1>1 DEF ReconcileRead
    <2>2. T \in SUBSET Docs
      BY <2>1 DEF Touch, TypeOK
    <2>3. job[p] \in Runs \/ p \notin Workers
      BY <1>1 DEF ReconcileRead, TypeOK
    <2> QED
      BY <1>1, <2>1, <2>2, <2>3 DEF ReconcileRead, TypeOK, WorkerSteps
  <1>2. CASE WriteTouch(p)
    BY <1>2 DEF WriteTouch, TypeOK
  <1>3. CASE WriteDelete(p)
    BY <1>3 DEF WriteDelete, TypeOK
  <1> QED
    BY <1>1, <1>2, <1>3 DEF ReconcileNext

\* The scheduler, the sweeper and the passage of time keep the types.
LEMMA SchedulerType ==
    ASSUME TypeOK,
           \/ \E r \in Runs : SweepRun(r) \/ SweepWithholds(r)
           \/ CreateRun \/ ScheduleWithholds
           \/ \E d \in Docs : EvidenceAges(d)
    PROVE  TypeOK'
  <1> USE DEF rowVars, docVars, runVars, memoryVars, writeVars, ghostVars,
              OutsideUnchanged
  <1>1. ASSUME NEW r \in Runs, SweepRun(r) PROVE TypeOK'
    BY <1>1, SetStatusType DEF SweepRun, TypeOK
  <1>2. ASSUME NEW r \in Runs, SweepWithholds(r) PROVE TypeOK'
    BY <1>2, WithheldType DEF SweepWithholds, TypeOK
  <1>3. CASE CreateRun
    <2>1. run' \in [Runs -> RunRows]
      BY <1>3 DEF CreateRun, TypeOK, RunRows
    <2> QED
      BY <1>3, <2>1 DEF CreateRun, TypeOK
  <1>4. CASE ScheduleWithholds
    BY <1>4, WithheldType DEF ScheduleWithholds, TypeOK
  <1>5. ASSUME NEW d \in Docs, EvidenceAges(d) PROVE TypeOK'
    <2>1. evidence[d] \in EvidenceRows
      BY DEF TypeOK
    <2>2. [evidence[d] EXCEPT !.fresh = FALSE] \in EvidenceRows
      BY <2>1 DEF EvidenceRows
    <2>3. evidence' \in [Docs -> EvidenceRows]
      BY <1>5, <2>2 DEF EvidenceAges, TypeOK
    <2> QED
      BY <1>5, <2>3 DEF EvidenceAges, TypeOK
  <1> QED
    BY <1>1, <1>2, <1>3, <1>4, <1>5

\* Connecting, disconnecting, the cutover and Drive keep the types.
LEMMA ControlType ==
    ASSUME TypeOK,
           \/ Connect \/ Disconnect \/ DisconnectEnds \/ CutoverNext
           \/ DriveSync \/ \E d \in Docs : ContentReady(d)
    PROVE  TypeOK'
  <1> USE DEF rowVars, docVars, runVars, memoryVars, writeVars, ghostVars,
              OutsideUnchanged
  <1>0. /\ Web \in Procs /\ Web \notin Workers
        /\ connection.gen \in Nat /\ connection.gen + 1 \in Nat
        /\ authorization.authGen + 1 \in Nat
    BY ConstantsAssumption DEF Procs, TypeOK
  <1>1. CASE Connect
    BY <1>0, <1>1, NoEvidenceType DEF Connect, Fence, TypeOK
  <1>2. CASE Disconnect
    <2>1. authorization' \in [status : {"active", "disconnected"},
                              connGen : Nat, authGen : Nat]
      BY <1>0, <1>2 DEF Disconnect, DisconnectedRow, TypeOK
    <2>2. answers' \in [Procs -> SUBSET Docs] /\ trusted' \in SUBSET Docs
      BY <1>2 DEF Disconnect, Fence, TypeOK
    <2>3. /\ pc' \in [Procs -> WorkerSteps] /\ heldGen' \in [Procs -> Nat]
          /\ \A w \in Workers : pc'[w] = pc[w]
      BY <1>0, <1>2 DEF Disconnect, Goto, TypeOK, WorkerSteps
    <2> QED
      BY <1>2, <2>1, <2>2, <2>3, NoEvidenceType DEF Disconnect, TypeOK
  <1>3. CASE DisconnectEnds
    BY <1>0, <1>3, UnwindType DEF DisconnectEnds, Forget, TypeOK, WorkerSteps
  <1>4. CASE CutoverDeny
    <2>1. authorization' \in [status : {"active", "disconnected"},
                              connGen : Nat, authGen : Nat]
      BY <1>0, <1>4 DEF CutoverDeny, DisconnectedRow, TypeOK
    <2>2. answers' \in [Procs -> SUBSET Docs] /\ trusted' \in SUBSET Docs
      BY <1>4 DEF CutoverDeny, Fence, TypeOK
    <2>3. connection' \in [enabled : BOOLEAN, authority : {PerUser, Delegated},
                           gen : Nat]
      BY <1>0, <1>4 DEF CutoverDeny, TypeOK
    <2>4. cutover' \in [step : CutoverSteps, target : {PerUser, Delegated},
                        gen : Nat, deletes : SUBSET Docs]
      BY <1>0, <1>4 DEF CutoverDeny, CutoverSteps
    <2> QED
      BY <1>4, <2>1, <2>2, <2>3, <2>4, NoEvidenceType DEF CutoverDeny, TypeOK
  <1>5. CASE CutoverRead
    BY <1>5 DEF CutoverRead, TypeOK, CutoverSteps
  <1>6. CASE CutoverDelete \/ CutoverVerify
    BY <1>6 DEF CutoverDelete, CutoverVerify, CutoverStep, TypeOK, CutoverSteps
  <1>7. CASE CutoverActivate
    BY <1>7 DEF CutoverActivate, TypeOK, CutoverSteps
  <1>8. CASE CutoverFails
    BY <1>8 DEF CutoverFails, TypeOK, CutoverSteps
  <1>9. CASE DriveSync
    BY <1>9 DEF DriveSync, TypeOK
  <1>10. ASSUME NEW d \in Docs, ContentReady(d) PROVE TypeOK'
    BY <1>10 DEF ContentReady, TypeOK
  <1> QED
    BY <1>1, <1>2, <1>3, <1>4, <1>5, <1>6, <1>7, <1>8, <1>9, <1>10
    DEF CutoverNext

LEMMA InitType == Init => TypeOK
  BY ConstantsAssumption
  DEF Init, TypeOK, EvidenceRows, RunRows, NoEvidence, NoRow, WorkerSteps,
      CutoverSteps, Procs

LEMMA NextType == TypeOK /\ [Next]_vars => TypeOK'
  <1> SUFFICES ASSUME TypeOK, [Next]_vars PROVE TypeOK'
    OBVIOUS
  <1>1. CASE UNCHANGED vars
    BY <1>1 DEF TypeOK, vars, rowVars, docVars, runVars, memoryVars,
                writeVars, ghostVars
  <1>2. CASE Next
    BY <1>2, WorkerType, ReconcileType, SchedulerType, ControlType DEF Next
  <1> QED
    BY <1>1, <1>2

\* Every state of every behaviour is well typed; in particular a worker that
\* is not idle always knows which run it has to fail or requeue
\* (run_user_visibility_sync keeps run_id for its except branch).
THEOREM TypeCorrect == Spec => []TypeOK
  BY InitType, NextType, PTL DEF Spec

-----------------------------------------------------------------------------
(* The inductive invariant behind the safety theorems.                     *)

\* Steps at which a worker holds Google's answers.
Answering(w) == pc[w] \in {"answered", "writing", "verified"}

\* A marker is issued once: no row or worker is ahead of the last one, and
\* no two refreshes share one.
MarkersIssuedOnce ==
    /\ \A d \in Docs : evidence[d].marker <= lastMarker
    /\ \A w \in Workers : Refreshing(w) => marker[w] <= lastMarker
    /\ \A v, w \in Workers :
          v # w /\ Refreshing(v) /\ Refreshing(w) => marker[v] # marker[w]

\* While a document's row carries the worker's marker, nothing has voided the
\* answer the worker holds about it.
AnswersHold ==
    \A w \in Workers : Answering(w) =>
        /\ seen[w] \subseteq candidates[w]
        /\ \A d \in seen[w] :
              evidence[d].state # "absent" /\ evidence[d].marker = marker[w]
              => d \in answers[w]

\* A connection stays disabled from its denial to its activation.
CutoverDark == cutover.step # "idle" => ~ connection.enabled

SafetyInvariant ==
    /\ EvidenceIsCurrentGeneration
    /\ EvidenceRestsOnCurrentAnswer
    /\ RefreshFailsClosed

InductiveInvariant ==
    /\ TypeOK
    /\ SafetyInvariant
    /\ MarkersIssuedOnce
    /\ AnswersHold
    /\ CutoverDark

\* A worker keeps what it learned, or no longer refreshes.
KeepsOrDrops(w) ==
    \/ ~ Refreshing(w)'
    \/ /\ Refreshing(w)
       /\ Answering(w)' => Answering(w)
       /\ UNCHANGED <<marker[w], candidates[w], seen[w], answers[w]>>

\* No row is opened, re-marked or created.
RowsNotPromoted ==
    \A d \in Docs :
        /\ evidence'[d].marker = evidence[d].marker
        /\ evidence'[d].state # "absent" => evidence[d].state # "absent"
        /\ Positive(d)' => /\ Positive(d)
                           /\ evidence'[d].connGen = evidence[d].connGen
                           /\ evidence'[d].authGen = evidence[d].authGen

\* A step that opens no row and teaches no worker anything preserves the
\* invariant: most steps of the protocol are of this kind.
LEMMA QuietStep ==
    ASSUME InductiveInvariant, TypeOK', CutoverDark', RowsNotPromoted,
           UNCHANGED <<connection, authorization, lastMarker, trusted>>,
           \A w \in Workers : KeepsOrDrops(w)
    PROVE  InductiveInvariant'
  <1>1. EvidenceIsCurrentGeneration'
    BY DEF InductiveInvariant, SafetyInvariant, EvidenceIsCurrentGeneration,
           RowsNotPromoted
  <1>2. EvidenceRestsOnCurrentAnswer'
    BY DEF InductiveInvariant, SafetyInvariant, EvidenceRestsOnCurrentAnswer,
           RowsNotPromoted
  <1>3. RefreshFailsClosed'
    <2>1. \A w \in Workers : candidates[w] \in SUBSET Docs
      BY DEF InductiveInvariant, TypeOK, Procs
    <2> QED
      BY <2>1 DEF InductiveInvariant, SafetyInvariant, RefreshFailsClosed,
                  RowsNotPromoted, KeepsOrDrops
  <1>4. MarkersIssuedOnce'
    BY DEF InductiveInvariant, MarkersIssuedOnce, RowsNotPromoted, KeepsOrDrops
  <1>5. AnswersHold'
    <2> SUFFICES ASSUME NEW w \in Workers, Answering(w)'
                 PROVE  /\ seen'[w] \subseteq candidates'[w]
                        /\ \A d \in seen'[w] :
                              /\ evidence'[d].state # "absent"
                              /\ evidence'[d].marker = marker'[w]
                              => d \in answers'[w]
      BY DEF AnswersHold
    <2>1. Refreshing(w)' /\ KeepsOrDrops(w)
      BY DEF Answering, Refreshing
    <2>2. Answering(w) /\ UNCHANGED <<marker[w], candidates[w], seen[w], answers[w]>>
      BY <2>1 DEF KeepsOrDrops
    <2>3. seen[w] \in SUBSET Docs
      BY DEF InductiveInvariant, TypeOK, Procs
    <2> QED
      BY <2>2, <2>3 DEF InductiveInvariant, AnswersHold, RowsNotPromoted
  <1> QED
    BY <1>1, <1>2, <1>3, <1>4, <1>5 DEF InductiveInvariant, SafetyInvariant

\* Unchanged or withheld rows are not promoted.
LEMMA WithheldNotPromoted ==
    ASSUME TypeOK, evidence' = Withheld \/ UNCHANGED evidence
    PROVE  RowsNotPromoted
  <1>1. \A d \in Docs : evidence[d] \in EvidenceRows
    BY DEF TypeOK
  <1>2. CASE evidence' = Withheld
    <2> SUFFICES ASSUME NEW d \in Docs
                 PROVE  /\ evidence'[d].marker = evidence[d].marker
                        /\ evidence'[d].state # "absent"
                           => evidence[d].state # "absent"
                        /\ evidence'[d].state # "visible" \/ evidence'[d] = evidence[d]
      BY DEF RowsNotPromoted, Positive
    <2>1. evidence'[d] = IF evidence[d].state = "absent" THEN evidence[d]
                         ELSE [evidence[d] EXCEPT !.state = "withheld",
                                                  !.fresh = FALSE]
      BY <1>2 DEF Withheld
    <2>2. CASE evidence[d].state = "absent"
      BY <2>1, <2>2
    <2>3. CASE evidence[d].state # "absent"
      <3>1. evidence'[d] = [evidence[d] EXCEPT !.state = "withheld",
                                               !.fresh = FALSE]
        BY <2>1, <2>3
      <3>2. evidence'[d].marker = evidence[d].marker
        BY <1>1, <3>1 DEF EvidenceRows
      <3>3. evidence'[d].state = "withheld"
        BY <1>1, <3>1 DEF EvidenceRows
      <3> QED
        BY <2>3, <3>2, <3>3
    <2> QED
      BY <2>2, <2>3
  <1>3. CASE UNCHANGED evidence
    BY <1>3 DEF RowsNotPromoted, Positive
  <1> QED
    BY <1>2, <1>3

-----------------------------------------------------------------------------
(* The steps that do open, re-mark or void something.                      *)

\* The worker denies every candidate under a marker nobody else holds.
LEMMA PreinvalidateStep ==
    ASSUME InductiveInvariant, TypeOK', NEW v \in Workers, Preinvalidate(v)
    PROVE  InductiveInvariant'
  <1> USE DEF InductiveInvariant, SafetyInvariant
  <1>1. /\ v \in Procs /\ lastMarker \in Nat /\ lastMarker' = lastMarker + 1
        /\ active \subseteq Docs
    BY DEF Procs, TypeOK, Preinvalidate
  <1>2. \A d \in Docs :
           /\ d \in active => /\ evidence'[d].state = "withheld"
                              /\ evidence'[d].marker = lastMarker + 1
           /\ d \notin active => evidence'[d] = Withheld[d]
    BY DEF Preinvalidate, RefreshedRow
  <1>3. \A d \in Docs :
           /\ ~ Positive(d)'
           /\ d \notin active => /\ evidence'[d].marker = evidence[d].marker
                                 /\ evidence'[d].state # "absent"
                                    => evidence[d].state # "absent"
    <2> SUFFICES ASSUME NEW d \in Docs
                 PROVE  /\ evidence'[d].state # "visible"
                        /\ d \notin active
                           => /\ evidence'[d].marker = evidence[d].marker
                              /\ evidence'[d].state # "absent"
                                 => evidence[d].state # "absent"
      BY DEF Positive
    <2>1. CASE d \in active
      BY <1>2, <2>1
    <2>2. CASE d \notin active /\ evidence[d].state = "absent"
      BY <1>2, <2>2 DEF Withheld
    <2>3. CASE d \notin active /\ evidence[d].state # "absent"
      <3>1. evidence'[d] = [evidence[d] EXCEPT !.state = "withheld",
                                               !.fresh = FALSE]
        BY <1>2, <2>3 DEF Withheld
      <3>2. evidence[d] \in EvidenceRows
        BY DEF TypeOK
      <3>3. evidence'[d].marker = evidence[d].marker
        BY <3>1, <3>2 DEF EvidenceRows
      <3>4. evidence'[d].state = "withheld"
        BY <3>1, <3>2 DEF EvidenceRows
      <3> QED
        BY <2>3, <3>3, <3>4
    <2> QED
      BY <2>1, <2>2, <2>3
  <1>4. /\ \A w \in Workers : w # v =>
             /\ Refreshing(w)' <=> Refreshing(w)
             /\ Answering(w)' <=> Answering(w)
             /\ UNCHANGED <<marker[w], candidates[w], seen[w]>>
             /\ answers'[w] = answers[w] \ active
        /\ marker'[v] = lastMarker + 1 /\ ~ Answering(v)'
    BY <1>1 DEF Preinvalidate, Goto, Fence, Refreshing, Answering, TypeOK, Procs,
                memoryVars
  <1>5. EvidenceIsCurrentGeneration' /\ EvidenceRestsOnCurrentAnswer'
    BY <1>3 DEF EvidenceIsCurrentGeneration, EvidenceRestsOnCurrentAnswer
  <1>6. RefreshFailsClosed'
    <2>1. \A w \in Workers : candidates'[w] \subseteq Docs
      BY DEF TypeOK, Procs
    <2> QED
      BY <1>3, <2>1 DEF RefreshFailsClosed
  <1>7. MarkersIssuedOnce'
    <2>1. \A d \in Docs : evidence[d].marker \in Nat
      BY DEF TypeOK, EvidenceRows
    <2>2. \A w \in Workers : marker[w] \in Nat
      BY DEF TypeOK, Procs
    <2>3. \A d \in Docs : evidence'[d].marker <= lastMarker'
      BY <1>1, <1>2, <1>3, <2>1 DEF MarkersIssuedOnce
    <2>4. \A w \in Workers : Refreshing(w)' =>
             marker'[w] <= lastMarker' /\ (w # v => marker'[w] # marker'[v])
      BY <1>1, <1>4, <2>2 DEF MarkersIssuedOnce
    <2>5. \A u, w \in Workers :
             u # w /\ Refreshing(u)' /\ Refreshing(w)' => marker'[u] # marker'[w]
      BY <1>4, <2>4 DEF MarkersIssuedOnce
    <2> QED
      BY <2>3, <2>4, <2>5 DEF MarkersIssuedOnce
  <1>8. AnswersHold'
    <2> SUFFICES ASSUME NEW w \in Workers, Answering(w)'
                 PROVE  /\ seen'[w] \subseteq candidates'[w]
                        /\ \A d \in seen'[w] :
                              /\ evidence'[d].state # "absent"
                              /\ evidence'[d].marker = marker'[w]
                              => d \in answers'[w]
      BY DEF AnswersHold
    <2>1. w # v /\ Answering(w) /\ Refreshing(w)
      BY <1>4 DEF Answering, Refreshing
    <2>2. marker[w] \in Nat /\ marker[w] <= lastMarker /\ seen[w] \subseteq Docs
      BY <2>1 DEF MarkersIssuedOnce, TypeOK, Procs
    <2>3. seen'[w] \subseteq candidates'[w]
      BY <1>4, <2>1 DEF AnswersHold
    <2>4. ASSUME NEW d \in seen'[w], evidence'[d].state # "absent",
                 evidence'[d].marker = marker'[w]
          PROVE  d \in answers'[w]
      <3>1. d \in Docs /\ d \in seen[w] /\ evidence'[d].marker = marker[w]
        BY <1>4, <2>1, <2>2, <2>4
      <3>2. d \notin active
        BY <1>1, <1>2, <2>2, <3>1
      <3> QED
        BY <1>3, <1>4, <2>1, <2>4, <3>1, <3>2 DEF AnswersHold
    <2> QED
      BY <2>3, <2>4
  <1>9. CutoverDark'
    BY DEF CutoverDark, Preinvalidate, rowVars
  <1> QED
    BY <1>5, <1>6, <1>7, <1>8, <1>9

\* The answers a worker receives are as current as its preinvalidation.
LEMMA AnswerStep ==
    ASSUME InductiveInvariant, TypeOK', NEW v \in Workers, AnswerGoogle(v)
    PROVE  InductiveInvariant'
  <1> USE DEF InductiveInvariant, SafetyInvariant
  <1>1. v \in Procs /\ UNCHANGED <<connection, authorization, evidence, lastMarker,
                                   cutover, marker, candidates, trusted>>
    BY DEF Procs, AnswerGoogle, OutsideUnchanged, rowVars
  <1>2. PICK S \in SUBSET candidates[v] :
           /\ seen' = [seen EXCEPT ![v] = S]
           /\ answers' = [answers EXCEPT ![v] = S]
    BY DEF AnswerGoogle
  <1>3. /\ \A w \in Workers : w # v =>
             /\ Answering(w)' <=> Answering(w)
             /\ UNCHANGED <<seen[w], answers[w]>>
        /\ \A w \in Workers : Refreshing(w)' <=> Refreshing(w)
        /\ seen'[v] = S /\ answers'[v] = S
    BY <1>1, <1>2 DEF AnswerGoogle, Goto, Refreshing, Answering, TypeOK, Procs
  <1>4. SafetyInvariant'
    BY <1>1, <1>3 DEF EvidenceIsCurrentGeneration, EvidenceRestsOnCurrentAnswer,
                      RefreshFailsClosed, Positive
  <1>5. MarkersIssuedOnce' /\ CutoverDark'
    BY <1>1, <1>3 DEF MarkersIssuedOnce, CutoverDark
  <1>6. AnswersHold'
    BY <1>1, <1>2, <1>3 DEF AnswersHold
  <1> QED
    BY <1>4, <1>5, <1>6

\* The one step that opens rows: scope, marker and answers all still hold.
LEMMA CommitStep ==
    ASSUME InductiveInvariant, TypeOK', NEW v \in Workers, Commit(v)
    PROVE  InductiveInvariant'
  <1> USE DEF InductiveInvariant, SafetyInvariant
  <1>1. /\ v \in Procs /\ job[v] \in Runs
        /\ Refreshing(v) /\ Answering(v)
        /\ candidates[v] \subseteq Docs /\ answers[v] \subseteq Docs
        /\ seen[v] \subseteq candidates[v]
        /\ UNCHANGED <<connection, authorization, lastMarker, cutover>>
    BY DEF Procs, Commit, TypeOK, Refreshing, Answering, AnswersHold, rowVars
  <1>2. \A d \in Docs :
           /\ d \in candidates[v] =>
                 /\ evidence'[d] = CommitRow(v, d)
                 /\ evidence[d].state # "absent" /\ evidence[d].marker = marker[v]
           /\ d \notin candidates[v] => evidence'[d] = evidence[d]
    BY DEF Commit, CandidatesHeld
  <1>3. \A d \in Docs : evidence'[d].marker = evidence[d].marker
    <2> SUFFICES ASSUME NEW d \in Docs
                 PROVE  evidence'[d].marker = evidence[d].marker
      OBVIOUS
    <2>1. CommitRow(v, d).marker = marker[v]
      BY DEF CommitRow
    <2> QED
      BY <1>2, <2>1
  <1>4. \A d \in Docs : d \in candidates[v] /\ Positive(d)' => d \in seen[v]
    <2> SUFFICES ASSUME NEW d \in candidates[v], evidence'[d].state = "visible"
                 PROVE  d \in seen[v]
      BY DEF Positive
    <2>1. d \notin seen[v] => CommitRow(v, d).state = "withheld"
      BY DEF CommitRow
    <2> QED
      BY <1>1, <1>2, <2>1
  <1>5. \A w \in Workers :
           /\ w = v => ~ Refreshing(w)' /\ ~ Answering(w)'
           /\ w # v => /\ Refreshing(w)' <=> Refreshing(w)
                       /\ Answering(w)' <=> Answering(w)
                       /\ UNCHANGED <<marker[w], candidates[w], seen[w], answers[w]>>
    BY <1>1 DEF Commit, Forget, Unwind, Refreshing, Answering, TypeOK, Procs
  <1>6. EvidenceIsCurrentGeneration'
    <2> SUFFICES ASSUME NEW d \in Docs, Positive(d)'
                 PROVE  /\ connection.enabled /\ connection.authority = PerUser
                        /\ authorization.status = "active"
                        /\ authorization.connGen = connection.gen
                        /\ evidence'[d].connGen = connection.gen
                        /\ evidence'[d].authGen = authorization.authGen
      BY <1>1 DEF EvidenceIsCurrentGeneration
    <2>1. CASE d \in candidates[v]
      BY <1>2, <2>1 DEF CommitRow, Commit, ScopeHolds, AuthorizationReady,
                        ServesUsers
    <2>2. CASE d \notin candidates[v]
      BY <1>2, <2>2 DEF EvidenceIsCurrentGeneration, Positive
    <2> QED
      BY <2>1, <2>2
  <1>7. EvidenceRestsOnCurrentAnswer'
    <2> SUFFICES ASSUME NEW d \in Docs, Positive(d)'
                 PROVE  d \in (trusted \ candidates[v]) \cup answers[v]
      BY DEF EvidenceRestsOnCurrentAnswer, Commit
    <2>1. CASE d \in candidates[v]
      BY <1>1, <1>2, <1>4, <2>1 DEF AnswersHold
    <2>2. CASE d \notin candidates[v]
      BY <1>2, <2>2 DEF EvidenceRestsOnCurrentAnswer, Positive
    <2> QED
      BY <2>1, <2>2
  <1>8. RefreshFailsClosed'
    <2> SUFFICES ASSUME NEW w \in Workers, Refreshing(w)', NEW d \in candidates'[w],
                        evidence'[d].marker = marker'[w]
                 PROVE  ~ Positive(d)'
      BY DEF RefreshFailsClosed
    <2>1. /\ w # v /\ Refreshing(w) /\ d \in candidates[w] /\ d \in Docs
          /\ evidence[d].marker = marker[w]
      BY <1>3, <1>5 DEF TypeOK, Procs
    <2>2. d \notin candidates[v]
      BY <1>1, <1>2, <2>1 DEF MarkersIssuedOnce
    <2> QED
      BY <1>2, <2>1, <2>2 DEF RefreshFailsClosed, Positive
  <1>9. MarkersIssuedOnce'
    BY <1>1, <1>3, <1>5 DEF MarkersIssuedOnce
  <1>10. AnswersHold'
    <2> SUFFICES ASSUME NEW w \in Workers, Answering(w)'
                 PROVE  /\ seen'[w] \subseteq candidates'[w]
                        /\ \A d \in seen'[w] :
                              /\ evidence'[d].state # "absent"
                              /\ evidence'[d].marker = marker'[w]
                              => d \in answers'[w]
      BY DEF AnswersHold
    <2>1. /\ Answering(w) /\ w # v /\ seen[w] \subseteq Docs
          /\ UNCHANGED <<marker[w], candidates[w], seen[w], answers[w]>>
      BY <1>5 DEF TypeOK, Procs
    <2>2. \A d \in Docs : evidence'[d].state # "absent" => evidence[d].state # "absent"
      BY <1>2
    <2> QED
      BY <1>3, <2>1, <2>2 DEF AnswersHold
  <1>11. CutoverDark'
    BY <1>1 DEF CutoverDark
  <1> QED
    BY <1>6, <1>7, <1>8, <1>9, <1>10, <1>11

\* Deleting every row voids whatever the workers in flight hold.
LEMMA DeletionStep ==
    ASSUME InductiveInvariant, TypeOK', CutoverDark', evidence' = NoEvidence,
           UNCHANGED <<lastMarker, marker, candidates, seen>>,
           \A w \in Workers : UNCHANGED pc[w]
    PROVE  InductiveInvariant'
  <1> USE DEF InductiveInvariant, SafetyInvariant
  <1>1. \A d \in Docs : evidence'[d].state = "absent" /\ evidence'[d].marker = 0
    BY DEF NoEvidence, NoRow
  <1>2. \A w \in Workers : /\ Refreshing(w)' <=> Refreshing(w)
                           /\ Answering(w)' <=> Answering(w)
                           /\ candidates[w] \subseteq Docs /\ seen[w] \subseteq Docs
    BY DEF Refreshing, Answering, TypeOK, Procs
  <1>3. SafetyInvariant'
    BY <1>1, <1>2 DEF EvidenceIsCurrentGeneration, EvidenceRestsOnCurrentAnswer,
                      RefreshFailsClosed, Positive
  <1>4. MarkersIssuedOnce'
    BY <1>1, <1>2 DEF MarkersIssuedOnce, TypeOK
  <1>5. AnswersHold'
    BY <1>1, <1>2 DEF AnswersHold
  <1> QED
    BY <1>3, <1>4, <1>5

\* Activation enables a connection that holds no live evidence.
LEMMA ActivationStep ==
    ASSUME InductiveInvariant, TypeOK', CutoverActivate
    PROVE  InductiveInvariant'
  <1> USE DEF InductiveInvariant, SafetyInvariant
  <1>1. ~ connection.enabled
    BY DEF CutoverActivate, CutoverDark
  <1>2. \A d \in Docs : ~ Positive(d)
    BY <1>1 DEF EvidenceIsCurrentGeneration
  <1>3. UNCHANGED <<evidence, lastMarker, pc, marker, candidates, seen, answers,
                    trusted>>
    BY DEF CutoverActivate, memoryVars, ghostVars
  <1>4. SafetyInvariant'
    BY <1>2, <1>3 DEF EvidenceIsCurrentGeneration, EvidenceRestsOnCurrentAnswer,
                      RefreshFailsClosed, Refreshing, Positive
  <1>5. MarkersIssuedOnce' /\ AnswersHold'
    BY <1>3 DEF MarkersIssuedOnce, AnswersHold, Refreshing, Answering
  <1>6. CutoverDark'
    BY DEF CutoverActivate, CutoverDark
  <1> QED
    BY <1>4, <1>5, <1>6

LEMMA InitInvariant == Init => InductiveInvariant
  <1> SUFFICES ASSUME Init PROVE InductiveInvariant
    OBVIOUS
  <1>1. TypeOK
    BY InitType
  <1>2. /\ \A d \in Docs : evidence[d].state = "absent" /\ evidence[d].marker = 0
        /\ \A w \in Workers : pc[w] = "idle"
        /\ lastMarker = 0 /\ cutover.step = "idle"
    BY DEF Init, NoEvidence, NoRow, Procs
  <1>3. SafetyInvariant
    BY <1>2 DEF SafetyInvariant, EvidenceIsCurrentGeneration, Positive,
                EvidenceRestsOnCurrentAnswer, RefreshFailsClosed, Refreshing
  <1>4. MarkersIssuedOnce /\ AnswersHold /\ CutoverDark
    BY <1>2 DEF MarkersIssuedOnce, AnswersHold, CutoverDark, Refreshing, Answering
  <1> QED
    BY <1>1, <1>3, <1>4 DEF InductiveInvariant

\* A process that unwinds is no longer refreshing; the others are untouched.
LEMMA UnwindDrops ==
    ASSUME TypeOK, NEW p \in Procs, NEW step \in {"idle", "markedFailed"},
           NEW r, Unwind(p, step, r)
    PROVE  \A w \in Workers : KeepsOrDrops(w)
  BY DEF TypeOK, Unwind, KeepsOrDrops, Refreshing, Answering, Procs

\* A run that is aborted, for whatever reason, opens no row.
LEMMA AbortStep ==
    ASSUME InductiveInvariant, TypeOK', NEW w \in Workers,
           \/ Abort(w) /\ trusted' = trusted
              /\ (evidence' = Withheld \/ UNCHANGED evidence)
           \/ AbortRetryable(w)
    PROVE  InductiveInvariant'
  <1>1. w \in Procs /\ TypeOK /\ CutoverDark
    BY DEF Procs, InductiveInvariant
  <1>2. \A v \in Workers : KeepsOrDrops(v)
    BY <1>1, UnwindDrops DEF Abort, AbortRetryable, Forget
  <1>3. UNCHANGED <<connection, authorization, lastMarker, cutover, trusted>>
    BY DEF Abort, AbortRetryable, rowVars
  <1>4. RowsNotPromoted
    BY <1>1, WithheldNotPromoted DEF AbortRetryable
  <1>5. CutoverDark'
    BY <1>1, <1>3 DEF CutoverDark
  <1> QED
    BY <1>2, <1>3, <1>4, <1>5, QuietStep

\* The worker's handler preserves the invariant.
LEMMA WorkerStep ==
    ASSUME InductiveInvariant, TypeOK', NEW w \in Workers, WorkerNext(w)
    PROVE  InductiveInvariant'
  <1>0. w \in Procs /\ TypeOK /\ CutoverDark
    BY DEF Procs, InductiveInvariant
  <1>1. ASSUME NEW r \in Runs, Claim(w, r) PROVE InductiveInvariant'
    <2>1. UNCHANGED <<connection, authorization, evidence, lastMarker, cutover, trusted>>
      BY <1>1 DEF Claim, OutsideUnchanged, rowVars, ghostVars
    <2>2. \A v \in Workers : KeepsOrDrops(v)
      BY <1>0, <1>1 DEF Claim, Goto, KeepsOrDrops, Refreshing, Answering,
                        ghostVars, TypeOK, Procs
    <2> QED
      BY <1>0, <2>1, <2>2, QuietStep, WithheldNotPromoted DEF CutoverDark
  <1>2. CASE Preinvalidate(w)
    BY <1>2, PreinvalidateStep
  <1>3. CASE LoadScope(w) \/ Verify(w)
    <2>1. UNCHANGED <<connection, authorization, evidence, lastMarker, cutover, trusted>>
      BY <1>3 DEF LoadScope, Verify, OutsideUnchanged, rowVars, ghostVars
    <2>2. \A v \in Workers : KeepsOrDrops(v)
      BY <1>0, <1>3 DEF LoadScope, Verify, Goto, KeepsOrDrops, Refreshing,
                        Answering, memoryVars, ghostVars, TypeOK, Procs
    <2> QED
      BY <1>0, <2>1, <2>2, QuietStep, WithheldNotPromoted DEF CutoverDark
  <1>4. CASE AnswerGoogle(w)
    BY <1>4, AnswerStep
  <1>5. CASE Commit(w)
    BY <1>5, CommitStep
  <1>6. CASE \/ PreinvalidateOverCap(w) \/ RejectScope(w) \/ ReconcileMismatch(w)
             \/ RejectCommit(w) \/ ReconcileScopeInvalid(w) \/ VerifyMismatch(w)
             \/ WorkerFails(w)
    BY <1>6, AbortStep
    DEF PreinvalidateOverCap, RejectScope, ReconcileMismatch, RejectCommit,
        ReconcileScopeInvalid, VerifyMismatch, WorkerFails
  <1>7. CASE RetryRun(w) \/ Crash(w)
    <2>1. UNCHANGED <<connection, authorization, evidence, lastMarker, cutover, trusted>>
      BY <1>7 DEF RetryRun, Crash, rowVars
    <2>2. \A v \in Workers : KeepsOrDrops(v)
      BY <1>0, <1>7, UnwindDrops DEF RetryRun, Crash, Forget
    <2> QED
      BY <1>0, <2>1, <2>2, QuietStep, WithheldNotPromoted DEF CutoverDark
  <1> QED
    BY <1>1, <1>2, <1>3, <1>4, <1>5, <1>6, <1>7 DEF WorkerNext

\* Tuple writes, by a worker or the web process, touch no evidence.
LEMMA ReconcileStep ==
    ASSUME InductiveInvariant, TypeOK', NEW p \in Procs, ReconcileNext(p)
    PROVE  InductiveInvariant'
  <1>0. TypeOK /\ CutoverDark
    BY DEF InductiveInvariant
  <1>1. UNCHANGED <<connection, authorization, evidence, lastMarker, cutover, trusted>>
    BY DEF ReconcileNext, ReconcileRead, WriteTouch, WriteDelete, OutsideUnchanged,
           rowVars, ghostVars
  <1>2. \A v \in Workers : KeepsOrDrops(v)
    BY <1>0 DEF ReconcileNext, ReconcileRead, WriteTouch, WriteDelete, Goto,
                KeepsOrDrops, Refreshing, Answering, memoryVars, ghostVars,
                TypeOK, Procs
  <1> QED
    BY <1>0, <1>1, <1>2, QuietStep, WithheldNotPromoted DEF CutoverDark

\* Steps outside the workers that leave every process where it is.
LEMMA BackgroundStep ==
    ASSUME InductiveInvariant, TypeOK',
           \/ \E r \in Runs : SweepRun(r) \/ SweepWithholds(r)
           \/ CreateRun \/ ScheduleWithholds
           \/ CutoverRead \/ CutoverDelete \/ CutoverVerify \/ CutoverFails
           \/ DriveSync
           \/ \E d \in Docs : EvidenceAges(d) \/ ContentReady(d)
    PROVE  InductiveInvariant'
  <1> USE DEF SweepRun, SweepWithholds, CreateRun, ScheduleWithholds, CutoverRead,
              CutoverDelete, CutoverVerify, CutoverFails, CutoverStep, DriveSync,
              EvidenceAges, ContentReady, OutsideUnchanged
  <1>0. TypeOK /\ CutoverDark
    BY DEF InductiveInvariant
  <1>1. UNCHANGED <<connection, authorization, lastMarker, pc, marker, candidates,
                    seen, answers, trusted>>
    BY DEF rowVars, memoryVars, ghostVars
  <1>2. \A v \in Workers : KeepsOrDrops(v)
    BY <1>1 DEF KeepsOrDrops, Refreshing, Answering
  <1>3. CutoverDark'
    BY <1>0, <1>1 DEF CutoverDark
  <1>4. \/ evidence' = Withheld \/ UNCHANGED evidence
        \/ \E d \in Docs : evidence' = [evidence EXCEPT ![d].fresh = FALSE]
    OBVIOUS
  <1>5. ASSUME NEW d \in Docs, evidence' = [evidence EXCEPT ![d].fresh = FALSE]
        PROVE  RowsNotPromoted
    <2>1. \A e \in Docs : /\ evidence'[e].state = evidence[e].state
                          /\ evidence'[e].marker = evidence[e].marker
                          /\ evidence'[e].connGen = evidence[e].connGen
                          /\ evidence'[e].authGen = evidence[e].authGen
      BY <1>0, <1>5 DEF TypeOK, EvidenceRows
    <2> QED
      BY <2>1 DEF RowsNotPromoted, Positive
  <1>6. RowsNotPromoted
    BY <1>0, <1>4, <1>5, WithheldNotPromoted
  <1> QED
    BY <1>1, <1>2, <1>3, <1>6, QuietStep

\* The end of a disconnect request concerns the web process alone.
LEMMA DisconnectEndsStep ==
    ASSUME InductiveInvariant, TypeOK', DisconnectEnds
    PROVE  InductiveInvariant'
  <1>0. TypeOK /\ CutoverDark /\ Web \in Procs
    BY DEF InductiveInvariant, Procs
  <1>1. UNCHANGED <<connection, authorization, evidence, lastMarker, cutover, trusted>>
    BY DEF DisconnectEnds, OutsideUnchanged, rowVars
  <1>2. \A v \in Workers : KeepsOrDrops(v)
    BY <1>0, UnwindDrops DEF DisconnectEnds, Forget
  <1> QED
    BY <1>0, <1>1, <1>2, QuietStep, WithheldNotPromoted DEF CutoverDark

\* Connecting, disconnecting and denying delete the evidence.
LEMMA VoidingStep ==
    ASSUME InductiveInvariant, TypeOK', Connect \/ Disconnect \/ CutoverDeny
    PROVE  InductiveInvariant'
  <1>1. CutoverDark'
    BY DEF InductiveInvariant, CutoverDark, TypeOK, Connect, Disconnect, CutoverDeny
  <1>2. evidence' = NoEvidence /\ UNCHANGED <<lastMarker, marker, candidates, seen>>
    BY DEF Connect, Disconnect, CutoverDeny, memoryVars
  <1>3. \A w \in Workers : UNCHANGED pc[w]
    BY ConstantsAssumption
    DEF Connect, Disconnect, CutoverDeny, Goto, InductiveInvariant, TypeOK, Procs
  <1> QED
    BY <1>1, <1>2, <1>3, DeletionStep

LEMMA NextInvariant == InductiveInvariant /\ [Next]_vars => InductiveInvariant'
  <1> SUFFICES ASSUME InductiveInvariant, [Next]_vars PROVE InductiveInvariant'
    OBVIOUS
  <1>0. TypeOK'
    BY NextType DEF InductiveInvariant
  <1>1. CASE UNCHANGED vars
    BY <1>1 DEF vars, rowVars, docVars, runVars, memoryVars, writeVars, ghostVars,
                InductiveInvariant, TypeOK, SafetyInvariant, MarkersIssuedOnce,
                EvidenceIsCurrentGeneration, EvidenceRestsOnCurrentAnswer,
                RefreshFailsClosed, AnswersHold, CutoverDark, Refreshing,
                Answering, Positive
  <1>2. CASE Next
    BY <1>0, <1>2, WorkerStep, ReconcileStep, BackgroundStep, DisconnectEndsStep,
       VoidingStep, ActivationStep DEF Next, CutoverNext
  <1> QED
    BY <1>1, <1>2

LEMMA Invariance == Spec => []InductiveInvariant
  BY InitInvariant, NextInvariant, PTL DEF Spec

\* Whoever reconnects, disconnects or is cut over while a worker is in flight,
\* a visible row belongs to the current generations (the re-validation under
\* lock in _commit_verified_results, the deletions of _connect and _deny).
THEOREM EvidenceCurrent == Spec => []EvidenceIsCurrentGeneration
  BY Invariance, PTL DEF InductiveInvariant, SafetyInvariant

\* A visible row rests on an answer given after the last event that voided
\* earlier ones (the visibility_sync_marker match of the commit).
THEOREM EvidenceAnswered == Spec => []EvidenceRestsOnCurrentAnswer
  BY Invariance, PTL DEF InductiveInvariant, SafetyInvariant

\* From its preinvalidation to its commit a refresh keeps its documents closed.
THEOREM RefreshClosed == Spec => []RefreshFailsClosed
  BY Invariance, PTL DEF InductiveInvariant, SafetyInvariant

=============================================================================
