---------------------------- MODULE SyncRuns_proofs ----------------------------
(* Proofs about SyncRuns, for any number of runs, messages, retries, faults *)
(* and requests, and any timeout longer than an execution.                  *)
EXTENDS SyncRuns, TLAPS

\* A worker holds the lock under the name of its run, and took it when it
\* began: the lock cannot expire before the worker is done.
LockHeld ==
    \A d \in Deliveries : Works(d) =>
        lock.token = delivery[d].run /\ lock.age = delivery[d].age

\* What a worker knows of the status of its run.  Only the sweeper may have
\* changed it since the claim.
RunInHand ==
    \A d \in Deliveries :
        /\ delivery[d].step \in {"claimed", "verifying", "committed"} =>
               run[delivery[d].run].status \in {"running", "failed"}
        /\ delivery[d].step = "failed" => run[delivery[d].run].status = "failed"

Inv == TypeOK /\ LockHeld /\ OneWorkerAtATime /\ RunInHand

-----------------------------------------------------------------------------
LEMMA InitInv == Init => Inv
  <1> SUFFICES ASSUME Init PROVE Inv
    OBVIOUS
  <1>1. delivery = [d \in Deliveries |-> NoDelivery] /\ NoDelivery \in DeliveryRows
    BY RunsAssumption DEF Init, NoDelivery, DeliveryRows
  <1>2. run \in [Runs -> RunRows]
    BY RunsAssumption DEF Init, RunRows
  <1>3. lock \in [token : Runs \cup {NoRun}, age : 0 .. StaleTimeout]
    BY RunsAssumption DEF Init, FreeLock
  <1>4. delivery \in [Deliveries -> DeliveryRows]
    BY <1>1
  <1>5. \A d \in Deliveries : delivery[d].step = "none" /\ ~ delivery[d].again
    BY <1>1 DEF NoDelivery
  <1>6. TypeOK
    <2>1. faults \in 0 .. MaxFaults /\ requests \in 0 .. MaxRequests
      BY RunsAssumption DEF Init
    <2>2. beat \in [step : {"idle", "creating"}, gen : Nat] /\ generation \in Nat
      BY DEF Init
    <2> QED
      BY <1>2, <1>3, <1>4, <1>5, <2>1, <2>2 DEF Init, TypeOK
  <1>7. \A d \in Deliveries : ~ Works(d)
    BY <1>5 DEF Works, Executing
  <1>8. RunInHand
    BY <1>5 DEF RunInHand
  <1> QED
    BY <1>6, <1>7, <1>8 DEF Inv, LockHeld, OneWorkerAtATime

\* A well-formed delivery no worker executes.
Loose == {m \in DeliveryRows :
             /\ m.step \notin Executing
             /\ m.step # "none" => m.run \in Runs
             /\ m.again => m.retries < MaxRetries}

LEMMA NoDeliveryLoose == NoDelivery \in Loose
  BY RunsAssumption DEF NoDelivery, Loose, DeliveryRows, Executing

LEMMA MessageLoose ==
  ASSUME NEW r \in Runs, NEW n \in 0 .. MaxRetries
  PROVE  Message(r, n) \in Loose
  BY RunsAssumption DEF Message, Loose, DeliveryRows, Executing

\* A delivery that is dropped or published again is loose.
LEMMA RetryFact ==
  ASSUME TypeOK, NEW d \in Deliveries, delivery[d].step # "none",
         Retry(d) \/ Return(d) \/ Done(d)
  PROVE  \E m \in Loose : delivery' = [delivery EXCEPT ![d] = m]
  <1>1. delivery[d] \in DeliveryRows /\ delivery[d].run \in Runs
    BY DEF TypeOK
  <1>2. CASE Retry(d)
    <2>1. ASSUME delivery[d].retries < MaxRetries PROVE SentAgain(d) \in Loose
      <3>1. delivery[d].retries + 1 \in 0 .. MaxRetries
        BY <1>1, <2>1, RunsAssumption DEF DeliveryRows
      <3> QED
        BY <1>1, <3>1, MessageLoose DEF SentAgain
    <2> QED
      BY <1>2, <2>1, NoDeliveryLoose DEF Retry, Done
  <1>3. CASE Done(d)
    BY <1>3, NoDeliveryLoose DEF Done
  <1> QED
    BY <1>2, <1>3 DEF Return

\* Replacing one delivery by a message nobody works on keeps everything, if
\* the lock and the runs stay, or the delivery had the lock and frees it.
LEMMA LeaveKeepsInv ==
  ASSUME Inv, NEW d \in Deliveries,
         NEW m \in Loose, delivery' = [delivery EXCEPT ![d] = m],
         lock' = lock \/ (Works(d) /\ lock' = FreeLock),
         UNCHANGED <<kind, generation, run, beat>>,
         fresh' \in BOOLEAN, faults' \in 0 .. MaxFaults,
         requests' \in 0 .. MaxRequests
  PROVE  Inv'
  <1>0. /\ m \in DeliveryRows /\ m.step \notin Executing
        /\ m.step # "none" => m.run \in Runs
        /\ m.again => m.retries < MaxRetries
    BY DEF Loose
  <1>1. TypeOK'
    <2>1. delivery' \in [Deliveries -> DeliveryRows]
      BY <1>0 DEF Inv, TypeOK
    <2>2. lock' \in [token : Runs \cup {NoRun}, age : 0 .. StaleTimeout]
      BY RunsAssumption DEF Inv, TypeOK, FreeLock
    <2> QED
      BY <1>0, <2>1, <2>2 DEF Inv, TypeOK
  <1>2. \A e \in Deliveries : Works(e)' => e # d /\ Works(e) /\ delivery'[e] = delivery[e]
    BY <1>0 DEF Inv, TypeOK, Works
  <1>3. LockHeld'
    BY <1>2 DEF Inv, LockHeld, OneWorkerAtATime, Works
  <1>4. OneWorkerAtATime'
    BY <1>2 DEF Inv, OneWorkerAtATime
  <1>5. RunInHand'
    BY <1>0 DEF Inv, TypeOK, RunInHand, Executing
  <1> QED
    BY <1>1, <1>3, <1>4, <1>5 DEF Inv

\* A worker that goes on with its work, and changes at most its own run.
LEMMA WorkKeepsInv ==
  ASSUME Inv, NEW d \in Deliveries, Works(d),
         NEW step \in Executing, NEW again \in BOOLEAN,
         again => delivery[d].retries < MaxRetries,
         delivery' = [delivery EXCEPT ![d].step = step, ![d].again = again],
         NEW row \in RunRows,
         run' = [run EXCEPT ![delivery[d].run] = row],
         step \in {"claimed", "verifying", "committed"} =>
             row.status \in {"running", "failed"},
         step = "failed" => row.status = "failed",
         UNCHANGED <<kind, generation, lock, beat, requests>>,
         fresh' \in BOOLEAN, faults' \in 0 .. MaxFaults
  PROVE  Inv'
  <1>0. delivery[d].run \in Runs
    BY DEF Inv, TypeOK, Works, Executing
  <1>1. TypeOK'
    <2>1. delivery[d] \in DeliveryRows
      BY DEF Inv, TypeOK
    <2>2. [delivery[d] EXCEPT !.step = step, !.again = again] \in DeliveryRows
      BY <2>1 DEF DeliveryRows
    <2>3. delivery' \in [Deliveries -> DeliveryRows]
      BY <2>1, <2>2 DEF Inv, TypeOK
    <2>4. run' \in [Runs -> RunRows]
      BY DEF Inv, TypeOK
    <2>5. /\ delivery'[d].run = delivery[d].run
          /\ delivery'[d].retries = delivery[d].retries
          /\ delivery'[d].again = again
      BY <2>1 DEF Inv, TypeOK, DeliveryRows
    <2>6. \A e \in Deliveries : e # d => delivery'[e] = delivery[e]
      BY DEF Inv, TypeOK
    <2> QED
      BY <1>0, <2>3, <2>4, <2>5, <2>6 DEF Inv, TypeOK
  <1>2. \A e \in Deliveries : Works(e)' => e = d
    BY DEF Inv, TypeOK, OneWorkerAtATime, Works
  <1>3. LockHeld'
    BY <1>2 DEF Inv, TypeOK, LockHeld, Works
  <1>4. OneWorkerAtATime'
    BY <1>2 DEF OneWorkerAtATime
  <1>5. RunInHand'
    BY <1>0, <1>2 DEF Inv, TypeOK, RunInHand, Works, Executing
  <1> QED
    BY <1>1, <1>3, <1>4, <1>5 DEF Inv

-----------------------------------------------------------------------------
(* The steps, one lemma per group of actions.                              *)

\* Messages move, nobody executes more than before.
LEMMA MessageSteps ==
  ASSUME Inv, NEW d \in Deliveries,
         \/ Receive(d) \/ Contend(d) \/ Crash(d) \/ LoseMessage(d)
         \/ \E e \in Deliveries : Duplicate(d, e)
         \/ DeleteLock(d)
         \/ (ReadToken(d) /\ Return(d))
  PROVE  Inv'
  <1> USE DEF Inv
  <1>0. TypeOK /\ RunsAssumption
    BY RunsAssumption
  <1>t. /\ delivery[d] \in DeliveryRows /\ faults \in 0 .. MaxFaults /\ fresh \in BOOLEAN
        /\ requests \in 0 .. MaxRequests
    BY DEF TypeOK
  <1>m. ASSUME delivery[d].step # "none"
        PROVE  /\ Message(delivery[d].run, delivery[d].retries) \in Loose
               /\ delivery[d].again => SentAgain(d) \in Loose
    <2>1. delivery[d].run \in Runs /\ delivery[d].retries \in 0 .. MaxRetries
      BY <1>t, <1>m DEF TypeOK, DeliveryRows
    <2>2. delivery[d].again => delivery[d].retries + 1 \in 0 .. MaxRetries
      BY <2>1, RunsAssumption DEF TypeOK
    <2> QED
      BY <2>1, <2>2, MessageLoose DEF SentAgain
  <1>1. CASE Receive(d)
    <2>1. CASE Unfinished(delivery[d].run)
      <3> DEFINE m == [delivery[d] EXCEPT !.step = "checked"]
      <3>1. m \in Loose
        BY <1>1, <1>t DEF Receive, TypeOK, DeliveryRows, Loose, Executing
      <3>2. delivery' = [delivery EXCEPT ![d] = m]
        BY <1>1, <2>1 DEF Receive, Goto
      <3> QED
        BY <1>1, <1>t, <3>1, <3>2, LeaveKeepsInv
        DEF Receive, rowVars, sideVars
    <2>2. CASE ~ Unfinished(delivery[d].run)
      <3>1. PICK m \in Loose : delivery' = [delivery EXCEPT ![d] = m]
        BY <1>0, <1>1, <2>2, RetryFact DEF Receive
      <3> QED
        BY <1>1, <1>t, <3>1, LeaveKeepsInv DEF Receive, rowVars, sideVars
    <2> QED
      BY <2>1, <2>2
  <1>2. CASE Contend(d) \/ LoseMessage(d)
    <2>1. PICK m \in Loose : delivery' = [delivery EXCEPT ![d] = m]
      BY <1>0, <1>2, RetryFact DEF Contend, LoseMessage
    <2>2. faults' \in 0 .. MaxFaults
      BY <1>t, <1>2, RunsAssumption DEF Contend, LoseMessage, Fault
    <2> QED
      BY <1>2, <1>t, <2>1, <2>2, LeaveKeepsInv
      DEF Contend, LoseMessage, rowVars, sideVars
  <1>3. CASE Crash(d)
    <2>1. delivery[d].step # "none"
      BY <1>3 DEF Crash, Executing
    <2>2. PICK m \in Loose : delivery' = [delivery EXCEPT ![d] = m]
      BY <1>0, <1>3, <1>m, <2>1, RetryFact DEF Crash
    <2>3. faults' \in 0 .. MaxFaults
      BY <1>t, <1>3, RunsAssumption DEF Crash, Fault
    <2> QED
      BY <1>3, <1>t, <2>2, <2>3, LeaveKeepsInv DEF Crash, rowVars, sideVars
  <1>4. ASSUME NEW e \in Deliveries, Duplicate(d, e) PROVE Inv'
    <2>1. PICK m \in Loose : delivery' = [delivery EXCEPT ![e] = m]
      BY <1>m, <1>4 DEF Duplicate
    <2>2. faults' \in 0 .. MaxFaults
      BY <1>t, <1>4, RunsAssumption DEF Duplicate, Fault
    <2> QED
      BY <1>4, <1>t, <2>1, <2>2, LeaveKeepsInv DEF Duplicate, rowVars, sideVars
  <1>5. CASE (ReadToken(d) /\ Return(d)) \/ DeleteLock(d)
    <2>1. PICK m \in Loose : delivery' = [delivery EXCEPT ![d] = m]
      BY <1>0, <1>5, RetryFact DEF ReadToken, DeleteLock
    <2>2. lock' = lock \/ (Works(d) /\ lock' = FreeLock)
      BY <1>5 DEF ReadToken, DeleteLock, Works, Executing
    <2> QED
      BY <1>5, <1>t, <2>1, <2>2, LeaveKeepsInv
      DEF ReadToken, DeleteLock, rowVars, sideVars
  <1> QED
    BY <1>1, <1>2, <1>3, <1>4, <1>5

\* The worker with the lock goes on.
LEMMA WorkSteps ==
  ASSUME Inv, NEW d \in Deliveries,
         \/ Claim(d) \/ ClaimNothing(d) \/ Preinvalidate(d)
         \/ CommitVisibility(d) \/ RejectScope(d) \/ CommitPermissions(d)
         \/ SavePermissionRun(d) \/ FailRun(d) \/ Requeue(d) \/ GiveUp(d)
         \/ (ReadToken(d) /\ Goto(d, "deleting"))
  PROVE  Inv'
  <1> DEFINE r == delivery[d].run
             row(status) == [run[r] EXCEPT !.status = status, !.age = 0]
             moved(step, again) == [delivery EXCEPT ![d].step = step,
                                                    ![d].again = again]
  <1>0. /\ Works(d) /\ r \in Runs /\ delivery[d] \in DeliveryRows
        /\ faults \in 0 .. MaxFaults /\ fresh \in BOOLEAN
        /\ delivery[d].again => delivery[d].retries < MaxRetries
        /\ run \in [Runs -> RunRows]
    BY DEF Inv, TypeOK, Works, Executing, Claim, ClaimNothing, Preinvalidate,
           CommitVisibility, RejectScope, CommitPermissions, SavePermissionRun,
           FailRun, Requeue, GiveUp, ReadToken
  <1>1. /\ faults' \in 0 .. MaxFaults /\ fresh' \in BOOLEAN
        /\ UNCHANGED <<kind, generation, lock, beat, requests>>
    <2>1. UNCHANGED faults \/ Fault
      BY DEF Claim, ClaimNothing, Preinvalidate, CommitVisibility, RejectScope,
        CommitPermissions, SavePermissionRun, FailRun, Requeue, GiveUp, ReadToken
    <2>2. fresh' = fresh \/ fresh' = TRUE \/ fresh' = FALSE
      BY DEF Claim, ClaimNothing, Preinvalidate, CommitVisibility, RejectScope,
        CommitPermissions, SavePermissionRun, FailRun, Requeue, GiveUp, ReadToken,
        rowVars
    <2>3. UNCHANGED <<kind, generation, lock, beat, requests>>
      BY DEF Claim, ClaimNothing, Preinvalidate, CommitVisibility, RejectScope,
        CommitPermissions, SavePermissionRun, FailRun, Requeue, GiveUp, ReadToken,
        sideVars
    <2>4. fresh' \in BOOLEAN
      BY <1>0, <2>2, Zenon
    <2>5. faults' \in 0 .. MaxFaults
      BY <1>0, <2>1, RunsAssumption DEF Fault
    <2> QED
      BY <2>3, <2>4, <2>5
  <1>2. ASSUME NEW step \in Executing, Goto(d, step)
        PROVE  delivery' = moved(step, delivery[d].again)
    BY <1>0, <1>2 DEF Goto, Inv, TypeOK, DeliveryRows
  <1>3. ASSUME NEW status \in {"queued", "running", "succeeded", "failed"}
        PROVE  row(status) \in RunRows /\ row(status).status = status
    <2>1. /\ run[r] \in RunRows /\ 0 \in 0 .. StaleTimeout + 1
          /\ status \in {"unused", "queued", "running", "succeeded", "failed"}
      BY <1>0, <1>3, RunsAssumption
    <2> QED
      BY <2>1 DEF RunRows
  <1>4. ASSUME UNCHANGED run PROVE run' = [run EXCEPT ![r] = run[r]]
    BY <1>0, <1>4
  <1>5. ASSUME NEW status, SetStatus(r, status)
        PROVE  run' = [run EXCEPT ![r] = row(status)]
    BY <1>0, <1>5 DEF SetStatus
  <1>6. run[r] \in RunRows /\ delivery[d].again \in BOOLEAN
    BY <1>0 DEF DeliveryRows
  \* What the cases below have to show.
  <1>w. ASSUME NEW step \in Executing, NEW again \in BOOLEAN,
               again => delivery[d].retries < MaxRetries,
               delivery' = moved(step, again),
               NEW new \in RunRows, run' = [run EXCEPT ![r] = new],
               step \in {"claimed", "verifying", "committed"} =>
                   new.status \in {"running", "failed"},
               step = "failed" => new.status = "failed"
        PROVE  Inv'
    BY <1>0, <1>1, <1>w, WorkKeepsInv
  <1>7. CASE Claim(d)
    <2>1. PICK step \in {"claimed", "verifying"} : Goto(d, step)
      BY <1>7 DEF Claim
    <2>2. step \in Executing
      BY <2>1 DEF Executing
    <2>3. CASE run[r].status = "queued"
      BY <1>0, <1>2, <1>3, <1>5, <1>6, <1>7, <1>w, <2>1, <2>2, <2>3 DEF Claim
    <2>4. CASE run[r].status # "queued"
      <3>1. UNCHANGED run /\ run[r].status = "running"
        BY <1>7, <2>4 DEF Claim, MayExecute, Unfinished
      <3> QED
        BY <1>0, <1>2, <1>4, <1>6, <1>w, <2>1, <2>2, <3>1
    <2> QED
      BY <2>3, <2>4
  <1>8. CASE \/ ClaimNothing(d) \/ GiveUp(d)
             \/ (ReadToken(d) /\ Goto(d, "deleting"))
    <2>1. PICK step \in {"releasing", "deleting"} : Goto(d, step)
      BY <1>8 DEF ClaimNothing, GiveUp
    <2>2. step \in Executing /\ UNCHANGED run
      BY <1>8, <2>1 DEF Executing, ClaimNothing, GiveUp, ReadToken, rowVars
    <2> QED
      BY <1>0, <1>2, <1>4, <1>6, <1>w, <2>1, <2>2
  <1>9. CASE Preinvalidate(d) \/ CommitPermissions(d)
    <2>1. PICK step \in {"verifying", "committed"} : Goto(d, step)
      BY <1>9 DEF Preinvalidate, CommitPermissions
    <2>2. step \in Executing /\ UNCHANGED run
      BY <1>9, <2>1 DEF Executing, Preinvalidate, CommitPermissions
    <2>3. run[r].status \in {"running", "failed"}
      BY <1>9 DEF Inv, RunInHand, Preinvalidate, CommitPermissions
    <2> QED
      BY <1>0, <1>2, <1>4, <1>6, <1>w, <2>1, <2>2, <2>3
  <1>10. CASE CommitVisibility(d) \/ SavePermissionRun(d)
    <2>1. Goto(d, "releasing") /\ SetStatus(r, "succeeded") /\ "releasing" \in Executing
      BY <1>10 DEF CommitVisibility, SavePermissionRun, Executing
    <2>2. /\ row("succeeded") \in RunRows /\ row("succeeded").status = "succeeded"
          /\ run' = [run EXCEPT ![r] = row("succeeded")]
          /\ delivery' = moved("releasing", delivery[d].again)
      BY <1>2, <1>3, <1>5, <2>1
    <2> HIDE DEF row, moved
    <2> QED
      BY <1>0, <1>6, <1>w, <2>1, <2>2
  <1>11. CASE RejectScope(d) \/ FailRun(d)
    <2>1. PICK step \in {"failed", "releasing"} : Goto(d, step)
      BY <1>11 DEF RejectScope, FailRun
    <2>2. step \in Executing /\ (SetStatus(r, "failed") \/ MarkFailed(r))
      BY <1>11, <2>1 DEF Executing, RejectScope, FailRun
    <2>3. run[r].status \in {"running", "failed"}
      BY <1>11 DEF Inv, RunInHand, RejectScope, FailRun
    <2>4. CASE SetStatus(r, "failed")
      BY <1>0, <1>2, <1>3, <1>5, <1>6, <1>w, <2>1, <2>2, <2>4
    <2>5. CASE UNCHANGED run /\ run[r].status = "failed"
      BY <1>0, <1>2, <1>4, <1>6, <1>w, <2>1, <2>2, <2>5
    <2> QED
      BY <2>2, <2>3, <2>4, <2>5 DEF MarkFailed, Unfinished
  <1>12. CASE Requeue(d)
    <2>1. SetStatus(r, "queued") /\ delivery' = moved("releasing", TRUE)
      BY <1>12 DEF Requeue
    <2>2. "releasing" \in Executing /\ delivery[d].retries < MaxRetries
      BY <1>12 DEF Requeue, Executing
    <2>3. /\ row("queued") \in RunRows /\ row("queued").status = "queued"
          /\ run' = [run EXCEPT ![r] = row("queued")]
      BY <1>3, <1>5, <2>1
    <2> HIDE DEF row, moved
    <2> QED
      BY <1>w, <2>1, <2>2, <2>3
  <1> QED
    BY <1>7, <1>8, <1>9, <1>10, <1>11, <1>12

\* The lock is taken only when free, so by nobody else.
LEMMA TakeLockStep ==
  ASSUME Inv, NEW d \in Deliveries, TakeLock(d)
  PROVE  Inv'
  <1>0. /\ delivery[d] \in DeliveryRows /\ delivery[d].run \in Runs
        /\ delivery[d].step = "checked" /\ "locked" \in Executing
    BY DEF Inv, TypeOK, TakeLock, Executing
  <1>1. \A e \in Deliveries : ~ Works(e)
    BY RunsAssumption DEF Inv, LockHeld, TypeOK, TakeLock, Works, Executing
  <1>2. /\ delivery' \in [Deliveries -> DeliveryRows]
        /\ delivery'[d].step = "locked" /\ delivery'[d].run = delivery[d].run
        /\ delivery'[d].age = 0 /\ delivery'[d].again = delivery[d].again
        /\ delivery'[d].retries = delivery[d].retries
        /\ \A e \in Deliveries : e # d => delivery'[e] = delivery[e]
    <2> DEFINE m == [delivery[d] EXCEPT !.step = "locked", !.age = 0]
    <2>1. 0 \in 0 .. WorkLimit /\ "locked" \in Executing \cup {"none", "sent", "checked"}
      BY <1>0, RunsAssumption
    <2>2. /\ m \in DeliveryRows /\ m.step = "locked" /\ m.run = delivery[d].run
          /\ m.age = 0 /\ m.again = delivery[d].again
          /\ m.retries = delivery[d].retries
      BY <1>0, <2>1 DEF DeliveryRows
    <2>3. delivery' = [delivery EXCEPT ![d] = m]
      BY DEF TakeLock
    <2> HIDE DEF m
    <2> QED
      BY <2>2, <2>3 DEF Inv, TypeOK
  <1>3. lock' \in [token : Runs \cup {NoRun}, age : 0 .. StaleTimeout]
    BY <1>0, RunsAssumption DEF TakeLock
  <1>4. TypeOK'
    BY <1>0, <1>2, <1>3 DEF Inv, TypeOK, TakeLock, rowVars, sideVars
  <1>5. \A e \in Deliveries : Works(e)' => e = d
    BY <1>1, <1>2 DEF Works
  <1>6. LockHeld'
    BY <1>2, <1>5 DEF LockHeld, TakeLock
  <1>7. OneWorkerAtATime'
    BY <1>5 DEF OneWorkerAtATime
  <1>8. RunInHand'
    BY <1>2 DEF Inv, RunInHand, TakeLock, rowVars
  <1> QED
    BY <1>4, <1>6, <1>7, <1>8 DEF Inv

\* A fresh message for a run.
LEMMA SendFact ==
  ASSUME NEW r \in Runs, Send(r)
  PROVE  \E d \in Deliveries, m \in Loose :
             delivery[d].step = "none" /\ delivery' = [delivery EXCEPT ![d] = m]
  <1>1. 0 \in 0 .. MaxRetries
    BY RunsAssumption
  <1>2. Message(r, 0) \in Loose
    BY <1>1, MessageLoose
  <1>3. PICK d \in Deliveries : /\ delivery[d].step = "none"
                                /\ delivery' = [delivery EXCEPT ![d] = Message(r, 0)]
    BY DEF Send
  <1> QED
    BY <1>2, <1>3

\* A new run takes the place of a row no delivery refers to.
LEMMA CreateStep ==
  ASSUME Inv, NEW g \in Nat, Create(g), beat' \in [step : {"idle", "creating"}, gen : Nat],
         UNCHANGED generation, requests' \in 0 .. MaxRequests
  PROVE  Inv'
  <1>1. PICK r \in Runs : /\ Reusable(r) /\ run' = [run EXCEPT ![r] = QueuedRow(g)]
                          /\ (Send(r) /\ UNCHANGED faults) \/ (Fault /\ UNCHANGED delivery)
    BY DEF Create
  <1>2. UNCHANGED <<kind, fresh, lock>>
    BY DEF Create
  <1>3. \/ UNCHANGED delivery
        \/ \E d \in Deliveries, m \in Loose : delivery' = [delivery EXCEPT ![d] = m]
    BY <1>1, SendFact
  <1>4. /\ delivery' \in [Deliveries -> DeliveryRows]
        /\ \A d \in Deliveries : \/ delivery'[d] = delivery[d] \/ delivery'[d] \in Loose
    <2>1. CASE UNCHANGED delivery
      BY <2>1 DEF Inv, TypeOK
    <2>2. ASSUME NEW d \in Deliveries, NEW m \in Loose,
                 delivery' = [delivery EXCEPT ![d] = m]
          PROVE  <1>4!1 /\ <1>4!2
      BY <2>2 DEF Inv, TypeOK, Loose
    <2> QED
      BY <1>3, <2>1, <2>2
  <1>5. QueuedRow(g) \in RunRows
    BY RunsAssumption DEF QueuedRow, RunRows
  <1>6. run' \in [Runs -> RunRows] /\ faults' \in 0 .. MaxFaults
    BY <1>1, <1>5, RunsAssumption DEF Inv, TypeOK, Fault
  <1>7. TypeOK'
    BY <1>2, <1>4, <1>6 DEF Inv, TypeOK, Loose
  <1>8. \A d \in Deliveries : Works(d)' => delivery'[d] = delivery[d] /\ Works(d)
    BY <1>4 DEF Works, Loose
  <1>9. LockHeld' /\ OneWorkerAtATime'
    BY <1>2, <1>8 DEF Inv, LockHeld, OneWorkerAtATime
  <1>10. RunInHand'
    <2> SUFFICES ASSUME NEW d \in Deliveries,
                        delivery'[d].step \in {"claimed", "verifying", "committed", "failed"}
                 PROVE  delivery'[d] = delivery[d] /\ run'[delivery[d].run] = run[delivery[d].run]
      BY DEF Inv, RunInHand
    <2>1. delivery'[d] = delivery[d]
      BY <1>8 DEF Works, Executing
    <2>2. delivery[d].run # r
      BY <1>1 DEF Reusable
    <2> QED
      BY <1>1, <2>1, <2>2 DEF Inv, TypeOK
  <1> QED
    BY <1>7, <1>9, <1>10 DEF Inv

\* The scheduler, the sweeper and the users.
LEMMA OtherSteps ==
  ASSUME Inv,
         \/ \E r \in Runs : BeatRedispatches(r) \/ PostRedispatches(r) \/ Sweep(r)
         \/ BeatReads \/ BeatCreates \/ PostCreates \/ Reconnect
  PROVE  Inv'
  <1>0. /\ generation \in Nat /\ beat \in [step : {"idle", "creating"}, gen : Nat]
        /\ fresh \in BOOLEAN /\ faults \in 0 .. MaxFaults
        /\ requests \in 0 .. MaxRequests
    BY DEF Inv, TypeOK
  <1>1. ASSUME NEW r \in Runs, BeatRedispatches(r) \/ PostRedispatches(r) PROVE Inv'
    <2>1. PICK d \in Deliveries, m \in Loose :
              delivery[d].step = "none" /\ delivery' = [delivery EXCEPT ![d] = m]
      BY <1>1, SendFact DEF BeatRedispatches, PostRedispatches
    <2>2. UNCHANGED <<kind, generation, run, fresh, lock, beat, faults>>
      BY <1>1 DEF BeatRedispatches, PostRedispatches, rowVars, sideVars
    <2>3. requests' \in 0 .. MaxRequests
      BY <1>0, <1>1, RunsAssumption
      DEF BeatRedispatches, PostRedispatches, Request, sideVars
    <2> QED
      BY <1>0, <2>1, <2>2, <2>3, LeaveKeepsInv
  <1>2. ASSUME NEW r \in Runs, Sweep(r) PROVE Inv'
    <2>1. /\ UNCHANGED <<kind, generation, lock, delivery, beat, requests, faults>>
          /\ run[r].status = "running" /\ SetStatus(r, "failed")
      BY <1>2 DEF Sweep, Sweepable, sideVars
    <2>2. fresh' \in BOOLEAN
      BY <1>0, <1>2, Zenon DEF Sweep
    <2>3. [run[r] EXCEPT !.status = "failed", !.age = 0] \in RunRows
      <3>1. run[r] \in RunRows /\ 0 \in 0 .. StaleTimeout + 1
        BY RunsAssumption DEF Inv, TypeOK
      <3> QED
        BY <3>1 DEF RunRows
    <2>4. /\ run' \in [Runs -> RunRows] /\ run'[r].status = "failed"
          /\ \A q \in Runs : q # r => run'[q] = run[q]
      BY <2>1, <2>3 DEF SetStatus, Inv, TypeOK, RunRows
    <2>5. TypeOK'
      BY <2>1, <2>2, <2>4 DEF Inv, TypeOK
    <2>6. LockHeld' /\ OneWorkerAtATime'
      BY <2>1 DEF Inv, LockHeld, OneWorkerAtATime, Works
    <2>7. RunInHand'
      BY <2>1, <2>4 DEF Inv, TypeOK, RunInHand
    <2> QED
      BY <2>5, <2>6, <2>7 DEF Inv
  <1>3. CASE BeatReads \/ Reconnect
    <2>1. UNCHANGED <<kind, run, lock, delivery, faults>>
      BY <1>3 DEF BeatReads, Reconnect, rowVars
    <2>2. fresh' \in BOOLEAN
      BY <1>0, <1>3 DEF BeatReads, Reconnect, rowVars
    <2>3. /\ generation' \in Nat /\ requests' \in 0 .. MaxRequests
          /\ beat' \in [step : {"idle", "creating"}, gen : Nat]
      BY <1>0, <1>3, RunsAssumption DEF BeatReads, Reconnect, Request
    <2>4. TypeOK'
      BY <2>1, <2>2, <2>3 DEF Inv, TypeOK
    <2> QED
      BY <2>1, <2>4 DEF Inv, LockHeld, OneWorkerAtATime, Works, RunInHand
  <1>4. CASE BeatCreates
    <2>1. beat' \in [step : {"idle", "creating"}, gen : Nat] /\ beat.gen \in Nat
      BY <1>0, <1>4 DEF BeatCreates
    <2> QED
      BY <1>0, <1>4, <2>1, CreateStep DEF BeatCreates
  <1>5. CASE PostCreates
    <2>1. requests' \in 0 .. MaxRequests
      BY <1>0, <1>5, RunsAssumption DEF PostCreates, Request
    <2> QED
      BY <1>0, <1>5, <2>1, CreateStep DEF PostCreates
  <1> QED
    BY <1>1, <1>2, <1>3, <1>4, <1>5

\* The lock ages with its worker and outlives it.
LEMMA TickStep ==
  ASSUME Inv, Tick
  PROVE  Inv'
  <1>1. \A d \in Deliveries :
            /\ delivery'[d].step = delivery[d].step
            /\ delivery'[d].run = delivery[d].run
            /\ delivery'[d].retries = delivery[d].retries
            /\ delivery'[d].again = delivery[d].again
            /\ delivery'[d].age = IF Works(d) THEN delivery[d].age + 1 ELSE delivery[d].age
            /\ delivery'[d] \in DeliveryRows
    BY RunsAssumption DEF Inv, TypeOK, Tick, DeliveryRows
  <1>2. delivery' \in [Deliveries -> DeliveryRows]
    BY <1>1 DEF Tick
  <1>3. \A r \in Runs : run'[r].status = run[r].status /\ run'[r] \in RunRows
    BY RunsAssumption DEF Inv, TypeOK, Tick, RunRows
  <1>4. run' \in [Runs -> RunRows]
    BY <1>3 DEF Tick
  <1>5. lock' \in [token : Runs \cup {NoRun}, age : 0 .. StaleTimeout]
    BY RunsAssumption DEF Inv, TypeOK, Tick, FreeLock, LockExpires
  <1>6. TypeOK'
    BY <1>1, <1>2, <1>4, <1>5 DEF Inv, TypeOK, Tick, sideVars
  <1>7. \A d \in Deliveries : Works(d)' <=> Works(d)
    BY <1>1 DEF Works
  <1>8. LockHeld'
    <2> SUFFICES ASSUME NEW d \in Deliveries, Works(d)
                 PROVE  lock'.token = delivery'[d].run /\ lock'.age = delivery'[d].age
      BY <1>7 DEF LockHeld
    <2>1. /\ lock.token = delivery[d].run /\ lock.age = delivery[d].age
          /\ delivery[d].age < WorkLimit /\ delivery[d].run \in Runs
          /\ delivery[d].age \in Nat
      BY DEF Inv, LockHeld, Tick, TypeOK, Works, Executing, DeliveryRows
    <2>2. lock' = [lock EXCEPT !.age = @ + 1]
      BY <2>1, RunsAssumption DEF Tick, LockExpires
    <2> QED
      BY <1>1, <2>1, <2>2 DEF Inv, TypeOK
  <1>9. OneWorkerAtATime'
    BY <1>7 DEF Inv, OneWorkerAtATime
  <1>10. RunInHand'
    BY <1>1, <1>3 DEF Inv, TypeOK, RunInHand
  <1> QED
    BY <1>6, <1>8, <1>9, <1>10 DEF Inv

LEMMA NextInv == Inv /\ [Next]_vars => Inv'
  <1> SUFFICES ASSUME Inv, [Next]_vars PROVE Inv'
    OBVIOUS
  <1>1. CASE UNCHANGED vars
    BY <1>1 DEF vars, rowVars, sideVars, Inv, TypeOK, LockHeld, OneWorkerAtATime,
                RunInHand, Works
  <1>2. ASSUME NEW d \in Deliveries,
               \/ WorkerStep(d) \/ FailRun(d) \/ Crash(d) \/ LoseMessage(d)
               \/ \E e \in Deliveries : Duplicate(d, e)
        PROVE  Inv'
    <2>1. CASE TakeLock(d)
      BY <2>1, TakeLockStep
    <2>2. CASE ReadToken(d)
      <3>1. Goto(d, "deleting") \/ Return(d)
        BY <2>2 DEF ReadToken
      <3> QED
        BY <2>2, <3>1, WorkSteps, MessageSteps
    <2>3. CASE \/ Receive(d) \/ Contend(d) \/ DeleteLock(d) \/ Crash(d)
               \/ LoseMessage(d) \/ \E e \in Deliveries : Duplicate(d, e)
      BY <2>3, MessageSteps
    <2>4. CASE \/ Claim(d) \/ ClaimNothing(d) \/ Preinvalidate(d)
               \/ CommitVisibility(d) \/ RejectScope(d) \/ CommitPermissions(d)
               \/ SavePermissionRun(d) \/ FailRun(d) \/ Requeue(d) \/ GiveUp(d)
      BY <2>4, WorkSteps
    <2> QED
      BY <1>2, <2>1, <2>2, <2>3, <2>4 DEF WorkerStep
  <1>3. CASE \/ \E r \in Runs : BeatRedispatches(r) \/ PostRedispatches(r) \/ Sweep(r)
             \/ BeatReads \/ BeatCreates \/ PostCreates \/ Reconnect
    BY <1>3, OtherSteps
  <1>4. CASE Tick
    BY <1>4, TickStep
  <1> QED
    BY <1>1, <1>2, <1>3, <1>4 DEF Next

LEMMA SpecInv == Spec => []Inv
  BY InitInv, NextInv, PTL DEF Spec

-----------------------------------------------------------------------------
(* Theorems.                                                               *)

\* Every reachable state is well typed: retries stay within their budget,
\* and a message always names a run.
THEOREM TypeCorrect == Spec => []TypeOK
  <1>1. Inv => TypeOK
    BY DEF Inv
  <1> QED
    BY <1>1, SpecInv, PTL

\* The cache lock admits one worker at a time, whatever is duplicated,
\* redelivered or left behind, if an execution is shorter than the timeout.
THEOREM OneWorker == Spec => []OneWorkerAtATime
  <1>1. Inv => OneWorkerAtATime
    BY DEF Inv
  <1> QED
    BY <1>1, SpecInv, PTL

\* A successful run stays successful.
THEOREM SuccessFinal == Spec => SuccessIsFinal
  <1>1. ASSUME Inv, [Next]_vars
        PROVE  [\A r \in Runs : run[r].status = "succeeded" =>
                   run'[r].status = "succeeded" \/ Created(r)]_vars
    <2> SUFFICES ASSUME Next, NEW r \in Runs, run[r].status = "succeeded",
                        run'[r] # run[r]
                 PROVE  run'[r].status = "succeeded" \/ Created(r)
      BY <1>1
    <2>0. /\ run \in [Runs -> RunRows]
          /\ \A d \in Deliveries : Works(d) => delivery[d].run \in Runs
          /\ RunInHand
      BY <1>1 DEF Inv, TypeOK, Works, Executing
    \* A status of another kind is given to runs that did not succeed.
    <2>1. ASSUME NEW q \in Runs, NEW status, SetStatus(q, status),
                 run[q].status # "succeeded" \/ status = "succeeded"
          PROVE  run'[r].status = "succeeded"
      BY <2>0, <2>1 DEF SetStatus, RunRows
    <2>2. ASSUME NEW d \in Deliveries, WorkerStep(d) \/ FailRun(d)
          PROVE  run'[r].status = "succeeded"
      <3>1. CASE Works(d)
        <4>1. delivery[d].run \in Runs
          BY <2>0, <3>1
        <4>2. CASE Claim(d)
          BY <2>1, <4>1, <4>2 DEF Claim
        <4>3. CASE CommitVisibility(d) \/ SavePermissionRun(d)
          BY <2>1, <4>1, <4>3 DEF CommitVisibility, SavePermissionRun
        <4>4. CASE RejectScope(d) \/ FailRun(d)
          <5>1. run[delivery[d].run].status \in {"running", "failed"}
            BY <2>0, <4>4 DEF RunInHand, RejectScope, FailRun
          <5> QED
            BY <2>1, <4>1, <4>4, <5>1 DEF RejectScope, FailRun, MarkFailed
        <4>5. CASE Requeue(d)
          <5>1. run[delivery[d].run].status = "failed"
            BY <2>0, <4>5 DEF RunInHand, Requeue
          <5> QED
            BY <2>1, <4>1, <4>5, <5>1 DEF Requeue
        <4>6. CASE UNCHANGED run
          BY <4>6
        <4> QED
          BY <2>2, <4>2, <4>3, <4>4, <4>5, <4>6
          DEF WorkerStep, Receive, TakeLock, Contend, ClaimNothing, Preinvalidate,
              CommitPermissions, GiveUp, ReadToken, DeleteLock, rowVars
      <3>2. CASE ~ Works(d)
        BY <2>2, <3>2
        DEF WorkerStep, Works, Executing, Receive, TakeLock, Contend, Claim,
            ClaimNothing, Preinvalidate, CommitVisibility, RejectScope,
            CommitPermissions, SavePermissionRun, FailRun, Requeue, GiveUp,
            ReadToken, DeleteLock, rowVars
      <3> QED
        BY <3>1, <3>2
    <2>3. ASSUME NEW g, Create(g) PROVE Created(r)
      <3>1. PICK q \in Runs : Reusable(q) /\ run' = [run EXCEPT ![q] = QueuedRow(g)]
        BY <2>3 DEF Create
      <3> QED
        BY <2>0, <3>1 DEF Created, QueuedRow
    <2>4. CASE BeatCreates \/ PostCreates
      BY <2>3, <2>4 DEF BeatCreates, PostCreates
    <2>5. ASSUME NEW q \in Runs, Sweep(q) PROVE run'[r].status = "succeeded"
      BY <2>1, <2>5 DEF Sweep, Sweepable
    <2>6. CASE Tick
      BY <2>0, <2>6 DEF Tick, RunRows
    <2>7. CASE UNCHANGED run
      BY <2>7
    <2> QED
      BY <2>2, <2>4, <2>5, <2>6, <2>7
      DEF Next, Crash, LoseMessage, Duplicate, BeatRedispatches, PostRedispatches,
          BeatReads, Reconnect, rowVars
  <1> QED
    BY <1>1, SpecInv, PTL DEF Spec, SuccessIsFinal

=============================================================================
