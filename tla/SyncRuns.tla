------------------------------- MODULE SyncRuns -------------------------------
(***************************************************************************)
(* The life of the runs that keep permission evidence alive: how task       *)
(* messages, the cache lock with its time to live, retries, the beat         *)
(* schedule, manual requests and the sweeper move run rows, and what a lost  *)
(* worker, message or web process leaves behind.                             *)
(*                                                                         *)
(* One module for two tasks of the same build: run_permission_sync on the    *)
(* runs of a connection, and run_user_visibility_sync on the runs of an      *)
(* authorization, which withholds evidence before it asks and refuses runs   *)
(* of an earlier generation.  What a run does to documents and relationships *)
(* is the subject of DelegatedPermissionSync and UserVisibility; here it is   *)
(* evidence going from withheld to fresh.                                    *)
(*                                                                         *)
(* Time passes in ticks, and a retry countdown (a few seconds) is below one.  *)
(* An execution lasts at most WorkLimit, as the comment at the lock requires. *)
(***************************************************************************)
EXTENDS Naturals, FiniteSets

CONSTANTS
    Runs,          \* run rows of one connection or authorization
    Deliveries,    \* messages, in the broker or in a worker's hands
    NoRun,         \* no run: a free lock, an unused delivery
    MaxRetries,    \* max_retries of the task
    StaleTimeout,  \* STALE_RUN_TIMEOUT_MINUTES: sweeper's cutoff, lock's life
    WorkLimit,     \* the longest an execution holds the lock
    MaxFaults,     \* bound on failures, losses and duplicated messages
    MaxRequests    \* bound on what users and operators do

ASSUME RunsAssumption ==
    /\ NoRun \notin Runs
    /\ MaxRetries \in Nat /\ StaleTimeout \in Nat /\ WorkLimit \in Nat
    /\ WorkLimit < StaleTimeout
    /\ MaxFaults \in Nat /\ MaxRequests \in Nat

VARIABLES
    kind,        \* which of the two tasks
    generation,  \* generation of the connection and its authorization
    run,         \* the run rows; age is the time since started_at
    lock,        \* the cache entry: its token names a run
    delivery,    \* the messages; age is the time since the lock was taken
    beat,        \* the scheduler between reading the runs and creating one
    fresh,       \* evidence was verified since time last passed
    faults,      \* failures so far
    requests     \* requests of users and operators so far

rowVars == <<run, fresh>>
sideVars == <<beat, requests>>
vars == <<kind, generation, rowVars, lock, delivery, sideVars, faults>>

Kinds == {"permission", "visibility"}

\* Steps of a worker that holds the lock, in the order of the code.
Executing == {"locked", "claimed", "verifying", "committed", "failed",
              "releasing", "deleting"}

NoDelivery == [step |-> "none", run |-> NoRun, retries |-> 0, age |-> 0,
               again |-> FALSE]
FreeLock == [token |-> NoRun, age |-> 0]
QueuedRow(g) == [status |-> "queued", age |-> 0, gen |-> g]

RunRows == [status : {"unused", "queued", "running", "succeeded", "failed"},
            age : 0 .. StaleTimeout + 1, gen : Nat]
DeliveryRows == [step : Executing \cup {"none", "sent", "checked"},
                 run : Runs \cup {NoRun}, retries : 0 .. MaxRetries,
                 age : 0 .. WorkLimit, again : BOOLEAN]

TypeOK ==
    /\ kind \in Kinds
    /\ generation \in Nat
    /\ run \in [Runs -> RunRows]
    /\ lock \in [token : Runs \cup {NoRun}, age : 0 .. StaleTimeout]
    /\ delivery \in [Deliveries -> DeliveryRows]
    /\ \A d \in Deliveries :
           /\ delivery[d].step # "none" => delivery[d].run \in Runs
           /\ delivery[d].again => delivery[d].retries < MaxRetries
    /\ beat \in [step : {"idle", "creating"}, gen : Nat]
    /\ fresh \in BOOLEAN
    /\ faults \in 0 .. MaxFaults
    /\ requests \in 0 .. MaxRequests

Init ==
    /\ kind \in Kinds
    /\ generation = 1
    /\ run = [r \in Runs |-> [status |-> "unused", age |-> 0, gen |-> 0]]
    /\ lock = FreeLock
    /\ delivery = [d \in Deliveries |-> NoDelivery]
    /\ beat = [step |-> "idle", gen |-> 0]
    /\ fresh = FALSE
    /\ faults = 0
    /\ requests = 0

-----------------------------------------------------------------------------
HasStatus(status) == {r \in Runs : run[r].status = status}

Unfinished(r) == run[r].status \in {"queued", "running"}

Works(d) == delivery[d].step \in Executing

\* started_at is read while a run is running, and set by the next claim.
SetStatus(r, status) ==
    run' = [run EXCEPT ![r].status = status, ![r].age = 0]

Goto(d, step) == delivery' = [delivery EXCEPT ![d].step = step]

\* What can go wrong does so only MaxFaults times.
Fault == faults < MaxFaults /\ faults' = faults + 1

\* A user or an operator asks for something, at most MaxRequests times.
Request == requests < MaxRequests /\ requests' = requests + 1

\* The message is acknowledged: nobody will handle it again.
Done(d) == delivery' = [delivery EXCEPT ![d] = NoDelivery]

\* A message about a run, on its way to a worker.
Message(r, retries) == [step |-> "sent", run |-> r, retries |-> retries,
                        age |-> 0, again |-> FALSE]

\* Celery publishes the message again with one more retry.
SentAgain(d) == Message(delivery[d].run, delivery[d].retries + 1)

\* Mutant: the budget of retries is not looked at.
RetryAlways(d) == delivery' = [delivery EXCEPT ![d] = SentAgain(d)]

\* max_retries spent: self.retry raises and the message is gone.
Retry(d) == IF delivery[d].retries < MaxRetries
            THEN delivery' = [delivery EXCEPT ![d] = SentAgain(d)]
            ELSE Done(d)

-----------------------------------------------------------------------------
(* A worker handling a message: run_permission_sync,                        *)
(* run_user_visibility_sync.                                                *)

\* The status is checked before the lock is asked for.
Receive(d) ==
    /\ delivery[d].step = "sent"
    /\ IF Unfinished(delivery[d].run) THEN Goto(d, "checked") ELSE Done(d)
    /\ UNCHANGED <<kind, generation, rowVars, lock, sideVars, faults>>

TakeLock(d) ==
    /\ delivery[d].step = "checked" /\ lock.token = NoRun
    /\ lock' = [token |-> delivery[d].run, age |-> 0]
    /\ delivery' = [delivery EXCEPT ![d].step = "locked", ![d].age = 0]
    /\ UNCHANGED <<kind, generation, rowVars, sideVars, faults>>

\* Somebody holds the lock, or a lost worker left it behind.
Contend(d) ==
    /\ delivery[d].step = "checked" /\ lock.token # NoRun
    /\ Retry(d)
    /\ UNCHANGED <<kind, generation, rowVars, lock, sideVars, faults>>

\* Mutant: the status read before the lock decides.
MayExecuteUnread(r) == TRUE

\* After the lock the row is read again.
MayExecute(r) == Unfinished(r)

\* A queued run starts, a running one (its message came again) goes on.
Claim(d) ==
    LET r == delivery[d].run IN
    /\ delivery[d].step = "locked" /\ MayExecute(r)
    /\ IF run[r].status = "queued" THEN SetStatus(r, "running")
       ELSE UNCHANGED run
    /\ Goto(d, IF kind = "visibility" THEN "claimed" ELSE "verifying")
    /\ UNCHANGED <<kind, generation, fresh, lock, sideVars, faults>>

\* The run ended while this delivery waited for the lock.
ClaimNothing(d) ==
    /\ delivery[d].step = "locked" /\ ~ MayExecute(delivery[d].run)
    /\ Goto(d, "releasing")
    /\ UNCHANGED <<kind, generation, rowVars, lock, sideVars, faults>>

\* A visibility run denies first, whatever generation it was created for.
Preinvalidate(d) ==
    /\ delivery[d].step = "claimed"
    /\ fresh' = FALSE
    /\ Goto(d, "verifying")
    /\ UNCHANGED <<kind, generation, run, lock, sideVars, faults>>

ScopeHolds(d) == run[delivery[d].run].gen = generation

\* One transaction commits the evidence and the run.
CommitVisibility(d) ==
    /\ kind = "visibility" /\ delivery[d].step = "verifying" /\ ScopeHolds(d)
    /\ fresh' = TRUE
    /\ SetStatus(delivery[d].run, "succeeded")
    /\ Goto(d, "releasing")
    /\ UNCHANGED <<kind, generation, lock, sideVars, faults>>

\* _mark_failed: a run that already ended keeps its status.
MarkFailed(r) == IF Unfinished(r) THEN SetStatus(r, "failed") ELSE UNCHANGED run

\* The user reconnected since the run was created: refused and not retried.
RejectScope(d) ==
    /\ kind = "visibility" /\ delivery[d].step = "verifying" /\ ~ ScopeHolds(d)
    /\ MarkFailed(delivery[d].run)
    /\ Goto(d, "releasing")
    /\ UNCHANGED <<kind, generation, fresh, lock, sideVars, faults>>

\* A permission run commits its documents first ...
CommitPermissions(d) ==
    /\ kind = "permission" /\ delivery[d].step = "verifying"
    /\ fresh' = TRUE
    /\ Goto(d, "committed")
    /\ UNCHANGED <<kind, generation, run, lock, sideVars, faults>>

\* ... and saves its own row last, whatever happened to it meanwhile.
SavePermissionRun(d) ==
    /\ delivery[d].step = "committed"
    /\ SetStatus(delivery[d].run, "succeeded")
    /\ Goto(d, "releasing")
    /\ UNCHANGED <<kind, generation, fresh, lock, sideVars, faults>>

\* Google, SpiceDB or a validation fails; retryable errors reach the task.
FailRun(d) ==
    /\ Fault
    /\ delivery[d].step \in {"claimed", "verifying"}
    /\ IF kind = "visibility" THEN MarkFailed(delivery[d].run)
                              ELSE SetStatus(delivery[d].run, "failed")
    /\ \E step \in {"failed", "releasing"} : Goto(d, step)
    /\ UNCHANGED <<kind, generation, fresh, lock, sideVars>>

\* The task puts the run back, whatever its status, and asks for a retry.
Requeue(d) ==
    /\ delivery[d].step = "failed" /\ delivery[d].retries < MaxRetries
    /\ SetStatus(delivery[d].run, "queued")
    /\ delivery' = [delivery EXCEPT ![d].step = "releasing", ![d].again = TRUE]
    /\ UNCHANGED <<kind, generation, fresh, lock, sideVars, faults>>

GiveUp(d) ==
    /\ delivery[d].step = "failed" /\ delivery[d].retries >= MaxRetries
    /\ Goto(d, "releasing")
    /\ UNCHANGED <<kind, generation, rowVars, lock, sideVars, faults>>

\* The handler returns; the retry it asked for is in the broker.
Return(d) == IF delivery[d].again THEN Retry(d) ELSE Done(d)

\* finally: the token is read in one call ...
ReadToken(d) ==
    /\ delivery[d].step = "releasing"
    /\ IF lock.token = delivery[d].run THEN Goto(d, "deleting") ELSE Return(d)
    /\ UNCHANGED <<kind, generation, rowVars, lock, sideVars, faults>>

\* ... and whatever is there deleted in the next.
DeleteLock(d) ==
    /\ delivery[d].step = "deleting"
    /\ lock' = FreeLock
    /\ Return(d)
    /\ UNCHANGED <<kind, generation, rowVars, sideVars, faults>>

-----------------------------------------------------------------------------
(* Faults of workers and broker.                                           *)

\* The worker is lost.  The lock stays; the broker may hand the message out
\* again, at once or after an outage.
Crash(d) ==
    /\ Fault
    /\ delivery[d].step \in Executing \cup {"checked"}
    /\ \/ Done(d)
       \/ delivery' = [delivery EXCEPT ![d] =
              IF delivery[d].again THEN SentAgain(d)
              ELSE Message(delivery[d].run, delivery[d].retries)]
    /\ UNCHANGED <<kind, generation, rowVars, lock, sideVars>>

LoseMessage(d) ==
    /\ Fault
    /\ delivery[d].step = "sent" /\ Done(d)
    /\ UNCHANGED <<kind, generation, rowVars, lock, sideVars>>

\* A message not acknowledged in time is handed to a second worker.
Duplicate(d, e) ==
    /\ Fault
    /\ delivery[d].step # "none" /\ delivery[e].step = "none"
    /\ delivery' = [delivery EXCEPT ![e] =
           Message(delivery[d].run, delivery[d].retries)]
    /\ UNCHANGED <<kind, generation, rowVars, lock, sideVars>>

-----------------------------------------------------------------------------
(* Beat, requests and the sweeper.                                         *)

\* Ended run rows nobody refers to any more stand for new ones.
Reusable(r) ==
    /\ ~ Unfinished(r) /\ lock.token # r
    /\ \A d \in Deliveries : delivery[d].run # r

Send(r) == \E d \in Deliveries :
    /\ delivery[d].step = "none"
    /\ delivery' = [delivery EXCEPT ![d] = Message(r, 0)]

\* The row is saved and then its message sent, unless the process dies.
Create(g) ==
    /\ \E r \in Runs :
          /\ Reusable(r)
          /\ run' = [run EXCEPT ![r] = QueuedRow(g)]
          /\ \/ Send(r) /\ UNCHANGED faults
             \/ Fault /\ UNCHANGED delivery
    /\ UNCHANGED <<kind, fresh, lock>>

\* Mutant: a queued run blocks the schedule as a running one does.
MayRedispatchNever(r) == FALSE

\* A running run keeps the scheduler away, a queued one does not.
MayRedispatch(r) == HasStatus("running") = {} /\ r \in HasStatus("queued")

\* Queued runs get another message: theirs may be gone.
BeatRedispatches(r) ==
    /\ MayRedispatch(r)
    /\ Send(r)
    /\ UNCHANGED <<kind, generation, rowVars, lock, sideVars, faults>>

\* No unfinished run: one is created, of the generation just read.
BeatReads ==
    /\ beat.step = "idle" /\ \A r \in Runs : ~ Unfinished(r)
    /\ beat' = [step |-> "creating", gen |-> generation]
    /\ UNCHANGED <<kind, generation, rowVars, lock, delivery, requests, faults>>

BeatCreates ==
    /\ beat.step = "creating"
    /\ Create(beat.gen)
    /\ beat' = [step |-> "idle", gen |-> 0]
    /\ UNCHANGED <<generation, requests>>

\* PermissionSyncView.post always creates; queue_user_visibility_sync leaves
\* a running run alone, and sends a queued one again without looking at its
\* generation.
PostCreates ==
    /\ Request
    /\ kind = "visibility" => \A r \in Runs : ~ Unfinished(r)
    /\ Create(generation)
    /\ UNCHANGED <<generation, beat>>

PostRedispatches(r) ==
    /\ kind = "visibility" /\ Request
    /\ HasStatus("running") = {} /\ r \in HasStatus("queued")
    /\ Send(r)
    /\ UNCHANGED <<kind, generation, rowVars, lock, beat, faults>>

\* Mutant: only one of the two sweepers is in the beat schedule.
SweepablePermission(r) == /\ kind = "permission" /\ run[r].status = "running"
                          /\ run[r].age > StaleTimeout

Sweepable(r) == run[r].status = "running" /\ run[r].age > StaleTimeout

Sweep(r) ==
    /\ Sweepable(r)
    /\ SetStatus(r, "failed")
    /\ fresh' = (fresh /\ kind = "permission")
    /\ UNCHANGED <<kind, generation, lock, delivery, sideVars, faults>>

\* The user connects again, or the authority changes to and fro.
Reconnect ==
    /\ kind = "visibility" /\ Request
    /\ generation' = generation + 1
    /\ fresh' = FALSE
    /\ UNCHANGED <<kind, run, lock, delivery, beat, faults>>

-----------------------------------------------------------------------------
(* Time.                                                                   *)

\* Mutant: a fixed time to live, shorter than an execution.
LockExpiresEarly(age) == age >= WorkLimit

\* The lock lives as long as the sweeper waits.
LockExpires(age) == age >= StaleTimeout

\* An execution does not outlast WorkLimit.
Tick ==
    /\ \A d \in Deliveries : Works(d) => delivery[d].age < WorkLimit
    /\ lock' = IF lock.token = NoRun \/ LockExpires(lock.age + 1) THEN FreeLock
               ELSE [lock EXCEPT !.age = @ + 1]
    /\ delivery' = [d \in Deliveries |->
           IF Works(d) THEN [delivery[d] EXCEPT !.age = @ + 1] ELSE delivery[d]]
    /\ run' = [r \in Runs |->
           IF run[r].status = "running" /\ run[r].age <= StaleTimeout
           THEN [run[r] EXCEPT !.age = @ + 1] ELSE run[r]]
    /\ fresh' = FALSE
    /\ UNCHANGED <<kind, generation, sideVars, faults>>

-----------------------------------------------------------------------------
WorkerStep(d) ==
    \/ Receive(d) \/ TakeLock(d) \/ Contend(d) \/ Claim(d) \/ ClaimNothing(d)
    \/ Preinvalidate(d) \/ CommitVisibility(d) \/ RejectScope(d)
    \/ CommitPermissions(d) \/ SavePermissionRun(d)
    \/ Requeue(d) \/ GiveUp(d) \/ ReadToken(d) \/ DeleteLock(d)

Next ==
    \/ \E d \in Deliveries :
           \/ WorkerStep(d) \/ FailRun(d) \/ Crash(d) \/ LoseMessage(d)
           \/ \E e \in Deliveries : Duplicate(d, e)
    \/ \E r \in Runs : BeatRedispatches(r) \/ PostRedispatches(r) \/ Sweep(r)
    \/ BeatReads \/ BeatCreates \/ PostCreates \/ Reconnect \/ Tick

Spec == Init /\ [][Next]_vars

\* Workers go on, beat runs the scheduler and the sweeper, time passes.
\* Nothing forces a failure, a request or a reconnect.
Fairness ==
    /\ \A d \in Deliveries : WF_vars(WorkerStep(d))
    /\ \A r \in Runs : WF_vars(BeatRedispatches(r)) /\ WF_vars(Sweep(r))
    /\ WF_vars(BeatReads) /\ WF_vars(BeatCreates) /\ WF_vars(Tick)

FairSpec == Spec /\ Fairness

-----------------------------------------------------------------------------
(* Properties.                                                             *)

\* At most one worker is between taking the lock and releasing it, however
\* messages are duplicated, redelivered and retried: the token names the run
\* and not the delivery, and is compared and deleted in two calls.
OneWorkerAtATime ==
    \A d, e \in Deliveries : Works(d) /\ Works(e) => d = e

\* The row of r was just made for a new run.
Created(r) == Reusable(r) /\ run'[r].status = "queued"

\* A run that succeeded stays so: a message that comes again, a retry, the
\* sweeper or a failing second worker never reopens or fails it.
SuccessIsFinal ==
    [][\A r \in Runs : run[r].status = "succeeded" =>
           run'[r].status = "succeeded" \/ Created(r)]_vars

\* Every run ends, although lost workers leave rows running, queued rows
\* lose their messages and locks stay behind.
RunsSettle == \A r \in Runs : Unfinished(r) ~> ~ Unfinished(r)

\* Evidence is renewed for ever once failures and reconnects stop.
EvidenceReturns == []<>(fresh)

=============================================================================
