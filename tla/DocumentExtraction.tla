-------------------------- MODULE DocumentExtraction --------------------------
(***************************************************************************)
(* How one Drive document gets from a metadata sync through the Celery      *)
(* extraction task into the Neo4j graph, and when its coarse content gate   *)
(* (SourceDocument.retrieval_eligible) is open, in per-user mode.           *)
(*                                                                         *)
(* A sync lists Drive, commits one transaction, and only then dispatches    *)
(* extraction messages and stamps the enqueue time; a task marks the        *)
(* document running, extracts without a lock, writes the graph under the    *)
(* document's row lock, records its outcome and opens the gate, each in a   *)
(* statement of its own that names the content hash the message carried.    *)
(*                                                                         *)
(* Abstractions: a content hash is a number, 0 for none; a Drive file's     *)
(* modification time is the number of its edits; an enqueue or start time   *)
(* is recent until it passes the corresponding timeout; attempts count up   *)
(* to the budget, beyond which the code treats all values alike.            *)
(***************************************************************************)
EXTENDS Naturals

CONSTANTS
    Messages,     \* slots for extraction messages in the broker or a worker
    Syncs,        \* run_drive_sync executions at a time
    Unreadable,   \* content hashes whose bytes cannot be decoded to text
    Reverts,      \* may an edit restore earlier content?
    MaxAttempts,  \* GRAPH_EXTRACTION_MAX_SYNC_ATTEMPTS
    MaxRetries,   \* max_retries of queue_document_extraction
    MaxEdits,     \* bound on the edits of the Drive file
    MaxFaults     \* bound on crashes, lost messages and operator commands

ASSUME ExtractionAssumption ==
    /\ Unreadable \subseteq Nat \ {0}
    /\ Reverts \in BOOLEAN
    /\ MaxAttempts \in Nat \ {0}
    /\ MaxRetries \in Nat /\ MaxEdits \in Nat /\ MaxFaults \in Nat

VARIABLES
    drive,     \* the file in Google Drive: is it in scope, its edits, its content
    document,  \* its SourceDocument row and stored content
    graph,     \* the content hash of its chunks in Neo4j
    message,   \* the extraction messages and the tasks executing them
    sync,      \* the drive syncs in progress
    faults     \* crashes, losses and operator commands so far

vars == <<drive, document, graph, message, sync, faults>>

Scopes == {"inactive", "excluded", "supported"}

Free == [step |-> "free", hash |-> 0, retries |-> 0]
Idle == [step |-> "idle", scope |-> "inactive", modified |-> 0, candidate |-> 0]

Statuses == {"pending", "running", "succeeded", "failed", "skipped"}

DocumentRows ==
    [scope : Scopes, gate : BOOLEAN, modified : Nat, hash : Nat,
     status : Statuses, attempts : 0..MaxAttempts,
     queued : {"never", "recent", "old"}, started : {"recent", "old"}]
MessageRows ==
    [step : {"free", "waiting", "extracting", "written", "succeeded"},
     hash : Nat, retries : 0..MaxRetries]
SyncRows ==
    [step : {"idle", "listed", "dispatching", "stamping"},
     scope : Scopes, modified : Nat, candidate : Nat]

TypeOK ==
    /\ drive \in [scope : Scopes, modified : Nat, hash : Nat]
    /\ document \in DocumentRows
    /\ graph \in Nat
    /\ message \in [Messages -> MessageRows]
    /\ sync \in [Syncs -> SyncRows]
    /\ faults \in 0..MaxFaults

Init ==
    /\ drive = [scope |-> "supported", modified |-> 1, hash |-> 1]
    /\ document = [scope |-> "inactive", gate |-> FALSE, modified |-> 0,
                   hash |-> 0, status |-> "pending", attempts |-> 0,
                   queued |-> "never", started |-> "recent"]
    /\ graph = 0
    /\ message = [m \in Messages |-> Free]
    /\ sync = [s \in Syncs |-> Idle]
    /\ faults = 0

-----------------------------------------------------------------------------
(* Google Drive, the operator and the passage of time.                     *)

Fault == faults < MaxFaults /\ faults' = faults + 1

\* Somebody edits the file, possibly back to what it was.
Edit ==
    /\ drive.modified < MaxEdits
    /\ \E h \in IF Reverts THEN 1..(drive.modified + 1) ELSE {drive.modified + 1} :
          drive' = [drive EXCEPT !.modified = @ + 1, !.hash = h]
    /\ UNCHANGED <<document, graph, message, sync, faults>>

\* The file leaves the selected root, loses support or comes back.
Rescope ==
    /\ Fault
    /\ \E scope \in Scopes \ {drive.scope} : drive' = [drive EXCEPT !.scope = scope]
    /\ UNCHANGED <<document, graph, message, sync>>

\* Selecting another Drive root closes the gate of every document.
SelectRoot ==
    /\ Fault
    /\ document' = [document EXCEPT !.gate = FALSE]
    /\ UNCHANGED <<drive, graph, message, sync>>

QueueAges ==
    /\ document.queued = "recent"
    /\ document' = [document EXCEPT !.queued = "old"]
    /\ UNCHANGED <<drive, graph, message, sync, faults>>

StartAges ==
    /\ document.status = "running" /\ document.started = "recent"
    /\ document' = [document EXCEPT !.started = "old"]
    /\ UNCHANGED <<drive, graph, message, sync, faults>>

-----------------------------------------------------------------------------
(* A drive sync.                                                           *)

\* list_files runs before the transaction: what it returns may grow stale.
ListFiles(s) ==
    /\ sync[s].step = "idle"
    /\ sync' = [sync EXCEPT ![s] =
           [step |-> "listed", scope |-> drive.scope,
            modified |-> drive.modified, candidate |-> 0]]
    /\ UNCHANGED <<drive, document, graph, message, faults>>

NeedsContentRefresh(listed) ==
    document.modified # listed.modified \/ document.hash = 0

\* Mutant: a failed extraction is never handed back to the sync.
ExtractionNeedsRequeueOnlyPending ==
    document.status = "pending" /\ document.queued # "recent"

\* Recover what failed within its budget or was queued long ago and lost.
ExtractionNeedsRequeue ==
    \/ document.status = "failed" /\ document.attempts < MaxAttempts
    \/ document.status = "pending" /\ document.queued # "recent"

\* The metadata part of the row; per-user mode preserves no verification.
ListedRow(listed) ==
    [document EXCEPT !.scope = listed.scope, !.gate = FALSE,
                     !.modified = listed.modified]

Candidate(s, hash) ==
    sync' = [sync EXCEPT ![s] = IF hash = 0 THEN Idle
                                ELSE [@ EXCEPT !.step = "dispatching",
                                               !.candidate = hash]]

\* The file was listed with new content: export and store it.
CommitRefresh(s) ==
    /\ sync[s].step = "listed" /\ sync[s].scope = "supported"
    /\ NeedsContentRefresh(sync[s]) /\ drive.scope # "inactive"
    /\ document' = [ListedRow(sync[s]) EXCEPT
           !.hash = drive.hash, !.status = "pending", !.attempts = 0,
           !.started = "recent"]
    /\ Candidate(s, drive.hash)
    /\ UNCHANGED <<drive, graph, message, faults>>

\* The file was listed unchanged: only an unfinished extraction is requeued.
CommitUnchanged(s) ==
    /\ sync[s].step = "listed" /\ sync[s].scope = "supported"
    /\ ~ NeedsContentRefresh(sync[s])
    /\ document' = ListedRow(sync[s])
    /\ Candidate(s, IF ExtractionNeedsRequeue THEN document.hash ELSE 0)
    /\ UNCHANGED <<drive, graph, message, faults>>

\* The file is gone by the time it is exported: the whole sync fails.
ExportFails(s) ==
    /\ sync[s].step = "listed" /\ sync[s].scope = "supported"
    /\ NeedsContentRefresh(sync[s]) /\ drive.scope = "inactive"
    /\ sync' = [sync EXCEPT ![s] = Idle]
    /\ UNCHANGED <<drive, document, graph, message, faults>>

CommitExcluded(s) ==
    /\ sync[s].step = "listed" /\ sync[s].scope = "excluded"
    /\ document' = ListedRow(sync[s])
    /\ Candidate(s, 0)
    /\ UNCHANGED <<drive, graph, message, faults>>

\* Not listed: the row leaves the scope and keeps what else it held.
CommitMissing(s) ==
    /\ sync[s].step = "listed" /\ sync[s].scope = "inactive"
    /\ document' = [document EXCEPT !.scope = "inactive", !.gate = FALSE]
    /\ Candidate(s, 0)
    /\ UNCHANGED <<drive, graph, message, faults>>

Enqueue(hash) ==
    \E m \in Messages :
        /\ message[m] = Free
        /\ message' = [message EXCEPT ![m] =
               [step |-> "waiting", hash |-> hash, retries |-> 0]]

Dispatch(s) ==
    /\ sync[s].step = "dispatching"
    /\ Enqueue(sync[s].candidate)
    /\ sync' = [sync EXCEPT ![s].step = "stamping"]
    /\ UNCHANGED <<drive, document, graph, faults>>

Stamp(s) ==
    /\ sync[s].step = "stamping"
    /\ document' = [document EXCEPT !.queued = "recent"]
    /\ sync' = [sync EXCEPT ![s] = Idle]
    /\ UNCHANGED <<drive, graph, message, faults>>

\* Drive, the database or the broker fails, or the worker is lost.
SyncFails(s) ==
    /\ sync[s].step # "idle" /\ Fault
    /\ sync' = [sync EXCEPT ![s] = Idle]
    /\ UNCHANGED <<drive, document, graph, message>>

-----------------------------------------------------------------------------
(* queue_document_extraction and extract_document_to_graph.                *)

Current(m) == document.hash = message[m].hash

Release(m) == message' = [message EXCEPT ![m] = Free]

StartedRow == [document EXCEPT !.status = "running", !.started = "recent"]

FailedRow == [document EXCEPT !.status = "failed",
                 !.attempts = IF @ < MaxAttempts THEN @ + 1 ELSE @]

Start(m) ==
    /\ message[m].step = "waiting" /\ Current(m)
    /\ document' = StartedRow
    /\ message' = [message EXCEPT ![m].step = "extracting"]
    /\ UNCHANGED <<drive, graph, sync, faults>>

\* The content changed: whatever the task wanted to record no longer applies.
SkipStale(m) ==
    /\ message[m].step # "free" /\ ~ Current(m)
    /\ Release(m)
    /\ UNCHANGED <<drive, document, graph, sync, faults>>

SkipUnreadable(m) ==
    /\ message[m].step = "extracting" /\ Current(m)
    /\ message[m].hash \in Unreadable
    /\ document' = [document EXCEPT !.status = "skipped"]
    /\ Release(m)
    /\ UNCHANGED <<drive, graph, sync, faults>>

\* Mutant: the version check before the graph replacement is dropped.
MayWriteAnyVersion(m) == message[m].step = "extracting"

\* The version check under the row lock, just before the graph replacement.
MayWrite(m) == message[m].step = "extracting" /\ Current(m)

WriteGraph(m) ==
    /\ MayWrite(m)
    /\ message[m].hash \notin Unreadable
    /\ graph' = message[m].hash
    /\ message' = [message EXCEPT ![m].step = "written"]
    /\ UNCHANGED <<drive, document, sync, faults>>

\* Mutant: a transient failure is always retried.
MayRetryAlways(m) == message[m].step = "extracting"

MayRetry(m) == message[m].step = "extracting" /\ message[m].retries < MaxRetries

\* A transient failure: the row stays running while the retry is scheduled.
RetryLater(m) ==
    /\ MayRetry(m) /\ Current(m)
    /\ message' = [message EXCEPT ![m].step = "waiting", ![m].retries = @ + 1]
    /\ UNCHANGED <<drive, document, graph, sync, faults>>

\* A permanent failure, or a transient one with no retry left.
Fail(m) ==
    /\ message[m].step = "extracting" /\ Current(m)
    /\ document' = FailedRow
    /\ Release(m)
    /\ UNCHANGED <<drive, graph, sync, faults>>

MarkSucceeded(m) ==
    /\ message[m].step = "written" /\ Current(m)
    /\ document' = [document EXCEPT !.status = "succeeded"]
    /\ message' = [message EXCEPT ![m].step = "succeeded"]
    /\ UNCHANGED <<drive, graph, sync, faults>>

ContentReady(m) ==
    /\ Current(m) /\ document.scope = "supported"
    /\ document.status = "succeeded"

\* _mark_per_user_content_ready: one conditional update, then the task ends.
MarkReady(m) ==
    /\ message[m].step = "succeeded"
    /\ document' = [document EXCEPT !.gate = @ \/ ContentReady(m)]
    /\ Release(m)
    /\ UNCHANGED <<drive, graph, sync, faults>>

\* The worker is lost: the broker redelivers, unless it lost the message too.
Crash(m) ==
    /\ message[m].step # "free" /\ Fault
    /\ \/ message' = [message EXCEPT ![m].step = "waiting"]
       \/ Release(m)
    /\ UNCHANGED <<drive, document, graph, sync>>

\* sweep_stale_graph_extractions: a run past its timeout is failed.
Sweep ==
    /\ document.status = "running" /\ document.started = "old"
    /\ document' = FailedRow
    /\ UNCHANGED <<drive, graph, message, sync, faults>>

\* graph_reindex_embeddings, run by an operator.
Reindex ==
    /\ document.hash # 0 /\ document.status # "running" /\ Fault
    /\ document' = [document EXCEPT !.status = "pending", !.attempts = 0,
                                    !.queued = "recent", !.started = "recent"]
    /\ Enqueue(document.hash)
    /\ UNCHANGED <<drive, graph, sync>>

-----------------------------------------------------------------------------
Environment == Edit \/ Rescope \/ SelectRoot \/ Reindex

SyncStep(s) ==
    \/ CommitRefresh(s) \/ CommitUnchanged(s) \/ CommitExcluded(s)
    \/ ExportFails(s) \/ CommitMissing(s) \/ Dispatch(s) \/ Stamp(s)

TaskStep(m) ==
    \/ Start(m) \/ SkipStale(m) \/ SkipUnreadable(m) \/ WriteGraph(m)
    \/ RetryLater(m) \/ Fail(m) \/ MarkSucceeded(m) \/ MarkReady(m)

Next ==
    \/ Environment
    \/ QueueAges \/ StartAges \/ Sweep
    \/ \E s \in Syncs : ListFiles(s) \/ SyncStep(s) \/ SyncFails(s)
    \/ \E m \in Messages : TaskStep(m) \/ Crash(m)

Spec == Init /\ [][Next]_vars

\* Workers execute what they received, time passes and beat runs the sweeper.
\* Nothing obliges anybody to edit, to trigger a sync or to fail.
Fairness ==
    /\ \A s \in Syncs : WF_vars(SyncStep(s))
    /\ \A m \in Messages : WF_vars(TaskStep(m))
    /\ WF_vars(QueueAges) /\ WF_vars(StartAges) /\ WF_vars(Sweep)

FairSpec == Spec /\ Fairness

-----------------------------------------------------------------------------
(* Properties.                                                             *)

\* An open gate vouches for the graph: the chunks in Neo4j were extracted
\* from the content stored now, whatever edits, duplicate deliveries, crashes
\* and overlapping syncs came in between (_mark_per_user_content_ready, the
\* expected_content_hash filter and the locked version check of the pipeline).
GateHasProvenance ==
    document.gate => graph = document.hash /\ document.scope = "supported"

Settled ==
    \/ document.scope # "supported"
    \/ document.status \in {"succeeded", "skipped"}
    \/ document.status = "failed" /\ document.attempts = MaxAttempts

\* No crash or lost message strands an extraction: as long as somebody keeps
\* triggering syncs, a document in scope ends up extracted, skipped or out of
\* its retry budget (_extraction_needs_requeue with the stale sweeper).
ExtractionSettles ==
    ([]<>(\E s \in Syncs : sync[s].step = "listed")) => <>[]Settled

\* A document that was extracted successfully, and stays so, gets its gate
\* open ("successful graph extraction marks the coarse document-content gate
\* ready").
ExtractedDocumentBecomesReady ==
    [](document.status = "succeeded" /\ document.scope = "supported"
       => <>(\/ document.gate
             \/ document.status # "succeeded"
             \/ document.scope # "supported"))

\* Once a sync has seen the file as it is now, the stored content is the file's
\* content: a content change is picked up by the sync that records its
\* modification time (_needs_content_refresh).
SyncedRowHasCurrentContent ==
    document.scope = "supported" /\ document.modified = drive.modified
    => document.hash = drive.hash

=============================================================================
