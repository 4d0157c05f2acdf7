----------------------- MODULE DocumentExtraction_proofs -----------------------
(* Machine-checked proofs about DocumentExtraction, for any number of       *)
(* messages, syncs, edits and faults.                                       *)
EXTENDS DocumentExtraction, TLAPS

-----------------------------------------------------------------------------
(* Type correctness.                                                       *)

LEMMA FieldUpdates ==
    ASSUME NEW r \in DocumentRows
    PROVE  /\ \A x \in Scopes : [r EXCEPT !.scope = x] \in DocumentRows
           /\ \A x \in BOOLEAN : [r EXCEPT !.gate = x] \in DocumentRows
           /\ \A x \in Nat : [r EXCEPT !.modified = x] \in DocumentRows
           /\ \A x \in Nat : [r EXCEPT !.hash = x] \in DocumentRows
           /\ \A x \in Statuses : [r EXCEPT !.status = x] \in DocumentRows
           /\ \A x \in 0..MaxAttempts : [r EXCEPT !.attempts = x] \in DocumentRows
           /\ \A x \in {"never", "recent", "old"} :
                 [r EXCEPT !.queued = x] \in DocumentRows
           /\ \A x \in {"recent", "old"} : [r EXCEPT !.started = x] \in DocumentRows
  BY DEF DocumentRows, Statuses

\* A row put back to pending with a fresh budget.
LEMMA PendingRow ==
    ASSUME NEW r \in DocumentRows
    PROVE  [r EXCEPT !.status = "pending", !.attempts = 0, !.started = "recent"]
              \in DocumentRows
  <1> DEFINE a == [r EXCEPT !.status = "pending"]
             b == [a EXCEPT !.attempts = 0]
  <1>1. "pending" \in Statuses /\ 0 \in 0..MaxAttempts
    BY ExtractionAssumption DEF Statuses
  <1>2. a \in DocumentRows
    BY <1>1, FieldUpdates
  <1>3. b \in DocumentRows
    BY <1>1, <1>2, FieldUpdates
  <1> QED
    BY <1>3, FieldUpdates

LEMMA RowTypes ==
    ASSUME TypeOK
    PROVE  /\ Free \in MessageRows /\ Idle \in SyncRows
           /\ FailedRow \in DocumentRows /\ StartedRow \in DocumentRows
           /\ \A listed \in SyncRows : ListedRow(listed) \in DocumentRows
  <1>1. Free \in MessageRows /\ Idle \in SyncRows
    BY ExtractionAssumption DEF Free, Idle, MessageRows, SyncRows, Scopes
  <1>2. FailedRow \in DocumentRows
    <2> DEFINE a == [document EXCEPT !.status = "failed"]
               n == IF a.attempts < MaxAttempts THEN a.attempts + 1 ELSE a.attempts
    <2>1. a \in DocumentRows
      BY FieldUpdates DEF TypeOK, Statuses
    <2>2. n \in 0..MaxAttempts
      BY <2>1, ExtractionAssumption DEF DocumentRows
    <2> QED
      BY <2>1, <2>2, FieldUpdates DEF FailedRow
  <1>3. StartedRow \in DocumentRows
    <2> DEFINE a == [document EXCEPT !.status = "running"]
    <2>1. a \in DocumentRows
      BY FieldUpdates DEF TypeOK, Statuses
    <2> QED
      BY <2>1, FieldUpdates DEF StartedRow
  <1>4. ASSUME NEW listed \in SyncRows PROVE ListedRow(listed) \in DocumentRows
    <2> DEFINE a == [document EXCEPT !.scope = listed.scope]
               b == [a EXCEPT !.gate = FALSE]
    <2>1. listed.scope \in Scopes /\ listed.modified \in Nat
      BY DEF SyncRows
    <2>2. a \in DocumentRows
      BY <2>1, FieldUpdates DEF TypeOK
    <2>3. b \in DocumentRows
      BY <2>2, FieldUpdates
    <2> QED
      BY <2>1, <2>3, FieldUpdates DEF ListedRow
  <1> QED
    BY <1>1, <1>2, <1>3, <1>4

LEMMA InitType == Init => TypeOK
  BY ExtractionAssumption
  DEF Init, TypeOK, Free, Idle, Scopes, Statuses, DocumentRows, MessageRows, SyncRows

\* What happens around the pipeline keeps the types.
LEMMA EnvironmentType ==
    ASSUME TypeOK, Environment \/ QueueAges \/ StartAges \/ Sweep
    PROVE  TypeOK'
  <1>1. CASE Edit
    <2>1. PICK h \in IF Reverts THEN 1..(drive.modified + 1)
                     ELSE {drive.modified + 1} :
             drive' = [drive EXCEPT !.modified = @ + 1, !.hash = h]
      BY <1>1 DEF Edit
    <2>2. drive.modified + 1 \in Nat
      BY DEF TypeOK
    <2>3. h \in Nat
      BY <2>1, <2>2
    <2>4. drive' \in [scope : Scopes, modified : Nat, hash : Nat]
      BY <2>1, <2>2, <2>3 DEF TypeOK
    <2> QED
      BY <1>1, <2>4 DEF Edit, TypeOK
  <1>2. CASE Rescope
    BY <1>2, ExtractionAssumption DEF Rescope, Fault, TypeOK
  <1>3. CASE SelectRoot
    <2>1. document' \in DocumentRows
      BY <1>3, FieldUpdates DEF SelectRoot, TypeOK
    <2> QED
      BY <1>3, <2>1, ExtractionAssumption DEF SelectRoot, Fault, TypeOK
  <1>4. CASE Reindex
    <2> DEFINE a == [document EXCEPT !.status = "pending"]
               b == [a EXCEPT !.attempts = 0]
               c == [b EXCEPT !.queued = "recent"]
    <2>1. a \in DocumentRows
      BY FieldUpdates DEF TypeOK, Statuses
    <2>2. b \in DocumentRows
      <3>1. 0 \in 0..MaxAttempts
        BY ExtractionAssumption
      <3> QED
        BY <2>1, <3>1, FieldUpdates
    <2>3. c \in DocumentRows
      BY <2>2, FieldUpdates
    <2>4. document' = [c EXCEPT !.started = "recent"]
      BY <1>4 DEF Reindex
    <2>5. document' \in DocumentRows
      BY <2>3, <2>4, FieldUpdates
    <2>6. document.hash \in Nat
      BY DEF TypeOK, DocumentRows
    <2>7. message' \in [Messages -> MessageRows]
      BY <1>4, <2>6, ExtractionAssumption DEF Reindex, Enqueue, TypeOK, MessageRows
    <2> QED
      BY <1>4, <2>5, <2>7, ExtractionAssumption DEF Reindex, Fault, TypeOK
  <1>5. CASE QueueAges \/ StartAges
    <2>1. document' \in DocumentRows
      BY <1>5, FieldUpdates DEF QueueAges, StartAges, TypeOK
    <2> QED
      BY <1>5, <2>1 DEF QueueAges, StartAges, TypeOK
  <1>6. CASE Sweep
    BY <1>6, RowTypes DEF Sweep, TypeOK
  <1> QED
    BY <1>1, <1>2, <1>3, <1>4, <1>5, <1>6 DEF Environment

LEMMA SyncType ==
    ASSUME TypeOK, NEW s \in Syncs, ListFiles(s) \/ SyncStep(s) \/ SyncFails(s)
    PROVE  TypeOK'
  <1>0. sync[s] \in SyncRows
    BY DEF TypeOK
  <1>1. CASE ListFiles(s)
    BY <1>1 DEF ListFiles, TypeOK, SyncRows
  <1>2. ASSUME NEW hash \in Nat, Candidate(s, hash)
        PROVE  sync' \in [Syncs -> SyncRows]
    BY <1>0, <1>2, RowTypes DEF Candidate, TypeOK, SyncRows
  <1>3. CASE CommitRefresh(s)
    <2> DEFINE r == [ListedRow(sync[s]) EXCEPT !.hash = drive.hash]
    <2>1. drive.hash \in Nat
      BY DEF TypeOK
    <2>2. r \in DocumentRows
      BY <1>0, <2>1, RowTypes, FieldUpdates
    <2>3. document' = [r EXCEPT !.status = "pending", !.attempts = 0,
                                !.started = "recent"]
      BY <1>3 DEF CommitRefresh
    <2>4. document' \in DocumentRows
      BY <2>2, <2>3, PendingRow
    <2> QED
      BY <1>2, <1>3, <2>1, <2>4 DEF CommitRefresh, TypeOK
  <1>4. CASE CommitUnchanged(s)
    <2>1. document.hash \in Nat
      BY DEF TypeOK, DocumentRows
    <2>2. sync' \in [Syncs -> SyncRows]
      BY <1>2, <1>4, <2>1 DEF CommitUnchanged
    <2> QED
      BY <1>0, <1>4, <2>2, RowTypes DEF CommitUnchanged, TypeOK
  <1>5. CASE CommitExcluded(s)
    BY <1>0, <1>2, <1>5, RowTypes DEF CommitExcluded, TypeOK
  <1>6. CASE CommitMissing(s)
    <2> DEFINE r == [document EXCEPT !.scope = "inactive"]
    <2>1. r \in DocumentRows
      BY FieldUpdates DEF TypeOK, Scopes
    <2>2. document' \in DocumentRows
      BY <1>6, <2>1, FieldUpdates DEF CommitMissing
    <2> QED
      BY <1>2, <1>6, <2>2 DEF CommitMissing, TypeOK
  <1>7. CASE ExportFails(s) \/ SyncFails(s)
    BY <1>7, RowTypes, ExtractionAssumption DEF ExportFails, SyncFails, Fault, TypeOK
  <1>8. CASE Dispatch(s)
    <2>1. message' \in [Messages -> MessageRows]
      BY <1>0, <1>8, ExtractionAssumption
      DEF Dispatch, Enqueue, TypeOK, MessageRows, SyncRows
    <2>2. sync' \in [Syncs -> SyncRows]
      BY <1>0, <1>8 DEF Dispatch, TypeOK, SyncRows
    <2> QED
      BY <1>8, <2>1, <2>2 DEF Dispatch, TypeOK
  <1>9. CASE Stamp(s)
    <2>1. document' \in DocumentRows
      BY <1>9, FieldUpdates DEF Stamp, TypeOK
    <2> QED
      BY <1>9, <2>1, RowTypes DEF Stamp, TypeOK
  <1> QED
    BY <1>1, <1>3, <1>4, <1>5, <1>6, <1>7, <1>8, <1>9 DEF SyncStep

LEMMA TaskType ==
    ASSUME TypeOK, NEW m \in Messages, TaskStep(m) \/ Crash(m)
    PROVE  TypeOK'
  <1>0. message[m] \in MessageRows
    BY DEF TypeOK
  <1>1. ASSUME Release(m) PROVE message' \in [Messages -> MessageRows]
    BY <1>1, RowTypes DEF Release, TypeOK
  <1>2. CASE SkipStale(m)
    BY <1>1, <1>2 DEF SkipStale, TypeOK
  <1>3. CASE SkipUnreadable(m)
    <2>1. document' \in DocumentRows
      BY <1>3, FieldUpdates DEF SkipUnreadable, TypeOK, Statuses
    <2> QED
      BY <1>1, <1>3, <2>1 DEF SkipUnreadable, TypeOK
  <1>4. CASE Fail(m)
    BY <1>1, <1>4, RowTypes DEF Fail, TypeOK
  <1>5. CASE MarkReady(m)
    <2>1. (document.gate \/ ContentReady(m)) \in BOOLEAN
      BY DEF TypeOK, DocumentRows, ContentReady, Current
    <2>2. document' \in DocumentRows
      BY <1>5, <2>1, FieldUpdates DEF MarkReady, TypeOK
    <2> QED
      BY <1>1, <1>5, <2>2 DEF MarkReady, TypeOK
  <1>6. CASE Start(m)
    BY <1>0, <1>6, RowTypes DEF Start, TypeOK, MessageRows
  <1>7. CASE WriteGraph(m)
    BY <1>0, <1>7 DEF WriteGraph, TypeOK, MessageRows
  <1>8. CASE RetryLater(m)
    <2>1. message' \in [Messages -> MessageRows]
      <3> DEFINE a == [message[m] EXCEPT !.step = "waiting"]
      <3>1. a \in MessageRows /\ a.retries + 1 \in 0..MaxRetries
        BY <1>0, <1>8, ExtractionAssumption DEF RetryLater, MayRetry, MessageRows
      <3>2. [a EXCEPT !.retries = @ + 1] \in MessageRows
        BY <3>1 DEF MessageRows
      <3>3. message' = [message EXCEPT ![m] = [a EXCEPT !.retries = @ + 1]]
        BY <1>0, <1>8 DEF RetryLater, TypeOK, MessageRows
      <3> QED
        BY <3>2, <3>3 DEF TypeOK
    <2> QED
      BY <1>8, <2>1 DEF RetryLater, TypeOK
  <1>9. CASE MarkSucceeded(m)
    <2>1. document' \in DocumentRows
      BY <1>9, FieldUpdates DEF MarkSucceeded, TypeOK, Statuses
    <2>2. message' \in [Messages -> MessageRows]
      BY <1>0, <1>9 DEF MarkSucceeded, TypeOK, MessageRows
    <2> QED
      BY <1>9, <2>1, <2>2 DEF MarkSucceeded, TypeOK
  <1>10. CASE Crash(m)
    <2>1. message' \in [Messages -> MessageRows]
      BY <1>0, <1>1, <1>10 DEF Crash, TypeOK, MessageRows
    <2> QED
      BY <1>10, <2>1, ExtractionAssumption DEF Crash, Fault, TypeOK
  <1> QED
    BY <1>2, <1>3, <1>4, <1>5, <1>6, <1>7, <1>8, <1>9, <1>10 DEF TaskStep

LEMMA NextType == TypeOK /\ [Next]_vars => TypeOK'
  <1> SUFFICES ASSUME TypeOK, [Next]_vars PROVE TypeOK'
    OBVIOUS
  <1>1. CASE UNCHANGED vars
    BY <1>1 DEF vars, TypeOK
  <1>2. CASE Next
    BY <1>2, EnvironmentType, SyncType, TaskType DEF Next
  <1> QED
    BY <1>1, <1>2

\* Every state is well typed; in particular no message is retried beyond
\* max_retries (queue_document_extraction).
THEOREM TypeCorrect == Spec => []TypeOK
  BY InitType, NextType, PTL DEF Spec

-----------------------------------------------------------------------------
(* The gate vouches for the graph, as long as no edit restores old content. *)

\* Content versions only grow, and nothing in flight is ahead of the row.
VersionsGrow ==
    /\ drive.hash = drive.modified /\ drive.hash # 0
    /\ document.hash <= drive.hash
    /\ graph <= document.hash
    /\ \A m \in Messages : message[m].hash <= document.hash
    /\ \A s \in Syncs : sync[s].candidate <= document.hash

\* A task past its graph write, and a row marked succeeded, have their content
\* in the graph for as long as that content is current.
WrittenIsInGraph ==
    /\ \A m \in Messages :
          message[m].step \in {"written", "succeeded"} /\ Current(m)
          => graph = document.hash
    /\ document.status = "succeeded" => graph = document.hash

ProvenanceInvariant ==
    TypeOK /\ VersionsGrow /\ WrittenIsInGraph /\ GateHasProvenance

\* What a step must respect: the content it leaves alone keeps its standing.
LEMMA KeptContent ==
    ASSUME ProvenanceInvariant, TypeOK',
           drive'.hash = drive'.modified, drive'.hash # 0,
           document'.hash = document.hash, document.hash <= drive'.hash,
           graph' = graph,
           \A m \in Messages :
              /\ message'[m].hash <= document.hash
              /\ message'[m].step \in {"written", "succeeded"}
                 => \/ message[m].step \in {"written", "succeeded"}
                       /\ message[m].hash = message'[m].hash
                    \/ graph = document.hash,
           \A s \in Syncs : sync'[s].candidate <= document.hash,
           document'.status = "succeeded"
              => document.status = "succeeded" \/ graph = document.hash,
           document'.gate => \/ document.gate /\ document'.scope = document.scope
                             \/ /\ graph = document.hash
                                /\ document'.scope = "supported"
    PROVE  ProvenanceInvariant'
  <1>1. VersionsGrow'
    BY DEF ProvenanceInvariant, VersionsGrow
  <1>2. WrittenIsInGraph'
    BY DEF ProvenanceInvariant, WrittenIsInGraph, Current
  <1>3. GateHasProvenance'
    BY DEF ProvenanceInvariant, GateHasProvenance
  <1> QED
    BY <1>1, <1>2, <1>3 DEF ProvenanceInvariant

LEMMA InitProvenance == Init => ProvenanceInvariant
  <1> SUFFICES ASSUME Init PROVE ProvenanceInvariant
    OBVIOUS
  <1>1. TypeOK
    BY InitType
  <1>2. VersionsGrow /\ WrittenIsInGraph /\ GateHasProvenance
    BY DEF Init, VersionsGrow, WrittenIsInGraph, GateHasProvenance, Free, Idle
  <1> QED
    BY <1>1, <1>2 DEF ProvenanceInvariant

\* The facts of the invariant that every step starts from.
LEMMA Bounds ==
    ASSUME ProvenanceInvariant
    PROVE  /\ drive.hash \in Nat /\ drive.hash = drive.modified /\ drive.hash # 0
           /\ document \in DocumentRows /\ document.hash \in Nat
           /\ document.hash <= drive.hash
           /\ graph \in Nat /\ graph <= document.hash
           /\ message \in [Messages -> MessageRows]
           /\ \A m \in Messages : /\ message[m].hash \in Nat
                                  /\ message[m].hash <= document.hash
           /\ sync \in [Syncs -> SyncRows]
           /\ \A s \in Syncs : /\ sync[s].candidate \in Nat
                               /\ sync[s].candidate <= document.hash
  BY DEF ProvenanceInvariant, VersionsGrow, TypeOK, DocumentRows, MessageRows,
         SyncRows

LEMMA EnvironmentProvenance ==
    ASSUME ~ Reverts, ProvenanceInvariant, TypeOK',
           Environment \/ QueueAges \/ StartAges \/ Sweep
    PROVE  ProvenanceInvariant'
  <1> USE Bounds
  <1>1. CASE Edit
    <2>1. drive' = [drive EXCEPT !.modified = @ + 1, !.hash = drive.modified + 1]
      BY <1>1 DEF Edit
    <2>2. drive \in [scope : Scopes, modified : Nat, hash : Nat]
      BY DEF ProvenanceInvariant, TypeOK
    <2>3. drive'.hash = drive.hash + 1 /\ drive'.modified = drive.hash + 1
      BY <2>1, <2>2
    <2>4. UNCHANGED <<document, graph, message, sync>>
      BY <1>1 DEF Edit
    <2> QED
      BY <2>3, <2>4, KeptContent
  <1>2. CASE Rescope
    <2>1. drive \in [scope : Scopes, modified : Nat, hash : Nat]
      BY DEF ProvenanceInvariant, TypeOK
    <2>2. drive'.hash = drive.hash /\ drive'.modified = drive.modified
      BY <1>2, <2>1 DEF Rescope
    <2>3. UNCHANGED <<document, graph, message, sync>>
      BY <1>2 DEF Rescope
    <2> QED
      BY <2>2, <2>3, KeptContent
  <1>3. CASE SelectRoot
    <2>1. UNCHANGED <<drive, graph, message, sync>>
      BY <1>3 DEF SelectRoot
    <2>2. /\ document'.hash = document.hash /\ document'.status = document.status
          /\ ~ document'.gate
      BY <1>3 DEF SelectRoot, DocumentRows
    <2> QED
      BY <2>1, <2>2, KeptContent
  <1>4. CASE QueueAges \/ StartAges
    <2>1. UNCHANGED <<drive, graph, message, sync>>
      BY <1>4 DEF QueueAges, StartAges
    <2>2. /\ document'.hash = document.hash /\ document'.status = document.status
          /\ document'.gate = document.gate /\ document'.scope = document.scope
      BY <1>4 DEF QueueAges, StartAges, DocumentRows
    <2> QED
      BY <2>1, <2>2, KeptContent
  <1>5. CASE Sweep
    <2>1. UNCHANGED <<drive, graph, message, sync>>
      BY <1>5 DEF Sweep
    <2>2. /\ document'.hash = document.hash /\ document'.status = "failed"
          /\ document'.gate = document.gate /\ document'.scope = document.scope
      BY <1>5 DEF Sweep, FailedRow, DocumentRows
    <2> QED
      BY <2>1, <2>2, KeptContent
  <1>6. CASE Reindex
    <2>1. UNCHANGED <<drive, graph, sync>>
      BY <1>6 DEF Reindex
    <2>2. /\ document'.hash = document.hash /\ document'.status = "pending"
          /\ document'.gate = document.gate /\ document'.scope = document.scope
      BY <1>6 DEF Reindex, DocumentRows
    <2>3. Enqueue(document.hash)
      BY <1>6 DEF Reindex
    <2>4. \A m \in Messages :
             \/ message'[m] = message[m]
             \/ message'[m].hash = document.hash /\ message'[m].step = "waiting"
      BY <2>3 DEF Enqueue
    <2> QED
      BY <2>1, <2>2, <2>4, KeptContent
  <1> QED
    BY <1>1, <1>2, <1>3, <1>4, <1>5, <1>6 DEF Environment

LEMMA SyncProvenance ==
    ASSUME ProvenanceInvariant, TypeOK', NEW s \in Syncs,
           ListFiles(s) \/ SyncStep(s) \/ SyncFails(s)
    PROVE  ProvenanceInvariant'
  <1> USE Bounds
  <1>0. sync[s] \in SyncRows /\ Idle.candidate = 0
    BY DEF Idle
  <1>1. CASE ListFiles(s) \/ SyncFails(s) \/ ExportFails(s)
    <2>1. UNCHANGED <<drive, document, graph, message>>
      BY <1>1 DEF ListFiles, SyncFails, ExportFails
    <2>2. \A t \in Syncs : sync'[t] = sync[t] \/ sync'[t].candidate = 0
      BY <1>0, <1>1 DEF ListFiles, SyncFails, ExportFails
    <2> QED
      BY <2>1, <2>2, KeptContent
  <1>2. ASSUME NEW hash \in Nat, Candidate(s, hash)
        PROVE  \A t \in Syncs : \/ sync'[t] = sync[t]
                                \/ sync'[t].candidate \in {0, hash}
    BY <1>0, <1>2 DEF Candidate, SyncRows
  <1>3. CASE CommitRefresh(s)
    <2> DEFINE r == ListedRow(sync[s])
    <2>1. r \in DocumentRows /\ ~ r.gate
      BY <1>0, RowTypes DEF ProvenanceInvariant, ListedRow, DocumentRows
    <2>2. document' = [r EXCEPT !.hash = drive.hash, !.status = "pending",
                                !.attempts = 0, !.started = "recent"]
      BY <1>3 DEF CommitRefresh
    <2>3. /\ document'.hash = drive.hash /\ document'.status = "pending"
          /\ ~ document'.gate
      BY <2>1, <2>2 DEF DocumentRows
    <2>4. UNCHANGED <<drive, graph, message>>
      BY <1>3 DEF CommitRefresh
    <2>5. \A t \in Syncs : \/ sync'[t] = sync[t]
                           \/ sync'[t].candidate \in {0, drive.hash}
      BY <1>2, <1>3 DEF CommitRefresh
    <2>6. VersionsGrow'
      BY <2>3, <2>4, <2>5 DEF VersionsGrow
    <2>7. WrittenIsInGraph'
      BY <2>3, <2>4 DEF ProvenanceInvariant, WrittenIsInGraph, Current, MessageRows
    <2>8. GateHasProvenance'
      BY <2>3 DEF GateHasProvenance
    <2> QED
      BY <2>6, <2>7, <2>8 DEF ProvenanceInvariant
  <1>4. CASE CommitUnchanged(s) \/ CommitExcluded(s)
    <2>1. document' = ListedRow(sync[s]) /\ UNCHANGED <<drive, graph, message>>
      BY <1>4 DEF CommitUnchanged, CommitExcluded
    <2>2. /\ document'.hash = document.hash /\ document'.status = document.status
          /\ ~ document'.gate
      BY <2>1 DEF ListedRow, DocumentRows
    <2>3. Candidate(s, 0) \/ Candidate(s, document.hash)
      BY <1>4 DEF CommitUnchanged, CommitExcluded
    <2>4. \A t \in Syncs : \/ sync'[t] = sync[t]
                           \/ sync'[t].candidate \in {0, document.hash}
      BY <1>2, <2>3
    <2> QED
      BY <2>1, <2>2, <2>4, KeptContent
  <1>5. CASE CommitMissing(s)
    <2>1. UNCHANGED <<drive, graph, message>> /\ Candidate(s, 0)
      BY <1>5 DEF CommitMissing
    <2>2. /\ document'.hash = document.hash /\ document'.status = document.status
          /\ ~ document'.gate
      BY <1>5 DEF CommitMissing, DocumentRows
    <2>3. \A t \in Syncs : sync'[t] = sync[t] \/ sync'[t].candidate = 0
      BY <1>2, <2>1
    <2> QED
      BY <2>1, <2>2, <2>3, KeptContent
  <1>6. CASE Dispatch(s)
    <2>1. UNCHANGED <<drive, document, graph>>
      BY <1>6 DEF Dispatch
    <2>2. \A t \in Syncs : sync'[t].candidate = sync[t].candidate
      BY <1>0, <1>6 DEF Dispatch, SyncRows
    <2>3. Enqueue(sync[s].candidate)
      BY <1>6 DEF Dispatch
    <2>4. \A m \in Messages :
             \/ message'[m] = message[m]
             \/ message'[m].hash = sync[s].candidate /\ message'[m].step = "waiting"
      BY <2>3 DEF Enqueue
    <2> QED
      BY <2>1, <2>2, <2>4, KeptContent
  <1>7. CASE Stamp(s)
    <2>1. UNCHANGED <<drive, graph, message>>
      BY <1>7 DEF Stamp
    <2>2. /\ document'.hash = document.hash /\ document'.status = document.status
          /\ document'.gate = document.gate /\ document'.scope = document.scope
      BY <1>7 DEF Stamp, DocumentRows
    <2>3. \A t \in Syncs : sync'[t] = sync[t] \/ sync'[t].candidate = 0
      BY <1>0, <1>7 DEF Stamp
    <2> QED
      BY <2>1, <2>2, <2>3, KeptContent
  <1> QED
    BY <1>1, <1>3, <1>4, <1>5, <1>6, <1>7 DEF SyncStep

LEMMA TaskProvenance ==
    ASSUME ProvenanceInvariant, TypeOK', NEW m \in Messages, TaskStep(m) \/ Crash(m)
    PROVE  ProvenanceInvariant'
  <1> USE Bounds
  <1>0. message[m] \in MessageRows /\ Free.hash = 0 /\ Free.step = "free"
    BY DEF Free
  <1>1. ASSUME Release(m)
        PROVE  \A n \in Messages : \/ message'[n] = message[n]
                                   \/ message'[n].hash = 0 /\ message'[n].step = "free"
    BY <1>0, <1>1 DEF Release
  <1>2. CASE SkipStale(m) \/ SkipUnreadable(m) \/ Fail(m)
    <2>1. UNCHANGED <<drive, graph, sync>> /\ Release(m)
      BY <1>2 DEF SkipStale, SkipUnreadable, Fail
    <2>2. /\ document'.hash = document.hash
          /\ document'.status \in {document.status, "skipped", "failed"}
          /\ document'.gate = document.gate /\ document'.scope = document.scope
      BY <1>2 DEF SkipStale, SkipUnreadable, Fail, FailedRow, DocumentRows
    <2> QED
      BY <1>1, <2>1, <2>2, KeptContent
  <1>3. CASE Start(m)
    <2>1. UNCHANGED <<drive, graph, sync>>
      BY <1>3 DEF Start
    <2>2. /\ document'.hash = document.hash /\ document'.status = "running"
          /\ document'.gate = document.gate /\ document'.scope = document.scope
      BY <1>3 DEF Start, StartedRow, DocumentRows
    <2>3. \A n \in Messages :
             \/ message'[n] = message[n]
             \/ message'[n].hash = message[n].hash /\ message'[n].step = "extracting"
      BY <1>0, <1>3 DEF Start, MessageRows
    <2> QED
      BY <2>1, <2>2, <2>3, KeptContent
  <1>4. CASE RetryLater(m) \/ Crash(m)
    <2>1. UNCHANGED <<drive, document, graph, sync>>
      BY <1>4 DEF RetryLater, Crash
    <2>2. \A n \in Messages :
             \/ message'[n] = message[n]
             \/ message'[n].hash <= message[n].hash
                /\ message'[n].step \in {"waiting", "free"}
      BY <1>0, <1>1, <1>4 DEF RetryLater, Crash, MessageRows
    <2>3. \A n \in Messages : message'[n].hash \in Nat /\ message[n].hash \in Nat
      BY DEF TypeOK, MessageRows
    <2>4. \A n \in Messages :
             /\ message'[n].hash <= document.hash
             /\ message'[n].step \in {"written", "succeeded"}
                => message'[n] = message[n]
      BY <2>2, <2>3
    <2> QED
      BY <2>1, <2>4, KeptContent
  <1>5. CASE WriteGraph(m)
    <2>1. graph' = document.hash /\ UNCHANGED <<drive, document, sync>>
      BY <1>5 DEF WriteGraph, MayWrite, Current
    <2>2. \A n \in Messages : message'[n].hash = message[n].hash
      BY <1>0, <1>5 DEF WriteGraph, MessageRows
    <2>3. VersionsGrow'
      BY <2>1, <2>2 DEF VersionsGrow
    <2>4. WrittenIsInGraph'
      BY <2>1 DEF WrittenIsInGraph
    <2>5. GateHasProvenance'
      BY <2>1 DEF ProvenanceInvariant, GateHasProvenance
    <2> QED
      BY <2>3, <2>4, <2>5 DEF ProvenanceInvariant
  <1>6. CASE MarkSucceeded(m)
    <2>1. graph = document.hash
      BY <1>6 DEF ProvenanceInvariant, WrittenIsInGraph, MarkSucceeded
    <2>2. UNCHANGED <<drive, graph, sync>>
      BY <1>6 DEF MarkSucceeded
    <2>3. /\ document'.hash = document.hash
          /\ document'.gate = document.gate /\ document'.scope = document.scope
      BY <1>6 DEF MarkSucceeded, DocumentRows
    <2>4. \A n \in Messages : message'[n].hash = message[n].hash
      BY <1>0, <1>6 DEF MarkSucceeded, MessageRows
    <2> QED
      BY <2>1, <2>2, <2>3, <2>4, KeptContent
  <1>7. CASE MarkReady(m)
    <2>1. UNCHANGED <<drive, graph, sync>> /\ Release(m)
      BY <1>7 DEF MarkReady
    <2>2. /\ document'.hash = document.hash /\ document'.status = document.status
          /\ document'.gate = (document.gate \/ ContentReady(m))
          /\ document'.scope = document.scope
      BY <1>7 DEF MarkReady, DocumentRows
    <2>3. ContentReady(m) => graph = document.hash /\ document.scope = "supported"
      BY DEF ProvenanceInvariant, WrittenIsInGraph, ContentReady
    <2>4. document'.gate => \/ document.gate
                            \/ graph = document.hash /\ document.scope = "supported"
      BY <2>2, <2>3
    <2>5. \A n \in Messages : message'[n] = message[n] \/ message'[n].step = "free"
      BY <1>1, <2>1
    <2>6. \A n \in Messages : message'[n].hash <= document.hash
      BY <1>1, <2>1
    <2>7. \A t \in Syncs : sync'[t].candidate <= document.hash
      BY <2>1
    <2> QED
      BY <2>1, <2>2, <2>4, <2>5, <2>6, <2>7, KeptContent
  <1> QED
    BY <1>2, <1>3, <1>4, <1>5, <1>6, <1>7 DEF TaskStep

LEMMA NextProvenance ==
    ASSUME ~ Reverts
    PROVE  ProvenanceInvariant /\ [Next]_vars => ProvenanceInvariant'
  <1> SUFFICES ASSUME ProvenanceInvariant, [Next]_vars PROVE ProvenanceInvariant'
    OBVIOUS
  <1>1. TypeOK'
    BY NextType DEF ProvenanceInvariant
  <1>2. CASE UNCHANGED vars
    BY <1>2 DEF vars, ProvenanceInvariant, TypeOK, VersionsGrow,
                WrittenIsInGraph, GateHasProvenance, Current
  <1>3. CASE Next
    BY <1>1, <1>3, EnvironmentProvenance, SyncProvenance, TaskProvenance DEF Next
  <1> QED
    BY <1>2, <1>3

\* If no edit restores earlier content, an open gate always vouches for the
\* graph: its chunks come from the content stored now (MarkReady and the
\* version checks of queue_document_extraction and extract_document_to_graph).
THEOREM GateProvenance ==
    ASSUME ~ Reverts
    PROVE  Spec => []GateHasProvenance
  <1>1. ProvenanceInvariant => GateHasProvenance
    BY DEF ProvenanceInvariant
  <1> QED
    BY InitProvenance, NextProvenance, <1>1, PTL DEF Spec

=============================================================================
