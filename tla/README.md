# Verification of the permission-safe knowledge graph

TLA+ modules, model-checking configurations and machine-checked proofs for the
Django/Celery backend under `src/apps/backend`. The program indexes a Google
Drive scope into Neo4j and answers questions about it, and must never use a
document for somebody who may not view it.

## 1. The system

State lives in four stores without a common transaction: PostgreSQL (rows and
evidence), SpiceDB (relationships), Neo4j (chunks, entities, facts) and the
Celery broker. A connection has one of two exclusive *permission authorities*:

* `delegated_acl`: a service account lists ACLs and groups; relationships are
  reconciled to them and `view` is computed by SpiceDB;
* `per_user_oauth`: each user connects an account; what Google lets that user
  read becomes an `oauth_viewer` relationship and an evidence row.

Either way a document is allowed only if SpiceDB grants it **and** PostgreSQL
has fresh evidence that the grant was verified. Evidence can only deny.

| Component (source) | State | Operations | Hard behaviour | What makes it correct |
|---|---|---|---|---|
| User visibility sync (`user_visibility_sync.py`, `user_visibility_client.py`, `oauth_viewer.py`) | visibility rows, runs, `oauth_viewer` tuples | claim, preinvalidate, ask Google, reconcile, verify, commit, retry | two deliveries of one run, expired lock, crash, late commit | live evidence rests on an answer of the current generation nobody has voided since; a refresh is closed until its commit |
| Authority cutover (`permission_authority.py`) | authority, generation | deny, delete tuples, activate | races with every worker in flight | no evidence of the old authority survives |
| OAuth connection (`user_oauth.py`) | authorization row, credential, stored flow | begin, callback, connect, disconnect, revoke | overlapping callbacks, late deletion and revocation, an address that moved to another account | one active authorization per address, on its own consent; generations fence old work |
| Google session login (`google_session_oauth.py`) | Django session, user row, stored flow | begin, callback, exchange, log in | late save of a whole session, callback opened twice or in another browser | a browser is logged in only as who consented in it |
| Drive walk (`drive/google_client.py`) | generators of one listing | ask for a page, take an entry, read its ACL | people move things meanwhile, pages, circles, several parents | what stays is found; nothing is made up |
| Drive metadata sync (`drive/sync.py`) | document rows, snapshots, content | list, commit, dispatch, stamp | listing older than the rows, crash between commit and dispatch | every change is noticed once; evidence is preserved only for the ACL it verified |
| Graph extraction (`tasks.py`, `graph/pipeline.py`) | extraction status, attempts, Neo4j | start, extract, write, retry, outcome, gate | redelivery, content change during extraction, lost worker | an open gate vouches for the graph; no document is stranded |
| Delegated permission sync (`authorization/sync.py`, `drive/groups.py`) | folders, snapshots, tuples, eligibility | list, persist, plan, write, read back, commit | batches, races with drive syncs, age of evidence | tuples say what Drive says; access rests on recent statements |
| SpiceDB client, schema (`authorization/client.py`, `schema.zed`) | relationships | read, write in batches, look up | partial writes | exact set, verified |
| Authorization lookup (`authorization/lookup.py`) | none | allow list, recheck | two stores at two moments | intersection, fail closed |
| Query (`retrieval/*`) | none | look up, search, recheck, generate, cite | everything changes between steps | cites only what it was granted and rechecked |
| Graph writer and guard (`graph/writer.py`, `graph/guard.py`) | Neo4j | replace one document | shared entities, stale chunks, ambiguous names | a rewrite replaces that document and nothing else |
| Run life cycle (`tasks.py`: locks, retries, beat, sweepers) | run rows, cache lock, messages | receive, lock, claim, retry, release, sweep, redispatch | lock expiry, exhausted retries, lost or duplicated messages | one worker at a time, no finished run reopened, a run is never stuck, evidence comes back |
| Views, Open WebUI adapter, health, settings, LLM and embedding adapters, encryption | none of their own | parsing, configuration, remote calls | | inputs and failing steps of the models |

`PROJECT.json` lists every component with its status and every hazard with the
line where it bites.

Interaction: views and beat create runs; workers execute them; drive sync
dispatches extraction; extraction opens the content gate that the lookup reads;
both permission syncs feed the lookup; the query calls the lookup, then Neo4j,
then the lookup's recheck. Metadata syncs, permission runs and the diagnostic
all list Drive with the same walk. A login makes the session from which a user
connects Drive; disconnects and cutovers fence the visibility runs.

## 2. Modules

### UserVisibility (checked and proved)

The per-user protocol for one connection and one user, at the granularity of
database transactions, single SpiceDB requests and exchanges with Google.
Processes are Celery workers, the web process that finishes a disconnect, and
the cutover command; what each has read and still holds (`job`, `heldGen`,
`marker`, `candidates`, `seen`, `touches`, `deletes`) is explicit state.
`Preinvalidate`, `LoadScope`, `AnswerGoogle`, `ReconcileRead`, `WriteTouch`,
`WriteDelete`, `Verify`, `Commit` follow `synchronize_user_visibility`; `Claim`,
`RetryRun`, `Crash`, `SweepRun`, `SweepWithholds`, `ScheduleWithholds` the
Celery side; `Connect`, `Disconnect`, `DisconnectEnds` and the `Cutover*`
actions the rest. `LoadScope` merges the consecutive reads of the run, the
scope and the indexed documents, which later validations repeat. The read-back
of `Verify` may happen arbitrarily long before the commit. The cache lock is *not*
relied on: it expires, so any worker may pick up an unfinished run, which is
more than the code allows with a live lock. `GOOGLE_PERMISSION_AUTHORITY` is
taken to agree with the connection.

Ghosts `answers` and `trusted` record which answers of Google no later event
(connect, disconnect, cutover, another preinvalidation) has voided.

### DocumentExtraction (checked and proved)

One document in per-user mode, from edits in Drive over metadata syncs,
messages, extraction tasks, retries, the sweeper and the operator's reindex
command to the content gate. A content hash is a number, a modification time the number
of edits. `Reverts` says whether an edit may restore earlier content.

### SyncRuns (checked and proved)

The life of run rows, for two tasks of one build: `run_permission_sync` and
`run_user_visibility_sync` (`kind`). Messages (`delivery`) are received
(`Receive`), contend for the cache lock (`TakeLock`, `Contend`), claim the run
(`Claim`, `ClaimNothing`), work, and end in success, failure, a retry
(`Requeue`) or the last attempt (`GiveUp`); the lock is released in two cache
calls (`ReadToken`, `DeleteLock`) and dies with its time to live. Beat creates
and sends runs (`BeatReads`, `BeatCreates`, `BeatRedispatches`), a request does
so too (`PostCreates`, `PostRedispatches`), the sweeper fails runs that are too
old (`Sweep`). Workers are lost, messages are lost or duplicated, users
reconnect. What a run does to evidence is one bit here, withheld or fresh.

Abstractions: time passes in ticks and a retry countdown is shorter than a
tick; rows of ended runs may be used again for new runs, so that executions
have no end; an execution lasts at most `WorkLimit`, which is below
`StaleTimeout`, as the comment beside the lock asks. `UserVisibility` does
without that assumption.

### GoogleOAuth (checked and proved)

Both OAuth flows and the authorization rows they lead to, for several accounts,
addresses, browsers and requests at a time. `BeginSessionAuthorization` and
`BeginAuthorization` store a flow in the session; at Google somebody consents
(`Consent`) and addresses move between accounts (`MoveAddress`). A callback is
opened in any browser, any number of times (`OpenCallback`), and goes through
`AcceptState` or `RefuseState`, `Exchange`, and then `CheckConflict` and
`SessionUser` (login) or `Connect` (Drive). Each request works on the copy of
the session it loaded and saves all of it at its end (`Close`), over whatever
another request saved meanwhile. `Disconnect` and `RevokeCredentials` are the two halves of a
disconnect, `CutoverDeny` and `CutoverActivate` the part of a cutover that
touches authorizations. That a state can therefore be accepted twice is in the
model; Google's one-time code stops the second exchange.

Visibility runs are in flight all the while, any number of them: `AskVisibility`
denies, validates and asks Google with the authorization the account has then,
`RecordEvidence` is the commit, which validates again (`RunHolds`), `RunEnds` a
failure and `Withhold` the denial by a run that is refused afterwards, the
sweeper or the user cap. `UserVisibility` has the steps of one user's runs;
here they meet several accounts of one address. `evidence` counts verified rows
only: a preinvalidation makes unknown rows for any authorization, active or not.

Three observations the module makes exact without stating them as properties.
Two users can have one e-mail address, when two accounts that had it one after
the other log in for the first time at once (the row lock of
`google_session_oauth.py:212` finds no row to lock). A row displaced by another
account of the same address keeps no credential, but its tokens are never revoked at
Google. The lookup counts the rows of an address in every generation
(`lookup.py:57-64`), the status view only those of the present one
(`user_oauth.py:402-410`): a row left by an earlier generation makes a user
denied who is shown as connected, and an address under which two accounts ever
connected has two rows and is served by neither until one of them connects
under another address.

### DriveAccess, DriveWalk, DelegatedPermissionSync (checked and proved)

`DriveAccess` holds what Google Workspace means (sharing, folders, groups,
deleted accounts, unreadable ACLs) as an external model, and the pure part of
the permission sync: `AclIsUsable`, `SafelyInherited`, `InvalidFolders`,
`EligibleDocuments`, `GroupTuples`, `DesiredState`, and SpiceDB's `view`
(`Views`). Relationships are pairs, because `view` unites all roles.
`oauth_viewer` is one of them (`schema.zed:29`) and left out: a connection that
was always delegated has none, and what a stray one grants after a cutover is
finding 1. A shared
drive lists the sources of inherited permissions, My Drive does not; both are
covered (`Detailed`).

`DriveWalk` EXTENDS it with the walk of `google_client.py`, request by request:
folders wait in `pending`, `FetchPage` asks for a page of the current folder,
`TakeEntry` takes one of its entries and reads the ACL, `ListingFails` is a
refused page, `RootFails` a refused root, `EndWalk` the end of the generators. Its three kinds are its
three callers: a metadata sync (`files`), a permission run (`resources`, where
folders are yielded too, after the root, which is taken like an entry), and
the diagnostic (`check`, which stops at a sample and counts errors). People
edit Drive between any two requests. What Google's paging promises is external:
every child that stays in the folder is on at least one of its pages. The pages of one
ACL are merged into one request.

A listing is not a snapshot, although `integrations/drive/client.py:74` calls
it one. An item moved, during the walk, from a folder that still waits to one
already listed is missed although it never left the scope, and an item put into
a folder that meanwhile left the scope is listed although it never was in it.
`FindsWhatStays` and `YieldsWhatWasStated` say what does hold.

`DelegatedPermissionSync` EXTENDS `DriveAccess` with the protocol: `List`,
`PersistCompleteScan`, `Plan`, `ReadTuples`, `WriteBatch`, `Verify`,
`CommitVerifiedDocuments`, failures at every step, and drive syncs (`SyncList`,
`SyncRead`, `SyncCommit`) that rewrite the same rows. Time passes in ticks. A
listing is taken at one moment (right for a walk that no edit disturbs,
`UndisturbedWalkIsListing`), as is a
read of all relationships (three requests in the code). One run at a time
executes, which `SyncRuns` shows.

### ProvenanceGraph, PermissionSafeQuery, AnswerContract (checked and proved)

`ProvenanceGraph` is the Neo4j data: the writer transaction statement by
statement (`UpsertDocument`, `ReplaceDocumentChunks`,
`ReplaceDocumentEntities`) and the three searches with their provenance clause,
ranking, LIMIT, check of the results and fusion. `PermissionSafeQuery` is
`answer_query`, one action per store it talks to, with re-indexing, changing
grants and changing evidence between any two. The context keeps any chunks
there is room for, and facts only after all chunks. `AnswerContract` is the abstract specification: what an
answer cites was granted at one moment, had evidence at a later one and again
at a third; everything else is one refusal. `Contract` is the INSTANCE with the
refinement mapping and `KeepsContract` the refinement, checked and proved.

Chunk-to-entity edges are left out (no query reads them); connection and file
id follow from the document id. One connection.

## 3. Runs

| Run | Instance | Shows |
|---|---|---|
| `uv_refresh` | 2 documents, 2 workers, 1 run, 2 markers, cap 1, generations up to 2 | `EvidenceRestsOnCurrentAnswer`, `RefreshFailsClosed`, `EvidenceIsCurrentGeneration`: two deliveries of one run with sweeps, retries, crashes, reconnects and cutovers in any order, above and below the cap (1,003,166 states) |
| `uv_stray` | as `uv_refresh`, smaller | violation: direct tuples appear after a cutover |
| `de_recovery` | 2 messages, 1 sync, 3 edits, 1 fault, 2 attempts, 1 retry, one unreadable content | `GateHasProvenance`, and `ExtractionSettles` under fairness (890,838 states) |
| `de_gate`, `de_excluded` | 2 messages, 1 sync | violations: a second sync closes the gate for good; an edit during an exclusion is never fetched |
| `dw_scan` | 2 users, 2 groups, 2 folders, 1 document, 4 edits of which 2 may fall into a walk, pages of one entry, sample of two | `ViewIsDriveAccess`, `LeftOutForAReason` in every state of Drive; `FindsWhatStays`, `YieldsWhatWasStated`, `ListsFoldersOnce`, `UndisturbedWalkIsListing` for every walk over it (303,013 states up to symmetry) |
| `ds_bound` | 1 user, 1 group, 2 folders, 1 document, 1 run, 1 sync, 1 edit, 1 fault | `AllowedOverRecentTuples`, and `EntitledUserIsServed` under fairness (223,631 states); the one edit may put the root below the folder, so that a run meets a cycle and is refused |
| `ds_batches` | 2 folders, batches of one | violation: a half-written set grants what Drive never granted |
| `psq_answers` | 2 documents, 3 extractions, 1 user, 1 query, limit 2 | `KeepsContract`, `OnlyAllowedDocumentsMatter`, `WrittenIsFound`, `OthersAreUntouched` (57,792 states) |
| `sr_lifecycle` | 2 runs, 2 messages, 1 retry, lock of 2 ticks, executions of 1, 1 fault, 1 request | `OneWorkerAtATime`, `SuccessIsFinal`, and `RunsSettle`, `EvidenceReturns` under fairness, for both tasks (193,253 states) |
| `go_connect` | 2 accounts that have one address after the other, 1 browser, 2 requests, 1 login flow, 2 Drive flows, 1 cutover, visibility runs | `OneActivePerEmail`, `ActiveIsConsented`, `RevokedIsNotHeld`, `InactiveHoldsNothing`, `EvidenceIsOfPresentConsent` (1,449,924 states) |
| `go_login` | 2 accounts of 2 addresses, 2 browsers, 2 requests, 2 login flows, 1 Drive flow | `SessionIsProved`, `StoredFlowIsOwn` (307,678 states) |

Why the bounds are enough. Two workers are needed and suffice for one to
supersede another; a third adds nobody new to be superseded by. Two documents
separate the cap and "this one but not that one". Two values of each generation
make everything held over a reconnect or a cutover old; only equality is
compared, and the proofs have no bound. Three edits and a
fault allow an edit during an extraction, one during the next and a lost
worker. Nested groups need two groups, inheritance two folders. Two edits
during a walk move an item out of one folder and into another; pages of one
entry give every folder with two children two pages. Two documents
with limit 2 and extractions of up to two chunks make LIMIT, fusion, ambiguous
endpoints and repeated relationships all happen. Ages are compared with
`MaxAge` and `StaleTimeout` only, so one tick each for the age, a run and a sync, and two for
the lock, tell all orders apart. Two messages and two runs let a second
delivery meet the first and a new run meet an old one. Two accounts and
requests are what an address that moves and a late save need, and two browsers,
in `go_login`, a session used elsewhere; a consent may be answered by an account
that is not logged in, so one browser serves both accounts in `go_connect`. Two
Drive flows let a reconnect overlap the first connection, and a visibility run
of the first authorization commit after it.

Bounds: `MaxConnGen`, `MaxAuthGen`, `MaxMarker` (UserVisibility),
`MaxEdits`, `MaxFaults` (DocumentExtraction, DriveAccess,
DelegatedPermissionSync), `MaxWalkEdits` (DriveWalk), `RunLimit`, `SyncLimit`
(DelegatedPermissionSync), `WorkLimit`, `MaxFaults`, `MaxRequests` (SyncRuns),
`MaxGeneration`, `MaxLogins`, `MaxAnswers` (GoogleOAuth). `MaxRetries`,
`MaxAttempts`, `StaleTimeout`, `MaxAge`, `PageSize`, `SampleSize`, `BatchSize`
and `MaxDocuments` are settings of the program, made small.
Deadlock is checked except in the bounded instances that use up their
counters (`UserVisibility`, `GoogleOAuth`, `DriveWalk`, `ds_batches`).
`de_recovery`, `ds_bound`, `psq_answers` and `sr_lifecycle` check it.

The revocation bound of `AllowedOverRecentTuples` is the maximum age plus the
duration of a run and of a drive sync: the age of evidence starts at the commit
of a run, not at its listing, and a drive sync may write back evidence it read
when it began. `src/docs/permission-sync.md` names the maximum age alone.

Fairness. `DocumentExtraction`: workers continue what they received, time
passes, beat runs the sweeper (`CELERY_BEAT_SCHEDULE`); syncs are not
scheduled, so `ExtractionSettles` is conditional on somebody triggering them
for ever. `DelegatedPermissionSync`: beat starts permission runs and workers
carry runs and started syncs on; drive syncs, edits, failures and ticks are not
fair. `SyncRuns`: workers go on with what they received, beat runs the
scheduler and the sweepers (`CELERY_BEAT_SCHEDULE`) and time passes; faults,
requests and reconnects are not fair. Nothing else assumes fairness.

## 4. Findings

Each is a run that ends in the counterexample.

1. A worker that validated the connection before a cutover leaves direct tuples
   behind under the delegated authority (`uv_stray`). They count there: the
   lookup asks for `view` (`lookup.py:146`, `client.py:210-218`), which unites
   `oauth_viewer` with the rest (`schema.zed:29`). The cutover takes the
   verification of every document away and a delegated run writes the exact set,
   so tuples that are there when it reads are deleted (`authorization/sync.py:95-109`);
   one written after the read-back of a run grants its document, once the run
   has verified it, until the next complete run.
2. In per-user mode a second metadata sync closes the gate of an extracted,
   unchanged document and nothing opens it again (`de_gate`).
3. An edit made while a file is excluded is never exported (`de_excluded`).
4. Relationships are written in batches while documents stay eligible
   (`ds_batches`), against the fail-closed checklist.

Quotes and lines are in `PROJECT.json`.

The models show some more behaviour worth knowing, which no run states as a
property of its own:

* A run failed by the sweeper can be finished, and its withheld evidence
  restored, by its slow worker: the commit (`user_visibility_sync.py:225-260`)
  reads generations and markers, not the status of the run.
* The outcome of an extraction is filtered by hash alone (`tasks.py:545`), so
  content that changes and changes back can open the gate over other chunks.
  `GateProvenance` is proved under `~Reverts` and fails without it.
* A running run whose redelivered message uses up its retries against the lock
  its lost worker left is recovered by the sweeper only (`tasks.py:115`,
  `383-385`); until then, minutes later, its evidence stays withheld.
* The delegated lookup asks SpiceDB and then PostgreSQL (`lookup.py:146`); a
  run may delete the tuple and commit new evidence in between, so both answers can be
  positive although they never were at one time. `AnswerContract` promises the
  two moments and no more.

## 5. Proofs

Everything below holds for all values of the constants that satisfy the named
assumptions of the modules.

* `UserVisibility_proofs`: `TypeCorrect`, `EvidenceCurrent`, `EvidenceAnswered`,
  `RefreshClosed`. The safety properties are not inductive: a commit is right
  only if the worker's marker is unique, what it holds was answered since the
  last fence, and a cutover in progress has already darkened the connection.
  `InductiveInvariant` adds exactly these: `MarkersIssuedOnce`, `AnswersHold`,
  `CutoverDark`. The proof has one lemma per group of actions.
* `DocumentExtraction_proofs`: `TypeCorrect` and `GateProvenance`, the latter
  under `~Reverts` (see section 4 for what happens without).
  `ProvenanceInvariant` adds `VersionsGrow` (no row or message is ahead of the
  file) and `WrittenIsInGraph` (a task past its write, whose hash is still
  current, wrote what the graph holds).
* `SyncRuns_proofs`: `TypeCorrect`, `OneWorker`, `SuccessFinal`. That one worker
  is at work needs `LockHeld` (whoever executes holds the lock, and the lock is
  as old as the execution, so it cannot expire under it while `WorkLimit <
  StaleTimeout`); that a success is final needs `RunInHand` (what a claimed run
  may be while a worker is between two steps).
* `GoogleOAuth_proofs`: `TypeCorrect`, `SessionProved`, `OwnFlow`, `OneActive`,
  `Consented`, `InactiveNothing`, `EvidencePresent`, `RevokedNotHeld`, from three
  invariants. `FlowInv`: what every saved session and every copy in a request holds was
  begun in that browser and, for a Drive flow, by the address of its user. `TokensApart`: a refresh token
  is in one place, a code unspent, a request, a row, a disconnect's hand or
  Google's list of revoked ones. `RowsStand`: what an active row rests on
  (`ConsentStands`), and that evidence is of the authorization the row has now
  (`EvidenceStands`), which every connect renames and the commit compares.
* `DriveAccess_proofs`: lemmas on listings and desired relationships that the
  next two cite, and `ReachedIsClosure`. Access is a matter of paths of any
  length, through groups in groups and folders in folders, which `Reached`
  follows step by step, and no induction on a path can be stated here. Instead:
  what a step adds does not change the least closed set, so if some set of
  nodes were not mapped to its closure there would be a largest one (subset is
  well-founded on the finite set of nodes, `NodesAssumption`), where the
  recursive equation unfolds once and refutes it. From then on a path is ruled
  out by a set it cannot leave (`ReachedIsLeast`) and never followed.
  `NodesAssumption` also says that people and groups are not files, whose
  SpiceDB objects have other types.
* `DriveWalk_proofs`: `WalkTypes`, `WhatStaysIsFound`, `WhatIsYieldedWasStated`,
  `FoldersAreListedOnce`, `UndisturbedWalks`, `ViewsAreDriveAccess`,
  `NothingLeftOut`. The strengthening: a child
  that stays in a folder already visited was seen, is on the page in hand, or
  that folder has a page to come (`Covered`, `Paged`); a folder that was seen
  was visited or waits, once (`Ordered`); an entry that was seen was handed to
  the caller (`Handed`). For walks that no edit disturbs, `Undisturbed`: what
  was seen is below Root and was handed on as Drive states it (`AsListed`). That
  nothing is missing at the end is `Covered` once more.
  `ViewsAreDriveAccess` has two halves. Whom Drive lets in is let in: the folder
  the item was shared on is the item itself or a source of the inherited
  permission, so the entry is written or a parent relationship stands for it
  (`InheritedFrom`, `GivenHereIsWritten`), and memberships are written as deep
  as the user's (`PlannedMembership`). And nobody else: the items a user may
  view with the groups the user is in are a set no planned relationship leads
  out of (`ViewsEntitled`). Both hold under any circles among folders; the
  hypothesis `HierarchyIsAcyclic` of the property is the check of the code, which
  stops such a run. `NothingLeftOut`: an unusable folder spreads only to what is
  below it (`InvalidIsBelow`), and groups in sight that do not nest in
  themselves resolve (`GroupsInSightResolve`).
* `DelegatedPermissionSync_proofs`: `TypeCorrect`, `RevocationBound`. A tuple
  may be old; the theorem holds because fresh evidence dates every one of them: a
  run commits evidence only after it read back exactly what it planned
  from its listing (`RunsRecent`), and from then on every tuple of the set, as
  long as any evidence of that run is young, was stated at most that long ago
  (`EvidenceRecent`), also when a drive sync writes back what it read earlier
  (`SyncsRecent`).
* `PermissionSafeQuery_proofs`: `QueryTyping`, `QueriesKeepContract`,
  `OnlyAllowedMatters`, `OthersStay`, `WhatWasWrittenIsFound`.
  `QueriesKeepContract` is the refinement, `Spec => KeepsContract`.
  `QueryInvariant` says what a query record holds at each step; each action
  then maps to one action of `AnswerContract` (`LookUpGrants` to `Grant`,
  `LookUpEvidence` to `Allow` or `Refuse`, `Recheck` to `Confirm` or `Refuse`,
  `Generate` to `Answer` or `Refuse`, `Fail` to `Refuse`, changes of grants and
  evidence to `AccessChanges`) and the searches and re-indexing to stutters. The proof never looks
  into the searches: whatever Neo4j returns, the answer cites only what the allow list and the
  recheck leave. `OnlyAllowedMatters`: the matches of a pattern restricted to
  some documents are those of the part of the graph they contributed, and
  ranking and LIMIT come after. `OthersStay`: nodes and edges are named after
  their document and an edge has both its ends (`Named`), so the writer's
  DETACH DELETE takes exactly the document's own; what it leaves for a document
  is a function of the last extraction (`Contribution`), so writing it again
  changes nothing. `WhatWasWrittenIsFound`: after a write the graph restricted
  to the document is exactly that contribution, and a document that was
  written keeps its node (`Stored`). The condition `anchored` was found by the
  proof: the writer keeps the last of several equal statements and does not look
  whether that one's chunk exists, so an earlier one that was well placed would
  be lost with it. The extractor cannot produce this: it gives each statement
  the index of the chunk it was read from (`graph/graphrag.py`). A
  ranking is modelled as the set of results it may have (`FuseChunkRankings`,
  `Tops`), so nothing rests on there being exactly one.

Every invariant, action property and refinement that a passing run checks is a
theorem. Only model-checked are the liveness properties, `ExtractionSettles`,
`EntitledUserIsServed`, `RunsSettle` and `EvidenceReturns`: liveness and ENABLED
are out of the prover's reach. So is induction over data, which is why a
recursive definition is either a function over finite sets, treated as above,
or not looked into by any proof.

## 6. Not modelled, and the plan

Not modelled: parsing of Google's answers, content export, root candidates,
language models and embeddings, token encryption, HTTP serializers, settings
validation, health checks. They are pure, remote or read-only; the models see
their outcomes. The checks the lookup makes on domain, scopes and the number of
users are configuration and are not modelled either. The rows of metadata runs
(`DriveSyncRun`) record what happened; the sweeper closes old ones
(`tasks.py:434-453`), and they guard nothing.

Simplifications inside the modules, none of which a property depends on:

* `UserVisibility`: a run is looked for and created in one step; beat does it
  in two (`tasks.py:354-369`), so two open runs can arise; as with two workers
  on one run, the markers decide whose rows stand. One cutover at a time, its
  deletions in one step; so the later check of the generation (`permission_authority.py:157`)
  never fails here. Withholding for the user cap, which only denies, is left out.
* `DocumentExtraction`: a failure between the graph write and the outcome is
  covered by the crash at that place, after which the message is delivered again.
* `SyncRuns`: a retry is sent after the lock is released, the code sends it
  just before (`tasks.py:79-83`) with a countdown; the two statements of the
  visibility sweep are one step, which `UserVisibility` has apart.
* `PermissionSafeQuery`: the recheck and the assembling of the context are one
  step, between which no shared store is touched.
* `GoogleOAuth`: a flow begins on the stored session, where the code cycles the
  key of the copy it loaded; a callback's state and code come from the same
  consent (state, nonce and PKCE verifier are one name).

Next, in this order:

1. `DelegatedQuery`: a query composed with the permission sync, to say how far
   the two moments of the delegated lookup can disagree (`lookup.py:146`).
2. `PermissionAuthority`: cutovers against delegated runs, over both kinds of
   relationship, and the selection of another root, which keeps the generation
   (`models.py:46`).
3. `RowLockOrder`: the orders in which transactions lock connection,
   authorization, run and document rows.
4. Per-document gates in delegated mode (content currency), with content and
   permissions in one model.

## 7. Running

    tlc -workers 2 -config PermissionSafeQuery_answers.cfg MCPermissionSafeQuery
    tlapm PermissionSafeQuery_proofs.tla
