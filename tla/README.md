# A TLA+ model of oncall-agent

oncall-agent takes alerts from Alertmanager, diagnoses them in the background
with knowledge documents it retrieves, and shows reports whose every claim leads
back to recorded evidence. This directory models the part of it that is hard to
test: what happens to a run, a notification, an alert batch, a document, a chat,
a session, a page or a search when workers, requests, restarts and failing
services interleave. The modules are written from the Go source; `PROJECT.json`
maps each definition to its lines.

Contents: [the system](#the-system), [modules](#modules),
[runs](#runs), [fairness](#fairness), [disagreements](#disagreements-with-the-documents),
[proofs](#proofs), [what is not modelled](#what-is-not-modelled), [plan](#plan).

## The system

One process, one SQLite file, Redis (asynq), Qdrant, an embedder, a judge model
and a webhook receiver. `sql.DB` has one connection and every transaction is
immediate (`database.go:17-41`), so transactions never overlap: **a transaction
is one step** in every module. Everything else (a call to Redis or Qdrant, a
POST, returning to asynq, taking a lock) is a step of its own, and the process
may exit between any two steps.

| component | state | operations | interacts with | hard because | correct when |
|---|---|---|---|---|---|
| diagnosis runs (`service.go`, `diagnosis.go`) | run row, lease, events, citations | claim, diagnose, judge, finish, Recover | outbox, asynq workers, `/plan` requests | leases run out under a working executor; redelivery; exits; panics | one attempt owns the facts; one report; a final run stays as it is; accepted runs finish |
| outbox and queue (`service.go` Dispatch, `queue.go`) | outbox rows, asynq tasks | snapshot, enqueue, mark, back off | runs, notifications, cleanups | Redis and SQLite share no transaction | every row is delivered, none is forgotten |
| notifications (`service.go`, `notify.go`) | notification status, outbox row | ProcessNotification | webhook receiver | a reply can be lost; the last retry decides | sent means delivered; duplicates only in doubt; every one settles |
| admission (`admission.go`) | incidents, observations, runs, idempotency rows | Admit, insertRun, ReDiagnose | runs, queue readiness | batches repeat, regroup, arrive late; refusal half way | no incident without a run; recoveries audited and final; replays stable |
| knowledge (`knowledge.go`, `readiness.go`, `rag/versions.go`) | documents, versions, chunk rows, Qdrant points, in-memory projection | PutDocument, DeleteDocument, ReindexDemo, cleanup, probe, RestoreProjection | diagnose (search and citations) | three stores, no common transaction; search precedes the lock | what is published is complete; projection equals SQL; citations are current |
| legacy report pipeline (`handler/alert.go`, `queue.go`) | ring, snapshot file, tasks by payload hash | Alert, RunAlertDiagnosis, notice, restart | asynq, disk | eviction against backfill; lost replies; panics; executions that outlive the task timeout; torn files | a report is shown once; notices agree with reports |
| import and backup (`migration.go`, `cmd/workspacectl`) | archived rows, backup file | import, backup | the old process's file | the file changes while it is imported; commands overlap | whole snapshots in the original wording; no backup overwritten |
| chat (`handler/chat.go`, `agent/react.go`) | session histories, LRU order | Run, touch, clear | model, tools | eviction of a session in use; failures half way; the context ends | turns never mix; tables bounded; failures not hidden |
| auth (`auth/auth.go`) | sessions, rate-limit windows | login, logout, current, middleware | all requests | capacity and expiry, requests between two critical sections | limit holds over any minute; no session lost early or resurrected |
| retrieval index (`store/qdrant.go`, `rag/*.go`, `readiness.go`) | collections, markers, BM25 statistics, projection per process | probe, index, restore, delete, search | server, MCP process, legacy process | check-then-act on a shared collection; incremental statistics | statistics equal a recount; spaces are not mixed |
| topology (`topology.go`) | declared links with validity | load, ForService | read API | cycles, links that are not valid now | what is affected is what is reachable, with a path that exists |
| evidence graph (`readmodel.go`, `handler/workspace.go`) | none | Graph with focus, depth and limits | evidence of all attempts | truncated twice | nothing dangling, everything omitted is counted |
| lists and timeline (`handler/workspace.go`) | none | cursors, polling | all tables | cursors over changing lists, equal stamps | no item skipped or repeated |

The remaining parts (metrics proxy, tools and MCP adapter, tracing, configuration,
web console, evaluation tools) keep no state that others depend on.

## Modules

### `OutboxQueue`
Delivery of outbox rows, shared by the modules below that deliver something.
`outbox` is the row's state (`backoff` is pending with a later `next_at`);
`task` and `retried` are what Redis holds for the item's TaskID; `batch` and
`offer` are the locals of the one running `Dispatch` (`dispatchMu`): the rows it
read once, and the result of the enqueue call whose transaction is still to
come. An enqueue may fail after Redis stored the task. asynq itself is external
and modelled from how `queue.go` uses it: a TaskID is taken while any task has
it, archived ones included; an error retries up to `MaxRetry` and then archives;
`SkipRetry` archives; success frees the TaskID (no retention); a recoverer takes
active tasks back from dead workers; a graceful shutdown hands them back.

### `DiagnosisRun` (extends `OutboxQueue`) and `RunLifecycle`
`run` is `diagnosis_runs.data`, `lease` says whether the run is running under a
lease in the future, `log` keeps what the properties need of `run_events` (the
attempt of the last event, the report events), `exec` holds the locals of every
executor: asynq goroutines and `/plan` requests, both in `ProcessAlertDiagnosis`.
An executor keeps the `Run` it got from claim (`attempt`, `dispatch`) and uses it
while others change the row. One action per transaction: `Claim` (with its early
returns `ClaimTerminal`, `ClaimLeased`), `BeginRetrieval`, `RecordRetrieval` or
`RecordUnavailable`, `CiteHit` or `SkipHit` per hit, the judge's events,
`Finish`; `FencedOut` is `ErrFenced` in any of them; `StepFails` and `StepPanics`
lead to the deferred finish (`Abort...`). `Boot` is `Recover`. A lease may run
out at any moment, which also covers that `lease_until` and `next_at` are
compared as strings. Not in this module: what ProcessNotification later writes to
the row (`notification_status` and a revision), which is `NotificationDelivery`.

`RunLifecycle` is what a reader of a run is promised: accepted once, numbered
attempts, citations recorded by the running attempt, one final report. The
refinement mapping takes status, attempt, citations and report from the row.

### `NotificationDelivery` (extends `OutboxQueue`)
`ProcessNotification` as read, post, record; `posts` counts what the receiver
accepted, `unsure` (history) how often the sender could not record that,
`txfailed` (history) that a record was lost otherwise. The "started" event is recorded with the read, on which nothing depends.

### `Admission`
`Admit` is a loop within one transaction. Its writes are kept in `tx` and reach
the tables at the commit; `Rollback` is possible at every point, `Unavailable` is
the refusal after the loop. Observations are stored in rowid order, because
insertRun takes the one with the highest rowid as evidence. Times are half
seconds so that the string order of RFC3339Nano (`StampAfter`) can differ from
the order of time. Hashes are injective: an incident is its canonical key.

### `Knowledge` and `DocumentStore`
SQL tables (`doc`, `ver`, `rows`, `idem`, `cleanup`), Qdrant (`vec`), the
projection (`mem`), and local states of requests, the cleanup and diagnoses.
`knowledgeMu` is not a variable: `Writing` and `Reading` say who holds it. Each
handler (`Create`, `Update`, `Upload`, `ReindexDemo`, `Delete`) reads what it
reads before the lock, then PutDocument runs statement by statement: row, stage,
key, one chunk after the other, publication, projection. `ReindexDemo` and
`Delete` are one file or document at a time, as the code takes the lock.
Hashes are injective and there is one embedding space; content is a body.

`DocumentStore` is what editors and diagnoses are promised, as if there were one
store: a document says one version at a time, a request takes effect once or not at
all, at one moment and on the version its client knew, and what is about to be cited
is not changed. The refinement mapping takes what a document says from its row, a
wish from a request until the transaction that grants it, and a citation from the
hit a diagnosis has qualified.

### `LegacyReports` and `LegacyImport` (extends it)
The report pipeline of the releases before the workspace. `cmd/server/main.go` no
longer wires it; its snapshot file is what `workspacectl import-legacy` reads.
`ring` and `file` change together under the ring's mutex, or the file stays behind
(a failed write is only logged). `hook` is a webhook request between its critical
sections, `task` what Redis holds for a payload's hash, `worker` a goroutine in
`ProcessAlertDiagnosis`: update, run the chain, write (`update`, and on a miss
`add` in a second critical section), notify, return. What the chain computes is
one of `Outcomes`. A task has ten minutes (`asynq.Timeout`, `queue.go:97`). Then asynq
records a failure and retries or archives it, while the handler goes on: the ring
does not look at the context, and `ingestIncident` embeds and upserts under
`context.Background()` (`alert.go:488-509`). `Timeout` is this step: the worker's
`time` is over, it executes nothing for asynq (`Executes`), keeps writing, and what
it returns is ignored, SkipRetry too; another worker may take the retry beside it.
`overdue` remembers the reports this happened to. The server executes `Concurrency`
tasks at once (2 in `queue.go:176`), not counting workers that are over time; how many
of those there can be is bounded by `Workers`. `Reclaim` is the other way a task is
taken back: its process is gone. `LegacyImport` adds `cmd`, the invocations of workspacectl:
read the file, commit all rows or none, or copy the database and link the copy.

### `Auth`, `Chat` and `Console` (extends both)
`Auth`: each critical section of `Auth.mu` is a step: the rate limit, the insertion
of a session, the lookup in the middleware, the lookup or deletion in the handler.
`req` says what a request has reached; `born`, `loggedOut` and `grants` are
history; `grants` holds what a limit let through in the last minute, as key,
instant and request. The instant a login uses is read before its lock. `Chat`: a turn copies its history, loops
over model and tools, may fall back to a search, saves, replies and clears its
session; `ReAct.mu` is held in the copy, the save and the clear only. A turn's
context may end at any step. `Console` routes what the middleware lets in for
`/chat` to a turn. Sessions, windows and histories are Go maps: `Tables` has
their assignment (`With`), for these modules and the next ones.

### `Paging`, `EvidenceGraph`, `Topology` and `ReadModel` (extends all)
`Paging`: rows with stamps and a filter bit that may change, one walk over the
pages by cursor, one client that polls the timeline. `Sorted` is `sort.Slice` by
stamp and id, a total order, as the listing that is in that order. `stayed` (history) is what a
complete walk owes its client. `EvidenceGraph`: the rows attempts record, and
`View`, the response as a function of them and of focus, depth and limits. Its loops
that filter are `Kept`, what is at some places of a sequence in their order, and the
edges are numbered row by row.
`Topology`: the configuration, and the two breadth-first searches of `ForService`
one link a step, with the service in hand and the place among the links as their
locals; the property compares them with the smallest closed set.
In one behaviour of `ReadModel` the client looks at one of the four (`view`).

### `BM25` and `RetrievalIndex` (extends it)
`BM25` has the operators of the index on a record of entries and counts, and
`Recount`, the definition they are compared with. A loop over chunks (`RestoreChunks`,
`deleteDoc`, `deleteSource`, `DeleteVersionWithContext`) is one step for all of them:
it holds the index's lock or `projectionMu`, and while the counts are right the order
of its entries makes no difference. `RetrievalIndex` has processes
(`proc`) with a configuration, a validated space, a projection and a BM25 index,
sharing SQL (`active`, `deleted`, `pending`) and collections with a marker.
`EnsureCompatible` and `EnsureSpace` are one step for each call to Qdrant. Writes
of the server are serialised by `knowledgeMu` and their failures belong to
`Knowledge`; here only lost replies matter. The legacy process has unlocked
requests (`job`) that change the store and then the index. A version has one
chunk; `Search` is what a fused search could return without its limits.

### `MC...` and `*_proofs`
The MC modules add symmetry sets, fault sets, batches, mixes of requests, links
and configurations. Each of `DiagnosisRun`, `NotificationDelivery`, `Admission`,
`Knowledge`, `LegacyImport`, `Console`, `ReadModel` and `RetrievalIndex` has a module
of proofs.

## Runs

All deadlock checks are off: requests, failures and exits are bounded, so every
behaviour may come to rest.

| run | instance | shows |
|---|---|---|
| `DiagnosisFencing` | 1 run, 1 worker, 1 `/plan` request, 1 retry, 1 exit, 2 failures (enqueue, transaction, timeout or panic), judge and webhook on | types; attempts exclusive; citations, report, evidence status and timeline of one attempt; final stays final; revisions rise; the model implements `RunLifecycle` |
| `DiagnosisLiveness` | 2 runs, 1 worker, 1 exit, 1 failed enqueue | accepted runs become final |
| `NotificationDelivery` | 2 notifications, 1 exit, 1 retry, 3 failures of any kind, the webhook may be gone after a restart | sent means delivered; duplicates need doubt; sent is final; each becomes sent or failed unless a record was lost |
| `AdmissionSafety` | 2 alerts, one without startsAt, 2 windows, 5 batch shapes, 2 manual runs | coverage by runs, evidence, audit, no roll-back of a recovery, stable replays |
| `KnowledgeSafety` | 1 demo document, 2 bodies, 2 writers, 1 diagnosis, every failure but that of the index (`KnowledgeCleanup` has it) | published is complete, projection follows SQL, hits resolve, citations current; the model implements `DocumentStore`, which excludes lost updates |
| `KnowledgeCleanup` | 1 document, 2 requests of every kind, keys, repeated failures | deletions are cleaned up |
| `LegacyImport` | 3 webhooks with one payload, ring of 2, 2 workers, 2 failures of any kind, the task timeout among them, 1 exit, 2 commands; a constraint on how many of these meet | reports shown once unless a worker outlived the timeout; notices agree unless an exit or the timeout took the task; archive in the original wording; no backup overwritten |
| `Console` | 4 requests, 2 at a time, of all kinds but chat or all chats; tables of 1 window, 2 sessions and 1 history; 2 logins, 1 read and 1 re-diagnosis per window; 4 instants | limit over any minute; session table sound; chats stateless and bounded; failures not hidden |
| `ReadModel` | 4 rows with 2 stamps and 1 change; 5 events; 5 evidence rows in 2 attempts; 5 links among 4 services with 3 validities | pages and polls exact; graph honest; topology is reachability |
| `RetrievalIndex` | server and MCP process, 3 models (2 of one dimension), 2 collections, 3 starts, 3 writes; or a legacy process with 2 requests at a time | statistics equal a recount; a search stays in its space |

Why these bounds are enough to be interesting. Fencing needs two executors on
one run: one that lost its lease or its process and one that took over; a worker,
a request and an exit give all pairs. There are two failures, so that an
execution can fail and then fail to say so, which leaves the run to its lease.
The proofs cover any number of executors. One retry is enough to reach both the retry
and the archive; `DiagnosisStranded`, which depends on the number, uses the real 3. Runs do
not share state except the queue and the worker, so a second run matters only to
liveness (one worker must serve both). Two bodies give replace, restore and
delete-and-publish-again of a document; two writers are the smallest race.
In `KnowledgeSafety` failures are not bounded in number; a failed index write is left
to `KnowledgeCleanup`: the request ends there as after a failed statement of SQL, with
the version noted as failed, and the theorems hold for every set of failures. Three webhooks overflow a
ring of two, so that a report is evicted before its worker writes it; two commands
are the smallest overlap. Two workers are one that outlived the timeout and its
retry, and two failures let the first of them also panic or the file fall behind. The
state constraint `FewAtOnce` of `MCLegacyImport` leaves out behaviours in which many
of these meet: two commands overlap while nothing has failed, one command meets with
one exit or failure, and an exit with two failures, or two failures, meet while no
command has begun. The exceptions of `OneEntryPerReport` and `NoticeAgrees` are reached
within it (without `overdue` in either, TLC finds a violation), and the proofs have no
such bound. `AdmissionSafety` has one body of manual requests; another body under a
used key is refused and changes nothing, and `ReplaysProved` holds for any bodies. A
minute straddles two windows with two logins per window: three logins in a minute are
met. A window table of one, a session table of two and a
history table of one are full in reach of four requests. Four rows with two stamps
put equal stamps on both sides of a page boundary. The five links have a cycle
through the focus, a detour, and a service the focus depends on. Two models of one dimension are what a
dimension check cannot tell apart, and the second start is the restart with
another model.

Three variables only bound what meets in one behaviour: `mix` in `Console` (chats
do not look at sessions, windows or the clock), `view` in `ReadModel` (the four
reads share no state) and `fleet` in `RetrievalIndex` (a legacy process is not run
beside a server of this release).

Attempts, revisions and posts are unbounded in the modules; in the runs they are
finite because exits, retries, requests and failures are.

## Fairness

`DiagnosisRun`: goroutines continue; the two-second ticker of `main.go` calls
Dispatch, whose steps follow; asynq hands out and reclaims tasks; leases and
backoffs elapse; a stopped process is started again (by its operator: no `restart:` is configured in
the compose files). All of this is weak fairness. `NotificationDelivery` takes strong fairness for asynq
handing out a task, since its single goroutine alternates between pending tasks
(a Redis list, first in first out). `Knowledge` takes strong fairness for
the cleanup: it is retried by every tick for ever, so a lock, Qdrant and SQL that
are available again and again are eventually met. No run owes a request, a
failure or an exit. The other modules state safety only and have no fairness.
`EventuallyFinal` is checked for exits within asynq's retry
limit only; beyond it, it is false (next section).

## Disagreements with the documents

Two runs expect a violation. Each states what a document, comment or test says.

| run | what TLC shows |
|---|---|
| `DiagnosisStranded` | after asynq archived the task, the redelivery meets its TaskID, is marked sent, and an accepted run is never executed (`service.go:109`) |
| `KnowledgeUpload` | an upload of an earlier body after a delete or a change is answered as a replay and publishes nothing (`handler/workspace.go:747-751`) |

`PROJECT.json` quotes the sentences.

More places the models make visible, without a run of their own:
- `resolved_at` values are compared as RFC3339Nano strings (`admission.go:196`).
  The format drops a zero fraction and `Z` is greater than `.`, so "...05Z" counts
  as later than "...05.5Z": within a second a late message can roll a recovery
  back, which `docs/06_ACCEPTANCE_TESTS.md:29` (DATA-01) excludes. `Admission` has
  this (`StampAfter`), and `RecoveryNeverRolledBack` speaks of whole seconds.
- finish saves the `dispatch_state` of claim time over the one Dispatch wrote
  meanwhile (`service.go:294-335`), so a finished and delivered run may show
  `pending`. `DiagnosisRun` has this (`FinishedRow`), and no property denies it.
- The final status of a notification is written only in the transaction of
  asynq's last try (`service.go:377-384`). If the process exits in that try, or
  the transaction fails, the notification stays pending; hence the exceptions of
  `NotificationSettles`.
- Publishing an old body again sets its version row back to staging
  (`knowledge.go:136-145`). If indexing then fails, a retry with the key that
  published the body before is answered with a conflict, not with its version.
- Legacy pipeline: when a task runs into its timeout, its handler and the retry write
  the same report. If the ring evicted it, both may miss it in `update` and both add it
  (`alert.go:297-299`): GET /reports and the snapshot show it twice, and an import of
  the file is refused if the two differ. If the first handler panics after its timeout,
  it announces a failure, its SkipRetry is ignored, and the retry may write done: the
  contradiction that `alert.go:370-373` gives as the reason for SkipRetry, and that
  `queue.go:124-126` and `alert.go:409` take to be impossible. The same holds after an
  exit between the notice and the return. Hence the exceptions of `OneEntryPerReport`
  and `NoticeAgrees`.
- The limits are per fixed window. `03_API_CONTRACT.md:126` (in
  `handoff/evidence-workspace/docs`) says N per minute; over a minute that straddles
  two windows a key is let through up to 2N - 1 times (`auth.go:90-112`), which is
  what `RateBounded` states.
- Legacy pipeline: if the reply of an enqueue is lost, the handler marks a report
  failed that a worker completes or has completed. An archived task keeps its
  TaskID, so the same alerts sent again after a panic are refused, although
  `queue.go:82-86` counts on a retry to heal them. A report that was imported while
  queued or running makes every later import of its final wording a conflict, and
  with it the whole import.
- Turns that fail or fall back leave their session id in `ReAct.order`, because
  ClearSessions drops only ids with a history; the LRU bound limits them.
  `current` may answer "authenticated" with an empty CSRF token when the session
  ends between middleware and handler.
- `EnsureSpace` counts points and then writes the marker. A server and an MCP
  process with different models can both find an empty collection and both write;
  the second marker wins, and after restarts one collection can hold points of two
  spaces. Searches stay apart because they filter by active versions of the
  process's space. A space id does not contain the collection: after a switch to
  an empty collection of the same model the versions are active without vectors
  and found by BM25 only. An upload of unchanged content after a change of the
  model indexes nothing (`knowledge.go:125-131`). The MCP process restores its
  projection once and does not follow later publications. Replaced versions stay
  in the BM25 statistics until a restart.
- Legacy uploads and deletions of one document at the same time can leave store
  and BM25 index with different contents (`rag.go:167-213`).

## Proofs

Every theorem holds for every value of the constants that satisfies the named
assumptions of the module it is about (`DiagnosisAssumption`, `BoundsAssumption`
and so on: bounds are numbers, sets that are chosen from are not empty, the parts
that must be finite are). They say nothing about the size of a set, so the results
hold for any number of runs, executors, requests, documents, rows or links, and
any number of exits and failures. `ConsoleAssumption` says that a chat turn is
named by its request.

All have one form: an inductive invariant is proved once, action by action
(`InvProved`, or the theorems about types), and the properties the runs check are
its consequences or, for action properties, follow from it step by step. TLC finds
each invariant true on the instance of the module's run (with the quantifiers over
all keys in `LimitInv` and over all sets in `Searched` bounded).

### `DiagnosisRun_proofs`

| theorem | states | argument |
|---|---|---|
| `TypeCorrect` | `[]TypeOK` | inductive as it stands, on lemmas about the queue's parts |
| `AttemptsProved` | `[]AttemptsAreExclusive` | a row's attempt never falls (`AttemptGrows`); an executor gets an attempt only from a claim, which takes one above the row's, and so above everyone's |
| `CitationsProved` | `[]CitationsOfCurrentAttempt` | `NextRow` says what any step may do to a row: nothing, admit, dispatch bookkeeping, claim, cite, finish, recover; each keeps the citations of the current attempt |
| `OneReportProved` | `[]OneReportPerRun` | the same case split: only finish adds a report event, only on a running run, whose set is empty |
| `FinalStaysFinalProved` | `FinalStaysFinal` | no case but dispatch bookkeeping applies to a final row |
| `RevisionProved`, `TimelineProved` | `RevisionRises`, `TimelineInAttemptOrder` | with `Unasked`: before `insertRun` nothing is known of a run, and no event is ahead of its row. Without it a late mark of Dispatch could touch a row that does not exist |
| `EvidenceProved` | `[]EvidenceMatchesCitations` | with `CitedAgrees`: finish decides `has_citations` from what the executor remembers over many transactions, so the memory of an owner must agree with the row |
| `LifecycleProved` | `ImplementsLifecycle` | every case of `NextRow` is a step of `RunLifecycle` on the mapped state or leaves it alone |

The centre is lemma `NextRow`: the fencing condition `Owned` is used there once,
for every action of an executor, and the rest are consequences about rows.

### `NotificationDelivery_proofs`

`SentProved` (`SentWasDelivered`), `DuplicatesProved` (`DuplicatesNeedDoubt`) and
`SentIsFinalProved` (`SentIsFinal`) follow from `Accounted`: for each report, the
accepted POSTs are the doubtful ones, and one more exactly if it is recorded as
sent or the goroutine still holds the acceptance; and nothing that is being posted
is already sent. None of the three properties is inductive alone, because between
the POST and its record the tables and the receiver disagree.

### `Admission_proofs`

`LatestRunProved`, `AlertEvidenceProved`, `ResolvedAuditedProved`, `ReplaysProved`
and `RecoveryProved`. The invariant `Inv` follows the open transaction of `Admit`
beside the tables (`TxSound`): at every point of its loop, what it has written is
sound by itself, extends the tables, knows exactly the known incidents and those a
run will be started for, and rolls no recovery back. A property of the tables is
thus ready at the commit, and a roll-back costs nothing. `PolicySound` and
`IdemSound` tie runs to the keys they are found by.

### `Knowledge_proofs`

`ServableProved`, `CitesProved`, `HitsProved`, `ProjectionProved` and `StoreProved`.
`Inv` says what `knowledgeMu` protects: one writer or any
number of readers (`Mutex`); while a version is being staged it is not served, the
compare-and-swap made before is still good, and its points are complete up to the
next chunk (`StagedSound`); the filter follows SQL except between a commit and its
restore (`ProjectionSound`), and when it is behind its versions still have their
rows (`FilterSound`). `CleanupsBounded` shows that the type's bound on cleanup rows
is never in the way of a deletion.

`StoreProved` is the refinement of `DocumentStore`. Two kinds of steps grant a wish,
the transactions of `Publish` and `Tombstone` (`GrantStores`): by `StagedSound` the
compare-and-swap made before is still good, and by `Mutex` nobody cites. Every other
step of a request is an answer or nothing (`PutStores`), every step of a diagnosis
sets or clears its citation (`ReaderStores`), and cleanups, probes and boots are
nothing (`ProcessStores`).

### `LegacyImport_proofs`

`OneEntryProved`, `NoticeProved`, `ArchiveProved`, `BackupProved`. `RingInv` says who
may still write a report: a task has one report and a report one task
(`TaskSound`); until the timeout a worker has its task to itself, and what it is
about to add is not in the ring, while a worker that is over time is one of an
overdue report (`WorkerSound`); an active task is executed or was cut off by an exit
(`CutSound`); a report that neither an exit nor the timeout cut off has one verdict
(`VerdictSound`). `Reclaim` and `Timeout` are one argument (`TakenBackInv`): the task
is taken from its worker, and its report joins the exceptions. Nothing is assumed of
how many executions of a report overlap. The archive needs no "every report once" of
the snapshot: the transaction refuses a file that has one report in two wordings
(`CommitArchives`).

### `Console_proofs`

`SessionsProved`: `AuthInv` says that a session in the table is as it was issued; an
eviction takes the oldest of a full table, whose others are then enough younger
sessions. `RateProved`: by `KeySound`, the grants of an open window were counted in
it, the request that began it among them, and those before it are fewer than the rate:
they are of one window, and the request that began that window is a minute ago. A key
without a window, because it expired or was purged, has such grants only. So a minute
has less than twice the rate. This is exact: a window may fill at its end, but for its
first request, and the next at its start. `StatelessProved`,
`HistoriesProved`, `HonestProved`: `ChatInv` says that a history is in the table only
from the save to the clear of its own turn, and that a failure travels with an error
until the reply.

### `ReadModel_proofs`

`PollsProved`: the client is never ahead of the run. `PagesProved`: the cursor is the
last row returned, and every row that stayed was returned or comes after it
(`PageInv`). `TopologyProved`: in a search everything found is in every closed set
with the focus, and from everything found that is neither waiting nor in hand all
links were followed (`Searched`); with an empty queue this is the smallest closed
set. `PathsSound` keeps the paths. `GraphProved`: `GraphInv` is little more than types;
the argument is about lists without duplicates (`IsList`), whose length is the number
of their members. Nodes and edges are such lists (`NodesAreList`, `EdgesAreList`: the
edge of a row tells the row and its place), cutting and filtering gives such lists
again (`FirstIsList`, `KeptIsList`), and so counts add up, and a view that omits
nothing, being a part of the same length, is everything.

The pages need that a finite set has an ordered listing. Induction over finite
sets is out of the provers' reach as a rule, but a minimal counterexample is not:
`Smallest` takes one from the well-founded order of strict subsets
(`FiniteSetTheorems`), and `LastExists` and `ListExists` refute it.

### `RetrievalIndex_proofs`

`StatisticsProved` and `SpaceProved`, from `SpaceInv`. The counts are cardinalities
(entries that hold a term, places of terms), so that adding and subtracting is about
disjoint finite sets: an index that equals its recount does so after `Upsert` and
`RemoveEntries`, also where a count falls to zero and is deleted. This is part of the
types: `Indexes` holds the exact indexes only. The rest of `SpaceInv` says of every
process that it knows no space but its model's (`Configured`), that its index holds
its chunks with their texts (`Mirrored`), that its filter lets through chunks of its
space only (`Filtered`), and for the server that the filter is what SQL says except
before a restore (`Current`). The dense search is safe although a collection may hold
points of two spaces, because it is filtered by `Filtered` versions; the sparse one is
complete because of `Mirrored`, and needs exact counts, since a wrong count makes an
idf negative and hides an entry. `RetrievalAssumption` says of the constants that documents
are finite, that texts are sequences of `Terms`, and which processes make a fleet.

### Only model-checked

- `EventuallyFinal`, `NotificationSettles`, `CleanupCompletes`: liveness needs
  fairness and `ENABLED`, which tlapm does not handle.
- `AcceptedRunRecoverable` (`DiagnosisStranded`) and `UploadIsServed`
  (`KnowledgeUpload`) are false of the code.

## What is not modelled

Contents of reports, scores and ranking (a search returns any subset of what the
filter allows), JSON decoding and HTTP formatting, the wording of errors,
`LIMIT 100` of Dispatch (a later tick reads the rest), event sequence numbers
beyond their order, wall-clock time where it only passes, two servers on one
database (`Recover` assumes a single instance), loss of Redis or Qdrant data.
`PersistTopology` (one idempotent transaction), `Summary` and the inventory command
(reads), the filter hash of a cursor, the split of a document into chunks in
`RetrievalIndex` (`Knowledge` has chunks), and `rerank.go` (used by the evaluation
only). Of the components: the metrics proxy, the old planner, embedding and judge
clients, tools, the MCP adapter, tracing, configuration parsing, the evaluation
harness and the web console keep no state that others depend on; their outcomes
appear as choices of the modules that call them. A panic while `diagnose` holds
`knowledgeMu` is listed as a hazard and not modelled: no call there is known to
panic, and after one every writer would wait for ever.

## Plan

Done, in this order: `OutboxQueue` and `DiagnosisRun` with `RunLifecycle`;
`NotificationDelivery`; `Admission`; `Knowledge`; proofs about `DiagnosisRun`;
`LegacyReports` with `LegacyImport`; `Auth`, `Chat` and `Console`; `Paging`,
`EvidenceGraph`, `Topology` and `ReadModel`; `BM25` and `RetrievalIndex`; the proofs
about the other modules; `DocumentStore` and its refinement. Every safety property that
a passing run checks is now a theorem.

Left to model: a composition of admission, execution and notification over one
outbox (an alert that was answered 202 leads to one report and at most one settled
notification), and the metrics API with its cancelled queries.

No module declares a RECURSIVE operator, so all of them can be proved about.
