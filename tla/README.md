# Verification of Stock Analyst

TLA+ models of this repository: the document ingestion and agent task pipelines with the requests,
workers, brokers and browsers around them, the daily sweep for filings, what overlapping agent runs
leave in shared rows, and the algorithms that retrieval, citations and reports rest on. TLC
checks small instances; TLAPS proves theorems for every value of the constants. `PROJECT.json`
lists runs, mutants (one plausible bug of the code per checked property, which the property
catches), hazards, findings, theorems and, for each definition, the lines it was translated from.

    tlc -workers 2 -config MCIngestion.cfg MCIngestion
    tlc -workers 2 -config MCServices.cfg MCServices
    tlapm IngestionProofs.tla         (then IngestionTaskProofs, IngestionDataProofs,
                                       AgentTaskProofs, SchedulerProofs, AgentProofs,
                                       ReaderProofs, ServiceProofs)

## The system

An API server (FastAPI), Celery worker processes (prefork, four per pod under helm) and Celery beat share
Postgres, Redis (Celery's broker and pub/sub), MinIO (files) and Qdrant (vectors). A Next.js
frontend talks to the API over HTTP and one websocket per agent task.

| Component | State it keeps | Operations | What is hard | What makes it correct |
|---|---|---|---|---|
| Document requests (`routers/documents.py`, `scripts/reindex_all.py`) | `documents`, `task_queue`, `coverages.document_count`, MinIO object | upload, retry, delete, reindex | message sent before the commit; three stores, one transaction; handlers overlap with workers | a delete is final; nothing is searchable without a document; task rows follow their lifecycle |
| Ingestion worker (`tasks/ingestion.py`, `pipeline.py`) | the same rows, Qdrant points, `agent_audit_log` | load, download, hash check, parse, upsert batches, finalise; retry, mark failed | retries, process deaths, concurrent runs of one document, read-modify-write | indexed means searchable in full; one execution per task; a running task is owned and settles; duplicates need a race |
| Agent task pipeline (`orchestrator/tools.py`, `orchestrator/tasks.py`, `base_agent.py`) | `task_queue`, `research_outputs`, lent session | dispatch, run agent, save, announce, settle | commits inside a lent `session.begin()` block; several commits per task; event before status | one output row per task; a completed task tells what was saved; a sent task settles |
| Live stream (`streaming.py`, `routers/tasks.py`, `use-task-stream.ts`) | pub/sub channel without replay, socket, shown status | publish, check and subscribe, drop, reconnect | check-then-subscribe, lost connections | who subscribed in time hears the end; a row ends as the last event said |
| Agents (`lynch_pitch`, `munger_invert`, `earnings_monitor`, `base_agent.py`, `coverages.orchestrate`) | outputs, audit rows, the lent session | retrieve, ask an LLM, repair, validate, save, dispatch, log | the first commit closes the session the later steps need | no ended run is without a trace |
| KPI time series (`kpi_tracker/tools.py` and its readers) | `kpi_timeseries` | upsert, mark restated; five readers | no unique constraint, overlapping trackers, ties, each reader its own order | what is marked restated is a change; readers agree where their orders must |
| Industries (`routers/tasks.py`, `industry_analyst/tools.py`) | `industries` and their primer, shared by all tenants | get or create, link, save primer | concurrent creation, partial UPDATEs | one row per name; a primer is one answer |
| Citation enforcer and graph (`citation_enforcer.py`, `graph.py`) | verdict, retry count | six checks, verdict, retry routing | two gates with different patterns, thresholds, loop bound | the stricter gate is the stricter; a pitch ends judged |
| Filing scheduler (`tasks/scheduler.py`) | `last_updated`, known URLs, blocked worker | daily sweep, ingest and wait, monitor | cutoff moved by the first filing; waiting inside a worker; partial failure | no filing is swallowed silently; a sweep ends |
| SEC EDGAR connector (`sec_edgar.py`) | token bucket, CIK cache | acquire, request, retry with backoff | coroutines share the bucket | requests keep to the rate |
| Notifications (`services/notifications.py`) | a sorted set per user, at most 200 | push, trim, mark read, list | read-modify-write, trim | read stays read, the newest stay; bounded |
| Notes (`routers/notes.py`, `analyst-notes-editor.tsx`) | one row per coverage and user, debounce timer | edit, autosave | unserialised saves, unmount | the last edit is the one saved |
| Retrieval (`hybrid_retriever.py`, `citation_enforcer.py`'s quote checks) | none; reads Qdrant | dense and sparse search, fusion, rerank, hydrate, quote lookup | ranks, ties, concurrent deletes, thresholds | both lists beat one; a quote that counts as exact is one |
| Chunker and normaliser (`hierarchical.py`, `financial_normalizer.py`) | none | pack, step back; parse values and periods | boundaries, the first pattern that matches | nothing lost or repeated by mistake; a value keeps its meaning or is refused |
| Report (`report_generator.py`) | none | choose outputs, number citations | one numbering over sections, tables and notes | every marker leads to its citation |
| Other endpoints, admin, auth, PDF parsers, eval, infra, web | rows nobody else writes, or none | CRUD, formatting | little | not modelled, see below |

They interact through the broker (API and scheduler to workers), through shared rows (requests and
workers write `documents` and `document_count`; dispatch, worker and websocket meet in
`task_queue`; trackers in `kpi_timeseries`, analyses in `industries`), through pub/sub (worker to
websocket handler to browser) and by one blocking wait (scheduler on ingestion).

## The modules

- **`TaskLifecycle`** - the abstract specification: what a row of `task_queue` promises to whoever
  polls it. Both detailed modules implement it (`TaskRowsFollowLifecycle`), Ingestion under the
  refinement mapping `Tasks <- Requests, row <- taskRow`.
- **`Ingestion`** - one coverage of one tenant. A *request* is an API call or an enqueue of
  `reindex_all.py`; it names the document and the Celery task it creates, whose ids are drawn
  afresh in the code. `req[r].pc` stands between two awaits of the handler, `worker[w].pc` between
  two transactions of the task. Postgres is what is committed: `get_db` commits after the handler
  has returned, so `CommitUpload`, `CommitRetry` and `CommitDelete` come after `Send`. SQLAlchemy is
  modelled by what it does: only attributes that differ from the loaded ones are written, an UPDATE
  that meets no row fails the transaction, a DELETE that meets none does not, and the document row
  is locked from the autoflush in `_finalize_success` to its commit (`Locked`). A file's content is
  its SHA-256; `points[d][c]` counts the upsert batches of document `d` made from content `c`.
  `faults` pays for `RequestFails`, `AttemptFails` (an exception caught by `_execute`) and
  `WorkerDies` (a killed process, or an exception outside the `try`).
- **`AgentTasks`** - `dispatch_task`, `run_agent_task` with the session it lends, the channel, the
  websocket handler and the browser's hook. `session[t]` is "open" until the first commit inside
  the block; SQLAlchemy then raises `InvalidRequestError` at the next statement (the comment in
  `orchestrator/tasks.py:173-178`), which `Usable` expresses. `Returns` is what the last lines of
  each agent can return. `Announce` delivers the terminal event, and `LeaveSession` is what `_run_agent`
  still does inside the `try` after that (the reply to PUBLISH, the dump, the session's exit), where a
  fault leads to `ReportError` and a failed row. A socket and the server's handler of it are one state: "checking" (before
  the row is read), "gap" (read, not yet subscribed), "listening".
- **`Scheduler`** - the daily sweep in the worker pool it shares with the tasks it sends. `worker[w]`
  is one process: idle, at a step of a sweep, or at an ingestion or monitor. A sweep reads a
  coverage's known URLs and cutoff, lists EDGAR's filings, downloads, commits the rows, sends the
  ingestion, blocks in `get()` until it has ended or the wait times out, and dispatches the monitor.
  An error abandons the coverage (`Abandon`), a killed process the sweep.
- **`KpiTracker`** - overlapping runs of the tracker on one coverage. `UpsertItem` is one turn of the
  loop of `upsert_kpi_timeseries`, which sees its own rows by autoflush and of others what is
  committed by then (`Seen`); `at` is `func.now()`, the start of a transaction, so the rows of one
  batch tie, and `Latest` is any of them.
- **`IndustryPrimer`** - the requests that get or create one industry by name (an INSERT waits for an
  uncommitted one of the same name, then fails or goes in), and the analyses they dispatch, which
  write only the columns that differ from what they loaded.
- **`AgentRun`** - `BaseAgent.run` around the Lynch, Munger and earnings agents and the orchestrator,
  with the session each runs on: "lent" is usable until its first commit, "own" throughout, and
  "broken" after a database error.
- **`CoverageGraph`** - the LangGraph state machine. Its agent nodes raise `NotImplementedError`; what
  an implementation would hand over is left open: any verdict in the draft, and a retry count that is
  kept or written anew (`RetryCounts`); a node may raise.
- **`Retrieval`** - `retrieve` step by step (dense search, sparse search, fusion, rerank, hydration)
  while documents are deleted, and the two quote lookups. A dense search returns any order; the
  sparse one is by shared words. Scores are fractions; a tie goes by who entered first.
- **`CitationEnforcer`** - a text is a sequence of pieces (a citation, a number, a verb, ends of
  paragraphs and sentences, ...); the six checks, the verdict and the reported coverage are
  operators on it, and so is the gate of the agents' schemas before them: the floor of 90 % under the
  whole text, and the half that each answer needs (`AnswerStands`), an answer being what stands
  between two headers. Whether all answers or sections are there is `AgentRun`'s `Unparsable`.
- **`Chunker`** - a section is the running total of words at each sentence's end, and which sentences
  end a paragraph. Paragraphs are packed into parents, and sentences into overlapping children, one
  paragraph or sentence per step of the two loops.
- **`FinancialNormalizer`** - a written value or period is a record of its parts, from which follows
  the regular expression that finds it.
- **`KpiViews`** - the readers of `kpi_timeseries`: dashboard, year-over-year summary, bull case's
  summary, bear case's trend, report's tables. Each takes its rows in any order sorted by its own
  key (`Sorted`): ties come as the database gives them.
- **`EdgarConnector`** - coroutines that share one connector: bucket, tries, backoff, CIK cache.
- **`Inbox`** - notifiers pushing to the inboxes of several users, and requests that mark as read. A
  member of the sorted set is a JSON text, so a read notification is another member than an unread one.
- **`ReportGenerator`** - which outputs a report takes, and how citations become footnotes, one marker
  per step through the sections and then the notes.
- **`Agents`** and **`Services`** put parts that share no state into one specification each: a
  behaviour is one `scene`, the steps of one part, while the others stay as they were.
- **`MCIngestion`, `MCIngestionLive`, `MCAgentTasks`, `MCScheduler`, `MCAgents`, `MCServices`** -
  instances TLC checks.
- **`IngestionProofs`**, **`IngestionTaskProofs`**, **`IngestionDataProofs`** - theorems about
  `Ingestion`: its types and rows, its tasks, and what is in Qdrant and counted. **`AgentTaskProofs`**
  and **`SchedulerProofs`** - about `AgentTasks` and `Scheduler`. **`AgentProofs`** - about `AgentRun`,
  `CoverageGraph`, `IndustryPrimer`, `KpiTracker` and their composition `Agents`. **`ServiceProofs`** -
  about `Retrieval`, `CitationEnforcer`, `FinancialNormalizer`, `EdgarConnector`, `Chunker` and the
  composition `Services`. **`ReaderProofs`** - about what users read: `Inbox`, `KpiViews` and
  `ReportGenerator`.

History records what happened for the properties, and no action reads it in a guard: `raced`,
`lost`, `completions` (the `ingest_complete` rows of the audit log), `browser[b].early` and
`browser[b].again`; `abandoned`, `overlapped`, `left` and `missed` in `Scheduler`; `base` in the rows of
`KpiTracker`, `raced` in `IndustryPrimer`, `written` in `AgentRun`, `author` and
`judged` in `CoverageGraph`,
`sent` in `EdgarConnector`, `pushed` and `marked` in `Inbox`.

## The runs

| Run | Instance | Shows |
|---|---|---|
| `ingestion` | 3 requests, 2 workers, 1 path, 1 content, 1 batch, 1 retry, 1 fault; 0.95 million states | type; indexed documents are searchable; no points without a document; one execution per task; running tasks are owned; duplicates need a race; the count never exceeds the completions; deletes are final; task rows follow their lifecycle |
| `ingestion_live` | 2 requests, 2 workers, 3 contents (one of low coverage), 2 batches, 2 retries, 1 fault, fair workers; 0.7 million states | a partial upsert never passes for an index; a running task settles |
| `duplicates` (violated) | 2 uploads of the same bytes, 2 workers | both become indexed (finding) |
| `reindex` (violated) | an upload and a reindex, 1 worker | points of both runs stay (finding) |
| `agent_tasks` | 2 tasks of 4 agent kinds, 1 browser, 1 lost connection, 1 fault, fair workers and handlers; 0.44 million states | type; at most one output row per task; completed tells what was saved; early listeners hear the end; the row ends as the last event said; lifecycle; sent tasks settle |
| `reconnect` (violated) | 1 task, 1 browser, 1 lost connection | a reconnected browser listens to a task that has ended (finding) |
| `pitch` (violated) | 1 Lynch pitch, no fault | the saved pitch's task fails (finding) |
| `scheduler` | 2 filings (10-Q, 10-K) of one coverage, to which analysts upload too, 2 workers, 2 days, 1 fault, fair workers | type; a filing is swallowed only by a sweep that ended early; two rows of a filing need overlapping sweeps; the monitor follows the ingestion; sweeps end |
| `tomorrow` (violated) | the same, no upload, no fault | the second filing of a day is never looked at (finding) |
| `agent_runs` | 3 trackers of 2 documents, one giving a KPI twice; 2 analyses; 2 agent runs with 1 database error; the graph with 6 intents; 0.56 million states, trackers up to symmetry | type; what is marked restated is a change; one industry per name; a primer is one answer; every run leaves a trace; a pitch ends judged |
| `audit` (violated) | the run scene | a run that saved leaves no audit row (finding) |
| `services` | 5 chunks of 2 coverages; texts of 3 pieces; sections of 5 sentences; all writings of 3 numbers and 2 years; 3 KPI rows, ties in every order; 2 coroutines over 10 ticks; 3 notices to 2 users; 2 outputs and notes; 2.2 million states, about 80 s | type; both lists first; the enforcer is the stricter gate; children cover; values keep their meaning; readers agree; requests are paced; unread is kept; footnotes resolve |

**Bounds.** In the ingestion and agent task runs, `MaxRetries` (3 in the code), `Batches`, `MaxFaults` and `MaxDrops` are the only bounds on
behaviour; `Requests`, `Workers`, `Tasks` and `Browsers` bound who takes part. Three requests are what the interactions
need: two documents and a delete or retry of one, or one document with two later requests.
Two workers give every race of two runs, and a third run follows when either is done. One path is
the harder case, since every upload then shares the MinIO object. One content is the harder case for
the hash check, since every two documents are then duplicates; `ingestion_live` has files that
differ, are replaced by others, or hold too little text. One fault suffices for each
partial failure; two batches for a partial upsert; with two retries a retry can be neither the
first nor the last attempt. In `agent_tasks` the tasks meet only in the browser, which picks one
of them; `industry_analyst` takes no path there that `kpi_tracker` and the pitch do not, and is left out of the instance.

In `scheduler`, two filings make one the first and the other the second of a day or of two days, two
workers let a sweep wait for the other process or fill the pool with sweeps, and the second day
lets a sweep overlap the last one's. `MaxDays` and `MaxFaults` bound behaviour. In `agent_runs` a third
tracker can follow two that overlapped; `MaxDbErrors` bounds errors, and counts of 0 and 2 are
those a node could write that start the graph's loop anew or cut it short (`RetryCounts`). In `services`, the limits of the
code are scaled so that few inputs cross them: a parent holds 9 tokens, a child 5 with an overlap of 2,
against sentences of 1, 2 and 6 words (1, 2 and 7 tokens: one is longer than a child, two than a parent);
a thousand is 10 (`Thousand`); the bear case's trend has 2 rows (6 in the
code), an inbox 2 members (200), a search 2 results, with the code's own constant of 60 in the fusion
(`ShortLists` is what it needs). `MaxPieces`, `MaxSentences`, `MaxRows`, `MaxOutputs` and `MaxTicks`
bound the input. `Paddings` put 0, 4 or 19 cited answers before a text, which brings the coverages
of 80, 90 and 95 % within reach of three pieces. The periods of `KpiViews` are two fiscal years, the last
quarter of the first and the first of the second, extracted in every order.

**Deadlock** is not checked: requests and tasks end, and the system may then stop.

**Fairness.** Weak fairness of `WorkerStep` (`RunStep`): a live worker process goes on with its
task, and Celery's consumer takes the next message (in `Scheduler`, per process). Faults, deaths and requests have none. Weak
fairness of `HandlerStep`: the API's event loop serves an accepted socket. Nothing is assumed of
clients, of `dispatch_task`, of lost connections, of days or of new filings. The timeout of
`get()` belongs to the sweep's step: it is what lets sweeps end that fill the pool.

## What is proved

`IngestionProofs` proves, for all constants that satisfy `ConstantsOK` (low-coverage contents are
contents, at least one batch, natural bounds, `Nil` is no request, path or content):

- **`TypeCorrect`**: `Spec => []TypeOK`. `TypeOK` is inductive because `Request` and `Worker` say
  which fields are set at which point: a worker past its download has the content, one at
  "download" has a path. Without these, `Nil` could reach a document's hash or MinIO's key. The
  proof has one lemma per family of steps (`RequestGoto`, `WorkerLoads`, `DocHashed`, ...), about a
  record on its own, and one case per action.
- **`DeletesAreFinal`**: `Spec => AppearsOnlyByUpload`. `CommitIndexed` writes the row without
  looking whether it is there, so the property needs the invariant `RowInv`: type correctness and
  `LockedRowExists`, a worker about to commit has its document's row. It holds because
  `ReadCoverage` checks the row and then holds its lock, which `CommitDelete` waits for
  (`LockStep`). Every other write of `docs` keeps absent rows absent (`DocsChange`).

`IngestionTaskProofs` builds on it, for the same constants. Its invariant `TaskInv` says that a task
id has at most one carrier (`OneCarrier`): none until its request has sent the message
(`UnsentUncarried`), then that message, then the worker that took it, then perhaps the message of a
retry. Rows are inserted by their request's last step (`RowsAreCommitted`); a row that says how its
task ended leaves no carrier (`SettledUncarried`); one that reads "running" has a carrier or was lost
(`RunningCarried`). Every step leaves the carriers as they are, or sends, takes, returns or ends
one (`Carriers`), and changes at most one row, by its INSERT or by its carrier (`RowChanges`); each
conjunct follows from these two. None of the conjuncts is inductive alone: a second carrier could
overwrite a settled row.

- **`NeverRunTwice`**: `Spec => []OneExecutionPerTask`.
- **`RunningHasCarrier`**: `Spec => []RunningIsOwned`.
- **`RefinesLifecycle`**: `Spec => TaskRowsFollowLifecycle`. The initial states agree; an INSERT maps to
  `Create`, which needs `RowsAreCommitted`; a worker's write maps to `Start`, `Settle` or a stutter (a
  retry that sets "running" again), which needs `SettledUncarried`.

### What ingestion leaves behind

`IngestionDataProofs` goes on from `RowInv`, for the same constants, with three invariants. The proof
of each takes a step through what it does to one request (`Begins`, `GoesOn`) or one worker
(`InPipeline`), so that the actions are expanded once.

- **`IndexedDocumentsSearchable`**, **`PointsHaveDocument`**: `Spec => []IndexedIsSearchable` and
  `Spec => []PointsNeedDocument`, from `SearchInv`: a run has upserted the batches it counts
  (`UpsertsCounted`) and the document it loaded exists (`LoadedExists`), unless a delete of it has begun;
  nothing but a delete removes points.
- **`CountIsBounded`**: `Spec => []CountNeverExceedsCompletions`. Updates of the count get lost, so the
  bound is not inductive by itself: `SeenCounts` says that no handler holds a count that was more.
- **`DuplicatesOnlyByRace`**: `Spec => []DuplicatesNeedARace`, from `RaceInv`: two runs that are past
  the hash check with the same bytes, or one and a document indexed with them, met there.

### Agent tasks

`AgentTaskProofs` assumes `ConstantsOK` (the agents are ones the registry knows, natural bounds, `Nil` is no
task or agent). `TaskInv` ties, per task, the row to where dispatch, message and run stand (`CarrierInv`), the saved
outputs to the session that is left (`OutputInv`) and the announcement to the row that follows it
(`AnnouncedInv`), and per browser who listens to what was announced (`BrowserInv`).

- **`TypeCorrect`**, **`SavedOnce`** (`AtMostOneOutput`: an agent that saved for itself has lost its
  session, so the wrapper does not save again), **`CompletedIsHonest`** (`CompletedTellsWhatWasSaved`),
  **`ListenersHear`** (`EarlyListenersHear`), **`RowFollowsLastEvent`** (`LastEventTellsTheRow`: a run that is
  about to write a status has announced it, an error after its result included).
- **`RefinesLifecycle`**: `Spec => TaskRowsFollowLifecycle`, each step mapped to a step of
  `TaskLifecycle` or a stutter.

### Scheduler

`SchedulerProofs` assumes `ConstantsOK` (natural bounds; coverages and forms of the filings; `Nil` is no pair
of a filing and a day, the names of the rows a sweep adds). `SweepInv` says that a day has one
sweep, which adds the row of a filing once; `FilingInv` adds that a document has one ingestion, in the
queue or in a process, then its result, and only then a monitor (`IngestionsOK`), what a sweep knows of the
filing it is at (`StagesOK`), and that without an overlap what the one sweep found is new
(`AloneUntilOverlap`).

- **`TypeCorrect`**, **`NoFilingSwallowed`** (`KnownIsMonitored`), **`TwoRowsOnlyByOverlap`**
  (`TwoRowsNeedOverlap`), **`MonitorComesAfter`** (`MonitorFollowsIngestion`).

### Agents

`AgentProofs` has a theorem about each agent's own specification, and one about `Agents`, which the
run checks. Assumed are natural `MaxDbErrors`, that `NoIndustry` is no request, finitely many trackers
(the clock counts them), and that an answer is a sequence of items.

- **`RunsLeaveTraces`**: `RunSpec => []EveryRunLeavesATrace`. `RunInv` ties what a run has recorded to where it
  stands (`RecordInv`) and to the session it has left (`SessionInv`): one whose session is committed has
  its record, one that can still write has none.
- **`EndedJudged`**: `GraphSpec => []PitchesEndJudged`, whatever verdicts and counts the nodes write.
  `GraphInv` adds that the branches without a draft are reached from the start only. How many
  drafts a run has is not bounded: a node that resets the count keeps the loop going.
- **`SharedIndustry`**: `IndustrySpec => []OneIndustry`. `RowInv` says that the name has one row,
  committed or not, that an uncommitted one belongs to a request about to commit, that such a request has
  its own row or a committed one, and that whatever was dispatched or linked has a committed row.
- **`OneAnswer`**: `IndustrySpec => []PrimerIsOneAnswer`. `PrimerInv`: an analysis holds its own answer,
  and unless two raced the primer is the answer of one that has ended. The UPDATE leaves out fields
  that are as loaded, and `WrittenIsAnswer` shows that these are then the answer's too.
- **`RestatementsAccounted`**: `KpiSpec => []RestatedMeansChanged`, overlaps and ties included. `KpiInv` says
  that a transaction has a time of its own, and that the series, and what each run would commit on top
  of it now (`Seen`), are `Told`: a row marked restated differs from an earlier one that is no
  older than any its run was bound to see, a row not so marked is one whose run was bound to see none. It
  survives what others commit meanwhile because that only puts rows between the ones the run was bound to
  see and its own.
- **`AgentsTogether`**: `Spec => [](TypeOK /\ ...)` with the five invariants above. A step of the composition
  is a step or a stutter of each part.

### Services

`ServiceProofs`, each theorem about its module's own specification, whose steps are a scene's steps in
the run:

- **`BothFirst`**: `RetrievalSpec => []BothListsFirst`, for a finite collection and `ShortLists` (`TopK`
  is at most `RrfK + 1`; 20 and 60 in the code). `FusionInv` bounds the lists; `TwoRanksBeatOne` is the arithmetic:
  two reciprocal ranks within the bound add up to more than the best single one.
- **`EnforcerIsTheStricter`**: `EnforcerSpec => []EnforcerIsStricter`, for texts of any length. Without the two
  exceptions, the schema's claims are among the enforcer's and the cited ones are the same, so 95 % of the one
  make 90 % of the other (`FloorPassed`). 95 % of fewer than twenty claims is all of them (`AllClaimsCited`), and
  where headers begin paragraphs a claim's citation is in its own answer (`CitedInItsAnswer`), so every answer
  stands (`AnswerIsCited`). With twenty claims or more, one answer may be the uncited 5 %.
- **`MeaningIsKept`**: `NormalizerSpec => []NormalizedOrRefused`, for numbers of any size, case by case
  of the pattern that is tried first.
- **`Paced`**: `EdgarSpec => []RequestsPaced`, for any number of coroutines, an interval of at least a tick and
  natural backoff. `PaceInv`: the bucket holds at most the time between the last request and its last refill
  (`Gathered`). The pace alone is not inductive, since a full bucket right after a request would break it.
- **`ChildrenCoverParents`**: `ChunkerSpec => []ChildrenCover`, for sections of any length and any three limits with
  an overlap of at least a token. The chunker adds up estimates that are each rounded down, so what a
  loop has counted is less than the estimate of the text by up to a token per piece: `Summed` carries that bound,
  from `EstimateSum`. `ChunkerInv` adds that sentences and paragraphs stand in order (`TextInv`), that what is packed
  starts after the last parent (`PackInv`), that a child being made follows the children before it
  (`TakeInv`), and what the step back has counted between the two ends of an overlap (`OverlapInv`): it has taken
  no sentence more than it needs, and a child never starts where the one before did.
- **`ServicesTogether`**: `Spec => [](TypeOK /\ ...)` for `Services`, with all eight invariants of this section and
  the next. The types need facts of their own: a refill of the bucket is not in the future (`EdgarTypes`),
  and the inbox's clock is bounded since each pair of a notification and a recipient is stamped once (`ClockBound`).

### What users read

`ReaderProofs`, likewise:

- **`ReadStaysRead`**: `InboxSpec => []UnreadKept`, for any users, requests and finitely many notifications;
  `InboxAssumption` says that the recipients of one are a sequence without repetition, and the bound natural.
  `InboxInv` says that time stamps differ (`StampsDiffer`), that a worker goes through the recipients
  once (`PushesInTurn`), that what a request read was pushed (`ReadWasPushed`) and, per user, that entries are
  pushed notifications, each once, read if and only if marked, the newest among them, with at most `MaxInbox` unread
  (`Kept`). A push keeps the newest because a member with fewer than `MaxInbox` above it survives
  the trim; `HigherFewer` and `NewestBound` count by injections into an interval, without
  induction over sets.
- **`ReadersAgree`**: `ViewsSpec => []ViewsAgree`, for any number of rows and every order the database may give. Fiscal
  years that were not restated stand in the summary as they do in the dashboard's series with the quarters left out
  (`AnnualOrder`, since a set has one order at most that a strict order allows: `OrderedOnce`, from the
  well-foundedness of the naturals), so the row before the last is the same (`LastChange`). Where filings of a kind
  were extracted in turn, annual reports before, between or after those of the quarters, a row of a later period
  stands before one of an earlier in what is sorted by extraction (`LaterStandsFirst`), so that what the summary takes
  first and the trend last is the dashboard's last of its kind.
- **`FootnotesLead`**: `ReportSpec => []FootnotesResolve`, for any outputs, notes and citations. `ReportInv`: the markers stand at
  the places before the next one (`Resolves`, `NoneSkipped`), and every number in use has a marker
  (`NumberedAsRead`), so that a new number is never more than one above those read before it.

### What the theorems are about, and what they leave to TLC

The theorems on ingestion, agent tasks and the scheduler, `AgentsTogether` and `ServicesTogether`, are about
the `Spec` the runs check; the others about the specification of their module, a scene in the runs. Nothing is assumed but the
named `ASSUME`s, which TLC evaluates in every run.

Proof attempts changed the models where these were wrong or incomplete: `EnforcerIsStricter` needed a second exception, a
cited paragraph that declares something as not found, which makes the two gates count differently
in texts longer than TLC tries (`CitedButSetAside`); two alternatives of `Meaning` and `NormalizeValue` overlapped; a
notification without recipients ended in no state of the inbox; the upsert of the tracker
was one step, and is now one per item, which is where other runs' commits come between; the report numbered
the citations of a part in a fold, and now places one marker per step; the chunker made a whole parent or
child in a step, by folds over its sentences, and now takes one sentence at a time; a reader of KPIs called a
sort of the community modules, and is now given any order that is sorted by its key.

Every invariant, action property and refinement that a passing run checks is the subject of a theorem. Only liveness
is left to TLC: `RunningTaskSettles`, `SentTaskSettles` and `SweepsEnd` rest on fairness, and fairness
and `ENABLED` are outside the prover's reach.

## Findings

1. Two documents with the same bytes can both be indexed (`duplicates`): the hash is written only
   at the end of a run. Serial runs are safe (`DuplicatesNeedARace`).
2. Ingesting a document again duplicates its points (`reindex`): chunk ids are new in each run.
3. A reconnect can hang (`reconnect`): the websocket handler reads the row before it subscribes.
4. A saved pitch's task fails (`pitch`): `save_bull_case` uses the lent session after committing
   it. So do the other agents that save their own row.
5. The second filing of a day is never picked up (`tomorrow`): the ingestion of the first moves
   `last_updated` past it, and later sweeps look only at filings after that.
6. A run that saved leaves no row in the audit log (`audit`): its commit closed the session. `EveryRunLeavesATrace`
   is what holds.

The modules state more of what documents and comments say, as definitions no run checks: the code does not keep
them. TLC finds each violated where it is put among the invariants (`NothingAfterTerminalEvent`, the properties) of
the cfg named.

| Definition | Says | What the code does |
|---|---|---|
| `NothingAfterTerminalEvent` (`MCAgentTasks.cfg`) | terminal events have "no further events coming" (`streaming.py:32-33`) | what fails after the result went out (`orchestrator/tasks.py:221-222`, inside the `try`) is published as an error, and the row reads failed. Who left at the first event keeps showing a result. `LastEventTellsTheRow` is what holds. |
| `NoSpuriousRestatement` (`MCAgents.cfg`) | extracting again must never "spuriously mark it restated" (`kpi_tracker/tools.py:11-13`) | a value is compared with the newest row, whichever document that cites: a document another one restated, extracted again, restates its own first value. `RestatedMeansChanged` is what holds. |
| `IdempotentUpsert` (`MCAgents.cfg`) | "idempotent for identical (coverage, kpi, period, value)" (`kpi_tracker/tools.py:123`) | trackers that overlap each insert the value they found |
| `GivenUpAfterThreeRetries` (`MCAgents.cfg` with `RetryCounts = {0}`) | "up to 3 retries" (`src/README.md:48`) | the rejected attempt is counted before `retry_count < 3` is tested (`graph.py:199`): two retries. `PitchesEndJudged` is what holds. |
| `SentBackToItsAuthor` (`MCAgents.cfg`) | "sent back to the originating agent" (`src/README.md:48`) | "retry" leads to `lynch_pitch`, whoever wrote the draft (`graph.py:88`). This and the last are about the edges: the graph's agent nodes are stubs. |
| `StricterGate` (`MCServices.cfg`) | the enforcer's is the "stricter 95% gate", the schema's 90 % "just the minimum sanity bar" (`lynch_pitch/schemas.py:9-11`) | the enforcer looks for verbs in lower case only (`citation_enforcer.py:161`), the schema for any: a text can pass the one at 100 % and the other at 0 %. `EnforcerIsStricter` is what holds. |
| `DivergenceIsActual` (`MCServices.cfg`) | a divergence is one from "the KPI's actual trend" (`munger_invert/tools.py:77`) | the trend mixes fiscal years and quarters: a KPI that never falls is flagged where a quarter was extracted after a year. `ViewsAgree` is what holds. |
| `OnlyTheLatest` (`MCServices.cfg`) | "Only the latest approved version of each output_type is included" (`report_generator.py:5-7`) | nobody writes the version it sorts by (`models.py:317`): any approved output of a type may be chosen. `FootnotesResolve` holds for whichever. |
| `QuotesAreVerbatim` (`MCServices.cfg`) | sparse search "finds the exact phrase a citation claims to quote" (`hybrid_retriever.py:12`) | the threshold of the score is below the weight of one shared word (`hybrid_retriever.py:129`) |

The models say one more thing that contradicts no text of the repository: two analyses that save at once can leave
a primer with the text of one and the word count of the other; `PrimerIsOneAnswer` is about the others.

## Not modelled, and why

Prompts, LLM answers, layout, embeddings and the scores of models are data: the models keep which
outcome they lead to, or any order they may give. PDF and table extraction are heuristics over page
layout; the rest depends on no more of them than the text coverage, which `Ingestion` has. Tenants and
row-level security are left out (one tenant; coverages where they matter); authentication validates
tokens and keeps no state but a key cache. The remaining endpoints are one transaction each over rows
nobody else writes, or only read; the API's own answers are not modelled. Celery, Postgres, Redis, MinIO
and Qdrant are modelled from how the code uses them. Left out, and listed as hazards without a property:
the output a notification links (`scheduler.py:226-279`), overlapping sockets and content chunks of the
stream hook, what it shows of a partial task after a reconnect, the notes editor's autosave, and the
lock of the coverage's row (`ingestion.py:224`), whose deadlock appears only as the failure of its victim. A crash
between the commit of an agent task and its message (`orchestrator/tools.py:95`) is a step of `AgentTasks`, but nothing
promises that such a task ends. Evaluation, infrastructure, migrations and seed scripts are offline; the concurrency settings
and the constraints of the schema were read for the models.

## What is left

Modelling is done as far as the list above, and no safety property of a run is without its theorem. Open are the
three liveness properties, which hold on the instances TLC checks, and the hazards without a property that
the last section names.
