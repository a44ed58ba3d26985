----------------------------- MODULE Ingestion -----------------------------
(***************************************************************************)
(* Document ingestion for one coverage: the API handlers that upload,      *)
(* retry and delete a document (apps/api/routers/documents.py), the        *)
(* reindex script (scripts/reindex_all.py), the Celery broker, and the     *)
(* workers that run ingest_document_task (apps/api/tasks/ingestion.py).    *)
(*                                                                         *)
(* The actors share Postgres (docs, count, completions, taskRow), MinIO    *)
(* (objects) and Qdrant (points).  A request's database changes become     *)
(* visible when get_db commits, which is after the handler has published   *)
(* its Celery message.                                                     *)
(*                                                                         *)
(* A document and a Celery task are named by the request that created      *)
(* them: both carry an id drawn afresh by that request.                    *)
(***************************************************************************)
EXTENDS Naturals

CONSTANTS
    Requests,     \* API requests and reindex enqueues
    Workers,      \* Celery worker processes
    Paths,        \* object paths in MinIO (one per file name)
    Contents,     \* file contents, identified with their SHA-256
    LowCoverage,  \* the contents whose text coverage is below the threshold
    Batches,      \* upsert batches index_chunks sends for one document
    MaxRetries,   \* max_retries of ingest_document_task
    MaxFaults,    \* bound on I/O errors and worker deaths
    Nil

ASSUME ConstantsOK ==
    /\ LowCoverage \subseteq Contents
    /\ Batches \in Nat \ {0}
    /\ MaxRetries \in Nat
    /\ MaxFaults \in Nat
    /\ Nil \notin Requests \cup Paths \cup Contents

VARIABLES
    docs,         \* the committed rows of documents
    count,        \* coverages.document_count
    completions,  \* number of "ingest_complete" rows in agent_audit_log
    taskRow,      \* the committed status of the rows of task_queue
    objects,      \* what MinIO holds under each path
    points,       \* batches of a document's chunks in Qdrant, by content
    broker,       \* Celery messages not yet taken by a worker
    req,          \* where each request stands in its handler
    worker,       \* where each worker stands in its task
    faults,       \* I/O errors and deaths so far
    lost,         \* tasks whose worker died while running them
    raced         \* contents that two documents had past the hash check at once

dbVars == <<docs, count, completions, taskRow>>
storeVars == <<objects, points>>
vars == <<dbVars, storeVars, broker, req, worker, faults, lost, raced>>

-----------------------------------------------------------------------------
(* The state.                                                              *)

DocStatus == {"absent", "pending", "indexed", "review_needed", "failed"}

DocRecord == [status : DocStatus, path : Paths \cup {Nil}, hash : Contents \cup {Nil}]

\* A row that is there has a path.
DocRow == {x \in DocRecord : x.status # "absent" => x.path \in Paths}

NoDoc == [status |-> "absent", path |-> Nil, hash |-> Nil]

NoPoints == [c \in Contents |-> 0]

Message == [task : Requests, doc : Requests, retries : 0..MaxRetries]

RequestPC == {"new", "send", "purge", "unlink", "commit", "done"}
RequestKind == {"none", "upload", "retry", "reindex", "delete"}

RequestRecord == [pc : RequestPC, kind : RequestKind, doc : Requests \cup {Nil},
                  path : Paths \cup {Nil}, status : DocStatus, seen : Nat]

\* A request past its first step names a document; an upload or a delete
\* under way also names the object.
Request ==
    {q \in RequestRecord :
        /\ q.pc # "new" => q.doc \in Requests
        /\ q.pc # "done" /\ q.kind \in {"upload", "delete"} => q.path \in Paths}

Handling(pc, kind, d) == [pc |-> pc, kind |-> kind, doc |-> d, path |-> Nil,
                          status |-> "absent", seen |-> 0]

WorkerPC == {"idle", "start", "load", "download", "check", "parse", "index",
             "finalize", "commit", "finish", "failing", "fail_task"}

WorkerRecord == [pc : WorkerPC, task : Requests \cup {Nil}, doc : Requests \cup {Nil},
                 retries : 0..MaxRetries, path : Paths \cup {Nil},
                 content : Contents \cup {Nil}, batch : Nat, seen : Nat]

Job(pc, t, d, n) == [pc |-> pc, task |-> t, doc |-> d, retries |-> n, path |-> Nil,
                     content |-> Nil, batch |-> 0, seen |-> 0]

Idle == Job("idle", Nil, Nil, 0)

\* The states in which a worker relies on having found no duplicate.
PastCheck == {"parse", "index", "finalize", "commit"}

\* A worker with a task names it and its document; it downloads from a path,
\* and past the download it has the file's content.
Worker ==
    {j \in WorkerRecord :
        /\ j.pc # "idle" => j.task \in Requests /\ j.doc \in Requests
        /\ j.pc = "download" => j.path \in Paths
        /\ j.pc \in {"check"} \cup PastCheck => j.content \in Contents}

\* The states inside the try block of _execute, where an exception is caught.
Guarded == {"load", "download", "check", "parse", "index", "finalize", "commit"}

Exists(d) == docs[d].status # "absent"

\* _finalize_success flushes its UPDATE of the document before it reads the
\* coverage, so the document's row stays locked until it commits.
Locked(d) == \E w \in Workers : worker[w].pc = "commit" /\ worker[w].doc = d

Goto(w, pc) == worker' = [worker EXCEPT ![w].pc = pc]

\* Leave the pipeline: only what the bookkeeping needs is kept.
WindUp(w, pc) ==
    worker' = [worker EXCEPT ![w] = Job(pc, worker[w].task, worker[w].doc,
                                        worker[w].retries)]

\* The handler returns.
Return(r) == req' = [req EXCEPT ![r] = Handling("done", req[r].kind, req[r].doc)]

Init ==
    /\ docs = [d \in Requests |-> NoDoc]
    /\ count = 0
    /\ completions = 0
    /\ taskRow = [t \in Requests |-> "absent"]
    /\ objects = [p \in Paths |-> Nil]
    /\ points = [d \in Requests |-> NoPoints]
    /\ broker = {}
    /\ req = [r \in Requests |-> Handling("new", "none", Nil)]
    /\ worker = [w \in Workers |-> Idle]
    /\ faults = 0
    /\ lost = {}
    /\ raced = {}

-----------------------------------------------------------------------------
(* Requests.                                                               *)

\* POST /documents, up to db.add(document): the file is already in MinIO, the
\* row is only pending in the session.  An upload under a name in use
\* replaces that object.
StoreUpload(r) ==
    /\ req[r].pc = "new"
    /\ \E p \in Paths, c \in Contents :
        /\ objects' = [objects EXCEPT ![p] = c]
        /\ req' = [req EXCEPT ![r] = [Handling("send", "upload", r) EXCEPT !.path = p]]
    /\ UNCHANGED <<dbVars, points, broker, worker, faults, lost, raced>>

\* POST /documents/{id}/retry, up to .delay(): any status may be retried.
LoadRetry(r) ==
    /\ req[r].pc = "new"
    /\ \E d \in Requests :
        /\ Exists(d)
        /\ req' = [req EXCEPT ![r] = [Handling("send", "retry", d)
                                          EXCEPT !.status = docs[d].status]]
    /\ UNCHANGED <<dbVars, storeVars, broker, worker, faults, lost, raced>>

\* reindex_all.py selects the documents once and then enqueues them one by one.
SelectReindex(r) ==
    /\ req[r].pc = "new"
    /\ \E d \in Requests :
        /\ Exists(d)
        /\ req' = [req EXCEPT ![r] = Handling("send", "reindex", d)]
    /\ UNCHANGED <<dbVars, storeVars, broker, worker, faults, lost, raced>>

\* ingest_document_task.delay(): the message is out before the commit.  The
\* script has nothing to commit.
Send(r) ==
    /\ req[r].pc = "send"
    /\ broker' = broker \cup {[task |-> r, doc |-> req[r].doc, retries |-> 0]}
    /\ IF req[r].kind = "reindex" THEN Return(r) ELSE req' = [req EXCEPT ![r].pc = "commit"]
    /\ UNCHANGED <<dbVars, storeVars, worker, faults, lost, raced>>

CommitUpload(r) ==
    /\ req[r].pc = "commit" /\ req[r].kind = "upload"
    /\ docs' = [docs EXCEPT ![r] = [status |-> "pending", path |-> req[r].path, hash |-> Nil]]
    /\ taskRow' = [taskRow EXCEPT ![r] = "queued"]
    /\ Return(r)
    /\ UNCHANGED <<count, completions, storeVars, broker, worker, faults, lost, raced>>

\* The session updates only what differs from what it loaded: a document that
\* was pending at load is not written.  An UPDATE that finds no row raises
\* StaleDataError and rolls the whole transaction back.
CommitRetry(r) ==
    LET d == req[r].doc
        dirty == req[r].status # "pending"
    IN
    /\ req[r].pc = "commit" /\ req[r].kind = "retry"
    /\ dirty => ~Locked(d)
    /\ IF dirty /\ ~Exists(d)
       THEN UNCHANGED <<docs, taskRow>>
       ELSE /\ docs' = IF dirty THEN [docs EXCEPT ![d].status = "pending"] ELSE docs
            /\ taskRow' = [taskRow EXCEPT ![r] = "queued"]
    /\ Return(r)
    /\ UNCHANGED <<count, completions, storeVars, broker, worker, faults, lost, raced>>

\* DELETE /documents/{id}: the coverage, with its document_count, and the
\* document are loaded first.
LoadDelete(r) ==
    /\ req[r].pc = "new"
    /\ \E d \in Requests :
        /\ Exists(d)
        /\ req' = [req EXCEPT ![r] = [Handling("purge", "delete", d)
                                          EXCEPT !.path = docs[d].path, !.seen = count]]
    /\ UNCHANGED <<dbVars, storeVars, broker, worker, faults, lost, raced>>

\* Mutant: the filter lost its document_id clause.
PurgedAll(d) == [e \in Requests |-> NoPoints]

Purged(d) == [points EXCEPT ![d] = NoPoints]

DeletePoints(r) ==
    /\ req[r].pc = "purge"
    /\ points' = Purged(req[r].doc)
    /\ req' = [req EXCEPT ![r].pc = "unlink"]
    /\ UNCHANGED <<dbVars, objects, broker, worker, faults, lost, raced>>

DeleteObject(r) ==
    /\ req[r].pc = "unlink"
    /\ objects' = [objects EXCEPT ![req[r].path] = Nil]
    /\ req' = [req EXCEPT ![r].pc = "commit"]
    /\ UNCHANGED <<dbVars, points, broker, worker, faults, lost, raced>>

\* max(0, count - 1) is computed from the count loaded at the start; it is
\* not written when it equals that count.  Deleting a row that is already
\* gone only warns.
CommitDelete(r) ==
    LET d == req[r].doc IN
    /\ req[r].pc = "commit" /\ req[r].kind = "delete"
    /\ ~Locked(d)
    /\ docs' = [docs EXCEPT ![d] = NoDoc]
    /\ count' = IF req[r].seen = 0 THEN count ELSE req[r].seen - 1
    /\ Return(r)
    /\ UNCHANGED <<completions, taskRow, storeVars, broker, worker, faults, lost, raced>>

\* An exception in the handler, or a lost connection: the transaction rolls
\* back, what was done outside it stays.
RequestFails(r) ==
    /\ req[r].pc \notin {"new", "done"}
    /\ faults < MaxFaults
    /\ faults' = faults + 1
    /\ Return(r)
    /\ UNCHANGED <<dbVars, storeVars, broker, worker, lost, raced>>

-----------------------------------------------------------------------------
(* Workers.                                                                *)

\* Mutant: the message stays with the broker while it runs (acks_late).
KeptUntilDone(m) == broker

\* Celery acknowledges the message as it starts the task (acks_late is off).
Acknowledged(m) == broker \ {m}

Take(w) ==
    /\ worker[w].pc = "idle"
    /\ \E m \in broker :
        /\ broker' = Acknowledged(m)
        /\ worker' = [worker EXCEPT ![w] = Job("start", m.task, m.doc, m.retries)]
    /\ UNCHANGED <<dbVars, storeVars, req, faults, lost, raced>>

\* Mutant: the row is written whether it is there or not.
UpsertTaskStatus(t, status) == taskRow' = [taskRow EXCEPT ![t] = status]

\* _set_task_status: silent when the row is not there (yet).
SetTaskStatus(t, status) ==
    taskRow' = IF taskRow[t] = "absent" THEN taskRow ELSE [taskRow EXCEPT ![t] = status]

SetRunning(w) ==
    /\ worker[w].pc = "start"
    /\ SetTaskStatus(worker[w].task, "running")
    /\ Goto(w, "load")
    /\ UNCHANGED <<docs, count, completions, storeVars, broker, req, faults, lost, raced>>

\* Mutant: a missing row is not noticed; the path comes from elsewhere.
LoadDocumentUnchecked(w) ==
    /\ worker[w].pc = "load"
    /\ \E p \in Paths :
        worker' = [worker EXCEPT ![w].pc = "download", ![w].path = p]
    /\ UNCHANGED <<dbVars, storeVars, broker, req, faults, lost, raced>>

LoadDocument(w) ==
    LET d == worker[w].doc IN
    /\ worker[w].pc = "load"
    /\ IF Exists(d)
       THEN worker' = [worker EXCEPT ![w].pc = "download", ![w].path = docs[d].path]
       ELSE WindUp(w, "failing")
    /\ UNCHANGED <<dbVars, storeVars, broker, req, faults, lost, raced>>

Download(w) ==
    LET c == objects[worker[w].path] IN
    /\ worker[w].pc = "download"
    /\ IF c = Nil
       THEN WindUp(w, "failing")
       ELSE worker' = [worker EXCEPT ![w].pc = "check", ![w].content = c]
    /\ UNCHANGED <<dbVars, storeVars, broker, req, faults, lost, raced>>

\* Mutant: the query matches nothing.
HasNoDuplicate(d, c) == FALSE

HasDuplicate(d, c) == \E e \in Requests \ {d} : Exists(e) /\ docs[e].hash = c

\* _check_duplicate without a match.
PassHashCheck(w) ==
    LET d == worker[w].doc
        c == worker[w].content
    IN
    /\ worker[w].pc = "check"
    /\ ~HasDuplicate(d, c)
    /\ Goto(w, "parse")
    /\ raced' = IF \E v \in Workers : /\ worker[v].pc \in PastCheck
                                      /\ worker[v].content = c
                                      /\ worker[v].doc # d
                THEN raced \cup {c} ELSE raced
    /\ UNCHANGED <<dbVars, storeVars, broker, req, faults, lost>>

\* _check_duplicate with a match: the document keeps its hash, so it makes
\* later copies duplicates too.
FlagDuplicate(w) ==
    LET d == worker[w].doc
        c == worker[w].content
    IN
    /\ worker[w].pc = "check"
    /\ HasDuplicate(d, c)
    /\ ~Locked(d)
    /\ IF Exists(d)
       THEN /\ docs' = [docs EXCEPT ![d].status = "review_needed", ![d].hash = c]
            /\ WindUp(w, "finish")
       ELSE /\ docs' = docs
            /\ WindUp(w, "failing")
    /\ UNCHANGED <<count, completions, taskRow, storeVars, broker, req, faults, lost, raced>>

Parse(w) ==
    /\ worker[w].pc = "parse"
    /\ worker[w].content \notin LowCoverage
    /\ worker' = [worker EXCEPT ![w].pc = "index", ![w].batch = 0]
    /\ UNCHANGED <<dbVars, storeVars, broker, req, faults, lost, raced>>

\* Mutant: a row that is gone is written back.
UpsertDocStatus(d, status) == docs' = [docs EXCEPT ![d].status = status]

\* _set_document_status, and the same lines of _mark_document_failed: silent
\* when the document is gone.
SetDocStatus(d, status) ==
    docs' = IF Exists(d) THEN [docs EXCEPT ![d].status = status] ELSE docs

\* Too little text came out of the file.
FlagLowCoverage(w) ==
    LET d == worker[w].doc IN
    /\ worker[w].pc = "parse"
    /\ worker[w].content \in LowCoverage
    /\ ~Locked(d)
    /\ SetDocStatus(d, "review_needed")
    /\ WindUp(w, "finish")
    /\ UNCHANGED <<count, completions, taskRow, storeVars, broker, req, faults, lost, raced>>

\* Mutant: the last batch is left out.
LastButOne(n) == n >= Batches - 1

LastBatch(n) == n = Batches

\* One upsert of index_chunks.  Chunk ids are fresh uuid4s in every run, so a
\* batch adds points and never replaces any.
UpsertBatch(w) ==
    LET next == worker[w].batch + 1 IN
    /\ worker[w].pc = "index"
    /\ points' = [points EXCEPT ![worker[w].doc][worker[w].content] = @ + 1]
    /\ worker' = [worker EXCEPT ![w].batch = next,
                                ![w].pc = IF LastBatch(next) THEN "finalize" ELSE "index"]
    /\ UNCHANGED <<dbVars, objects, broker, req, faults, lost, raced>>

\* _finalize_success up to session.get(Coverage): the document is updated and
\* locked, document_count is read.  A deleted document is None here.
ReadCoverage(w) ==
    /\ worker[w].pc = "finalize"
    /\ ~Locked(worker[w].doc)
    /\ IF Exists(worker[w].doc)
       THEN worker' = [worker EXCEPT ![w].pc = "commit", ![w].seen = count]
       ELSE WindUp(w, "failing")
    /\ UNCHANGED <<dbVars, storeVars, broker, req, faults, lost, raced>>

\* Mutant: the audit row is forgotten.
CommitUnaudited(w) ==
    /\ worker[w].pc = "commit"
    /\ docs' = [docs EXCEPT ![worker[w].doc].status = "indexed"]
    /\ count' = worker[w].seen + 1
    /\ WindUp(w, "finish")
    /\ UNCHANGED <<completions, taskRow, storeVars, broker, req, faults, lost, raced>>

CommitIndexed(w) ==
    /\ worker[w].pc = "commit"
    /\ docs' = [docs EXCEPT ![worker[w].doc].status = "indexed",
                            ![worker[w].doc].hash = worker[w].content]
    /\ count' = worker[w].seen + 1
    /\ completions' = completions + 1
    /\ WindUp(w, "finish")
    /\ UNCHANGED <<taskRow, storeVars, broker, req, faults, lost, raced>>

Finish(w) ==
    /\ worker[w].pc = "finish"
    /\ SetTaskStatus(worker[w].task, "completed")
    /\ worker' = [worker EXCEPT ![w] = Idle]
    /\ UNCHANGED <<docs, count, completions, storeVars, broker, req, faults, lost, raced>>

\* An I/O error, or a parser's exception, inside the try block.
AttemptFails(w) ==
    /\ worker[w].pc \in Guarded
    /\ faults < MaxFaults
    /\ faults' = faults + 1
    /\ WindUp(w, "failing")
    /\ UNCHANGED <<dbVars, storeVars, broker, req, lost, raced>>

\* Mutant: one retry too many.
OneMoreRetry(w) == worker[w].retries <= MaxRetries

MayRetry(w) == worker[w].retries < MaxRetries

\* Mutant: the attempt is not counted.
RequeuedUncounted(w) ==
    broker \cup {[task |-> worker[w].task, doc |-> worker[w].doc,
                  retries |-> worker[w].retries]}

\* Mutant: nothing is sent.
NotRequeued(w) == broker

\* task.retry(): the same task goes back to the broker, its row stays running.
Requeued(w) ==
    broker \cup {[task |-> worker[w].task, doc |-> worker[w].doc,
                  retries |-> worker[w].retries + 1]}

Retry(w) ==
    /\ worker[w].pc = "failing"
    /\ MayRetry(w)
    /\ broker' = Requeued(w)
    /\ worker' = [worker EXCEPT ![w] = Idle]
    /\ UNCHANGED <<dbVars, storeVars, req, faults, lost, raced>>

MarkDocumentFailed(w) ==
    LET d == worker[w].doc IN
    /\ worker[w].pc = "failing"
    /\ ~MayRetry(w)
    /\ ~Locked(d)
    /\ SetDocStatus(d, "failed")
    /\ Goto(w, "fail_task")
    /\ UNCHANGED <<count, completions, taskRow, storeVars, broker, req, faults, lost, raced>>

MarkTaskFailed(w) ==
    /\ worker[w].pc = "fail_task"
    /\ SetTaskStatus(worker[w].task, "failed")
    /\ worker' = [worker EXCEPT ![w] = Idle]
    /\ UNCHANGED <<docs, count, completions, storeVars, broker, req, faults, lost, raced>>

\* The process is killed, or an exception leaves _execute outside its try
\* block: the acknowledged message is gone.
WorkerDies(w) ==
    /\ worker[w].pc # "idle"
    /\ faults < MaxFaults
    /\ faults' = faults + 1
    /\ lost' = lost \cup {worker[w].task}
    /\ worker' = [worker EXCEPT ![w] = Idle]
    /\ UNCHANGED <<dbVars, storeVars, broker, req, raced>>

-----------------------------------------------------------------------------

RequestStep(r) ==
    \/ StoreUpload(r) \/ LoadRetry(r) \/ SelectReindex(r) \/ LoadDelete(r)
    \/ Send(r) \/ DeletePoints(r) \/ DeleteObject(r)
    \/ CommitUpload(r) \/ CommitRetry(r) \/ CommitDelete(r)
    \/ RequestFails(r)

\* What a live worker does of itself.
WorkerStep(w) ==
    \/ Take(w) \/ SetRunning(w) \/ LoadDocument(w) \/ Download(w)
    \/ PassHashCheck(w) \/ FlagDuplicate(w)
    \/ Parse(w) \/ FlagLowCoverage(w) \/ UpsertBatch(w)
    \/ ReadCoverage(w) \/ CommitIndexed(w) \/ Finish(w)
    \/ Retry(w) \/ MarkDocumentFailed(w) \/ MarkTaskFailed(w)

Next ==
    \/ \E r \in Requests : RequestStep(r)
    \/ \E w \in Workers : WorkerStep(w) \/ AttemptFails(w) \/ WorkerDies(w)

Spec == Init /\ [][Next]_vars

\* Worker processes keep running; clients and the script promise nothing.
FairSpec == Spec /\ \A w \in Workers : WF_vars(WorkerStep(w))

-----------------------------------------------------------------------------
(* Properties.                                                             *)

TypeOK ==
    /\ docs \in [Requests -> DocRow]
    /\ count \in Nat
    /\ completions \in Nat
    /\ taskRow \in [Requests -> {"absent", "queued", "running", "completed", "failed"}]
    /\ objects \in [Paths -> Contents \cup {Nil}]
    /\ points \in [Requests -> [Contents -> Nat]]
    /\ broker \subseteq Message
    /\ req \in [Requests -> Request]
    /\ worker \in [Workers -> Worker]
    /\ faults \in 0..MaxFaults
    /\ lost \subseteq Requests
    /\ raced \subseteq Contents

DeleteBegun(d) == \E r \in Requests : req[r].kind = "delete" /\ req[r].doc = d

\* A document the API lists as indexed can be searched in full: every batch of
\* the content its file_hash names is in Qdrant, whatever retries, deaths,
\* reindexing and concurrent runs happened before, unless a delete of it began.
IndexedIsSearchable ==
    \A d \in Requests :
        docs[d].status = "indexed" /\ ~DeleteBegun(d)
            => docs[d].hash # Nil /\ points[d][docs[d].hash] >= Batches

\* Qdrant holds no points of an upload that was rolled back after its message
\* went out: whatever is searchable is a committed document's, unless a
\* delete of it began.
PointsNeedDocument ==
    \A d \in Requests :
        (\E c \in Contents : points[d][c] > 0) => Exists(d) \/ DeleteBegun(d)

Executing(t) == {w \in Workers : worker[w].pc # "idle" /\ worker[w].task = t}
Queued(t) == {m \in broker : m.task = t}

\* One task id is never run twice at once: while a worker runs it no message
\* of it is waiting and no other worker has it, and at most one is waiting.
\* The whole retry protocol rests on it.
OneExecutionPerTask ==
    \A t \in Requests :
        /\ \A v, w \in Executing(t) : v = w
        /\ \A m, n \in Queued(t) : m = n
        /\ Executing(t) # {} => Queued(t) = {}

\* A row that reads "running" is being worked on or will be: the task is in a
\* worker or in the broker, unless the worker died with it.
RunningIsOwned ==
    \A t \in Requests :
        taskRow[t] = "running" => Executing(t) # {} \/ Queued(t) # {} \/ t \in lost

SameBytesBothIndexed(c) ==
    \E d, e \in Requests :
        /\ d # e
        /\ docs[d].status = "indexed" /\ docs[d].hash = c
        /\ docs[e].status = "indexed" /\ docs[e].hash = c

\* The hash check lets two documents with the same bytes both become indexed
\* only if their runs were past the check at the same time; runs one after
\* the other never do, through any sequence of retries, deletes and reindexing.
DuplicatesNeedARace == \A c \in Contents : SameBytesBothIndexed(c) => c \in raced

\* "reject documents already indexed (hash check)": no coverage has two
\* indexed documents with the same bytes.
NoDuplicateIndexed == \A c \in Contents : ~SameBytesBothIndexed(c)

Settled(d) ==
    /\ \A w \in Workers : worker[w].doc # d
    /\ \A m \in broker : m.doc # d

\* reindex_all.py on re-ingesting: "it just re-embeds and overwrites that
\* document's Qdrant points": an indexed document that nothing is working on
\* has the points of one run.
ReindexOverwrites ==
    \A d \in Requests :
        docs[d].status = "indexed" /\ Settled(d)
            => \A c \in Contents : points[d][c] <= Batches

\* document_count is read, computed in Python and written back by workers and
\* deletes that overlap.  Updates get lost, but it never counts more than the
\* ingestions that completed.
CountNeverExceedsCompletions == count <= completions

\* A delete is final: a document's row appears only as its own upload commits,
\* pending; no worker or retry that still holds its id brings it back.
AppearsOnlyByUpload ==
    [][\A d \in Requests :
        ~Exists(d) /\ docs'[d].status # "absent"
            => docs'[d].status = "pending" /\ req[d].pc = "commit"
                                           /\ req'[d].pc = "done"]_vars

Tasks == INSTANCE TaskLifecycle WITH Tasks <- Requests, row <- taskRow

\* Every behaviour keeps the promise task_queue makes to its readers: queued,
\* perhaps running, then completed or failed for good.
TaskRowsFollowLifecycle == Tasks!Spec

\* A task that reads "running" ends: retries are bounded, and the last one
\* writes the row, unless the worker dies.
RunningTaskSettles ==
    \A t \in Requests : taskRow[t] = "running" ~> taskRow[t] \in Tasks!Terminal \/ t \in lost
=============================================================================
