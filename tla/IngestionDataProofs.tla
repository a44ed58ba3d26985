------------------------ MODULE IngestionDataProofs ------------------------
(***************************************************************************)
(* Theorems about what Ingestion leaves in its stores: the index agrees    *)
(* with the documents, the count with the audit log, and duplicates come   *)
(* from races only.                                                        *)
(***************************************************************************)
EXTENDS IngestionProofs

(* Where a worker has found its document's row.                            *)
Pipeline == {"download", "check"} \cup PastCheck

(* A worker changes only the points of a document it found.                *)
LoadedExists ==
    \A w \in Workers : worker[w].pc \in Pipeline =>
        Exists(worker[w].doc) \/ DeleteBegun(worker[w].doc)

(* The n first batches of content c are in Qdrant.                         *)
HasBatches(d, c, n) == points[d][c] >= n \/ DeleteBegun(d)

UpsertsCounted ==
    \A w \in Workers :
        LET j == worker[w]
        IN /\ j.pc = "index" => HasBatches(j.doc, j.content, j.batch)
           /\ j.pc \in {"finalize", "commit"} => HasBatches(j.doc, j.content, Batches)

RequestsKnown ==
    \A r \in Requests : /\ req[r].pc = "new" => req[r].kind = "none"
                        /\ req[r].pc = "purge" => req[r].kind = "delete"

SearchInv ==
    /\ RowInv
    /\ RequestsKnown /\ LoadedExists /\ UpsertsCounted
    /\ IndexedIsSearchable /\ PointsNeedDocument

(* Whatever count a handler has read was no more than the completions.     *)
SeenCounts ==
    /\ \A r \in Requests : req[r].seen <= completions
    /\ \A w \in Workers : worker[w].pc = "commit" => worker[w].seen <= completions

CountInv == RowInv /\ SeenCounts /\ CountNeverExceedsCompletions

(* Runs past the check with the same bytes, or one such run and a document *)
(* that is indexed with them, met there.                                   *)
RunsRaced ==
    \A v, w \in Workers :
        worker[v].pc \in PastCheck /\ worker[w].pc \in PastCheck =>
            \/ worker[v].doc = worker[w].doc \/ worker[v].content # worker[w].content
            \/ worker[v].content \in raced

IndexedWith(d, c) == docs[d].status = "indexed" /\ docs[d].hash = c

RunsRacedIndexed ==
    \A w \in Workers, d \in Requests :
        worker[w].pc \in PastCheck /\ IndexedWith(d, worker[w].content) =>
            d = worker[w].doc \/ worker[w].content \in raced

RaceInv == RowInv /\ RunsRaced /\ RunsRacedIndexed /\ DuplicatesNeedARace

(* What a step does to a request.                                          *)

Begins(r) ==
    /\ req[r].pc = "new" /\ req'[r].pc \in {"send", "purge"}
    /\ req'[r].pc = "purge" => req'[r].kind = "delete"
    /\ req'[r].seen = 0 \/ (LoadDelete(r) /\ req'[r].seen = count)

GoesOn(r) ==
    /\ req[r].pc \notin {"new", "done"} /\ req'[r].pc \in {"unlink", "commit", "done"}
    /\ req'[r].kind = req[r].kind /\ req'[r].doc = req[r].doc
    /\ req'[r].seen \in {0, req[r].seen}

LEMMA RequestBegins ==
  ASSUME TypeOK, NEW r \in Requests, NEW q, req' = [req EXCEPT ![r] = q],
         req[r].pc = "new", q.pc \in {"send", "purge"}, q.pc = "purge" => q.kind = "delete",
         q.seen = 0 \/ (LoadDelete(r) /\ q.seen = count)
  PROVE  Begins(r) /\ \A s \in Requests \ {r} : req'[s] = req[s]
  BY DEF TypeOK, Begins

LEMMA RequestGoesOn ==
  ASSUME TypeOK, NEW r \in Requests, req[r].pc \notin {"new", "done"},
         \/ Return(r)
         \/ \E pc \in {"unlink", "commit"} : req' = [req EXCEPT ![r].pc = pc]
  PROVE  GoesOn(r) /\ \A s \in Requests \ {r} : req'[s] = req[s]
<1>0. req \in [Requests -> Request] /\ req[r] \in RequestRecord
  BY DEF TypeOK, Request
<1>1. CASE Return(r)
  <2> DEFINE q == Handling("done", req[r].kind, req[r].doc)
  <2>1. q.pc = "done" /\ q.kind = req[r].kind /\ q.doc = req[r].doc /\ q.seen = 0
    BY DEF Handling
  <2> HIDE DEF q
  <2>2. req' = [req EXCEPT ![r] = q]
    BY <1>1 DEF Return, q
  <2> QED
    BY <1>0, <2>1, <2>2 DEF GoesOn
<1>2. ASSUME NEW pc \in {"unlink", "commit"}, req' = [req EXCEPT ![r].pc = pc]
      PROVE  GoesOn(r) /\ \A s \in Requests \ {r} : req'[s] = req[s]
  BY <1>0, <1>2 DEF GoesOn, RequestRecord
<1> QED
  BY <1>1, <1>2

LEMMA RequestChanges ==
  ASSUME TypeOK, Next, NEW s \in Requests
  PROVE  req'[s] = req[s] \/ Begins(s) \/ GoesOn(s)
<1>1. ASSUME NEW w \in Workers, WorkerStep(w) \/ AttemptFails(w) \/ WorkerDies(w)
      PROVE  req' = req
  BY <1>1 DEF WorkerStep, Take, SetRunning, LoadDocument, Download, PassHashCheck,
     FlagDuplicate, Parse, FlagLowCoverage, UpsertBatch, ReadCoverage, CommitIndexed,
     Finish, Retry, MarkDocumentFailed, MarkTaskFailed, AttemptFails, WorkerDies
<1>2. ASSUME NEW r \in Requests, Send(r) \/ DeletePoints(r) \/ DeleteObject(r)
      PROVE  req'[s] = req[s] \/ GoesOn(s)
  BY <1>2, RequestGoesOn DEF Send, DeletePoints, DeleteObject
<1>3. ASSUME NEW r \in Requests,
             CommitUpload(r) \/ CommitRetry(r) \/ CommitDelete(r) \/ RequestFails(r)
      PROVE  req'[s] = req[s] \/ GoesOn(s)
  BY <1>3, RequestGoesOn DEF CommitUpload, CommitRetry, CommitDelete, RequestFails
<1>4. ASSUME NEW r \in Requests, StoreUpload(r) PROVE req'[s] = req[s] \/ Begins(s)
  <2>1. PICK p \in Paths :
          req' = [req EXCEPT ![r] = [Handling("send", "upload", r) EXCEPT !.path = p]]
    BY <1>4 DEF StoreUpload
  <2> DEFINE q == [Handling("send", "upload", r) EXCEPT !.path = p]
  <2>2. q.pc = "send" /\ q.seen = 0
    BY DEF Handling
  <2>3. req' = [req EXCEPT ![r] = q] /\ req[r].pc = "new"
    BY <1>4, <2>1 DEF StoreUpload
  <2> HIDE DEF q
  <2> QED
    BY <2>2, <2>3, RequestBegins
<1>5. ASSUME NEW r \in Requests, LoadRetry(r) PROVE req'[s] = req[s] \/ Begins(s)
  <2>1. PICK d \in Requests :
          req' = [req EXCEPT ![r] = [Handling("send", "retry", d)
                                         EXCEPT !.status = docs[d].status]]
    BY <1>5 DEF LoadRetry
  <2> DEFINE q == [Handling("send", "retry", d) EXCEPT !.status = docs[d].status]
  <2>2. q.pc = "send" /\ q.seen = 0
    BY DEF Handling
  <2>3. req' = [req EXCEPT ![r] = q] /\ req[r].pc = "new"
    BY <1>5, <2>1 DEF LoadRetry
  <2> HIDE DEF q
  <2> QED
    BY <2>2, <2>3, RequestBegins
<1>6. ASSUME NEW r \in Requests, SelectReindex(r) PROVE req'[s] = req[s] \/ Begins(s)
  <2>1. PICK d \in Requests : req' = [req EXCEPT ![r] = Handling("send", "reindex", d)]
    BY <1>6 DEF SelectReindex
  <2> DEFINE q == Handling("send", "reindex", d)
  <2>2. q.pc = "send" /\ q.seen = 0
    BY DEF Handling
  <2>3. req' = [req EXCEPT ![r] = q] /\ req[r].pc = "new"
    BY <1>6, <2>1 DEF SelectReindex
  <2> HIDE DEF q
  <2> QED
    BY <2>2, <2>3, RequestBegins
<1>7. ASSUME NEW r \in Requests, LoadDelete(r) PROVE req'[s] = req[s] \/ Begins(s)
  <2>1. PICK d \in Requests :
          req' = [req EXCEPT ![r] = [Handling("purge", "delete", d)
                                         EXCEPT !.path = docs[d].path, !.seen = count]]
    BY <1>7 DEF LoadDelete
  <2> DEFINE q == [Handling("purge", "delete", d) EXCEPT !.path = docs[d].path, !.seen = count]
  <2>2. q.pc = "purge" /\ q.kind = "delete" /\ q.seen = count
    BY DEF Handling
  <2>3. req' = [req EXCEPT ![r] = q] /\ req[r].pc = "new"
    BY <1>7, <2>1 DEF LoadDelete
  <2> HIDE DEF q
  <2> QED
    BY <1>7, <2>2, <2>3, RequestBegins
<1> QED
  BY <1>1, <1>2, <1>3, <1>4, <1>5, <1>6, <1>7 DEF Next, RequestStep

(* What a step does to a worker that is past loading its document.         *)

SameFile(w) == /\ worker'[w].doc = worker[w].doc
               /\ worker'[w].content = worker[w].content

FindsDocument(w) ==
    /\ worker'[w].pc = "download" /\ worker'[w].doc = worker[w].doc
    /\ Exists(worker[w].doc) /\ docs' = docs

Downloads(w) ==
    worker[w].pc = "download" /\ worker'[w].pc = "check" /\ worker'[w].doc = worker[w].doc

Passes(w) == PassHashCheck(w) /\ worker'[w].pc = "parse" /\ SameFile(w)

Parses(w) ==
    /\ worker[w].pc = "parse" /\ worker'[w].pc = "index" /\ SameFile(w)
    /\ worker'[w].batch = 0

Upserts(w) ==
    /\ UpsertBatch(w) /\ SameFile(w)
    /\ worker'[w].batch = worker[w].batch + 1
    /\ \/ worker'[w].pc = "index"
       \/ worker'[w].pc = "finalize" /\ worker'[w].batch = Batches

ReadsCoverage(w) ==
    /\ worker[w].pc = "finalize" /\ worker'[w].pc = "commit" /\ SameFile(w)
    /\ worker'[w].seen = count /\ docs' = docs /\ completions' = completions

Leaves(w) == worker'[w].pc \notin Pipeline

InPipeline(w) ==
    \/ FindsDocument(w) \/ Downloads(w) \/ Passes(w) \/ Parses(w)
    \/ Upserts(w) \/ ReadsCoverage(w) \/ Leaves(w)

LEMMA WorkerLeaves ==
  ASSUME TypeOK, NEW w \in Workers,
         NEW j, j.pc \notin Pipeline, worker' = [worker EXCEPT ![w] = j]
  PROVE  Leaves(w) /\ \A v \in Workers \ {w} : worker'[v] = worker[v]
  BY DEF TypeOK, Leaves

LEMMA LoadEffect ==
  ASSUME TypeOK, NEW w \in Workers, LoadDocument(w) \/ Download(w)
  PROVE  InPipeline(w) /\ \A v \in Workers \ {w} : worker'[v] = worker[v]
<1>0. worker \in [Workers -> Worker] /\ worker[w] \in WorkerRecord
  BY DEF TypeOK, Worker
<1>1. CASE WindUp(w, "failing")
  BY <1>1, WindUpEffect DEF InPipeline, Leaves, Pipeline, PastCheck
<1>2. CASE LoadDocument(w) /\ ~WindUp(w, "failing")
  <2>1. worker' = [worker EXCEPT ![w].pc = "download", ![w].path = docs[worker[w].doc].path]
        /\ Exists(worker[w].doc) /\ docs' = docs
    BY <1>2 DEF LoadDocument, dbVars
  <2>2. worker'[w].pc = "download" /\ worker'[w].doc = worker[w].doc
    BY <1>0, <2>1 DEF WorkerRecord
  <2> QED
    BY <1>0, <2>1, <2>2 DEF InPipeline, FindsDocument
<1>3. CASE Download(w) /\ ~WindUp(w, "failing")
  <2>1. worker' = [worker EXCEPT ![w].pc = "check", ![w].content = objects[worker[w].path]]
        /\ worker[w].pc = "download"
    BY <1>3 DEF Download
  <2>2. worker'[w].pc = "check" /\ worker'[w].doc = worker[w].doc
    BY <1>0, <2>1 DEF WorkerRecord
  <2> QED
    BY <1>0, <2>1, <2>2 DEF InPipeline, Downloads
<1> QED
  BY <1>1, <1>2, <1>3

LEMMA IndexEffect ==
  ASSUME TypeOK, NEW w \in Workers, Parse(w) \/ UpsertBatch(w) \/ ReadCoverage(w)
  PROVE  InPipeline(w) /\ \A v \in Workers \ {w} : worker'[v] = worker[v]
<1>0. worker \in [Workers -> Worker] /\ worker[w] \in WorkerRecord
  BY DEF TypeOK, Worker
<1>1. CASE Parse(w)
  <2>1. worker' = [worker EXCEPT ![w].pc = "index", ![w].batch = 0] /\ worker[w].pc = "parse"
    BY <1>1 DEF Parse
  <2>2. worker'[w].pc = "index" /\ SameFile(w) /\ worker'[w].batch = 0
    BY <1>0, <2>1 DEF WorkerRecord, SameFile
  <2> QED
    BY <1>0, <2>1, <2>2 DEF InPipeline, Parses
<1>2. CASE UpsertBatch(w)
  <2> DEFINE n == worker[w].batch + 1
             pc == IF LastBatch(n) THEN "finalize" ELSE "index"
  <2>1. worker' = [worker EXCEPT ![w].batch = n, ![w].pc = pc]
    BY <1>2 DEF UpsertBatch
  <2>2. pc = "index" \/ (pc = "finalize" /\ n = Batches)
    BY DEF LastBatch
  <2>3. n = worker[w].batch + 1
    OBVIOUS
  <2> HIDE DEF n, pc
  <2>4. worker'[w].pc = pc /\ worker'[w].batch = n /\ SameFile(w)
    BY <1>0, <2>1 DEF WorkerRecord, SameFile
  <2> QED
    BY <1>0, <1>2, <2>1, <2>2, <2>3, <2>4 DEF InPipeline, Upserts
<1>3. CASE ReadCoverage(w) /\ WindUp(w, "failing")
  BY <1>3, WindUpEffect DEF InPipeline, Leaves, Pipeline, PastCheck
<1>4. CASE ReadCoverage(w) /\ ~WindUp(w, "failing")
  <2>1. /\ worker' = [worker EXCEPT ![w].pc = "commit", ![w].seen = count]
        /\ worker[w].pc = "finalize" /\ docs' = docs /\ completions' = completions
    BY <1>4 DEF ReadCoverage, dbVars
  <2>2. worker'[w].pc = "commit" /\ SameFile(w) /\ worker'[w].seen = count
    BY <1>0, <2>1 DEF WorkerRecord, SameFile
  <2> QED
    BY <1>0, <2>1, <2>2 DEF InPipeline, ReadsCoverage
<1> QED
  BY <1>1, <1>2, <1>3, <1>4

LEMMA WorkerChanges ==
  ASSUME TypeOK, Next, NEW w \in Workers
  PROVE  worker'[w] = worker[w] \/ InPipeline(w)
<1>1. ASSUME NEW r \in Requests, RequestStep(r) PROVE worker' = worker
  BY <1>1 DEF RequestStep, StoreUpload, LoadRetry, SelectReindex, LoadDelete, Send,
     DeletePoints, DeleteObject, CommitUpload, CommitRetry, CommitDelete, RequestFails
<1>2. ASSUME NEW v \in Workers, WorkerStep(v) \/ AttemptFails(v) \/ WorkerDies(v)
      PROVE  worker'[w] = worker[w] \/ (v = w /\ InPipeline(w))
  <2>1. CASE Take(v)
    <3>1. PICK m \in broker : worker' = [worker EXCEPT ![v] =
                                           Job("start", m.task, m.doc, m.retries)]
      BY <2>1 DEF Take
    <3>2. Job("start", m.task, m.doc, m.retries).pc \notin Pipeline
      BY DEF Job, Pipeline, PastCheck
    <3> QED
      BY <3>1, <3>2, WorkerLeaves DEF InPipeline
  <2>2. CASE SetRunning(v) \/ MarkDocumentFailed(v)
    BY <2>2, GotoEffect DEF SetRunning, MarkDocumentFailed, InPipeline, Leaves, Pipeline,
       PastCheck
  <2>3. CASE FlagDuplicate(v) \/ FlagLowCoverage(v) \/ CommitIndexed(v) \/ AttemptFails(v)
    <3>1. WindUp(v, "finish") \/ WindUp(v, "failing")
      BY <2>3 DEF FlagDuplicate, FlagLowCoverage, CommitIndexed, AttemptFails
    <3> QED
      BY <3>1, WindUpEffect DEF InPipeline, Leaves, Pipeline, PastCheck
  <2>4. CASE Finish(v) \/ Retry(v) \/ MarkTaskFailed(v) \/ WorkerDies(v)
    <3>1. worker' = [worker EXCEPT ![v] = Idle]
      BY <2>4 DEF Finish, Retry, MarkTaskFailed, WorkerDies
    <3>2. Idle.pc \notin Pipeline
      BY DEF Idle, Job, Pipeline, PastCheck
    <3> QED
      BY <3>1, <3>2, WorkerLeaves DEF InPipeline
  <2>5. CASE PassHashCheck(v)
    BY <2>5, GotoEffect DEF PassHashCheck, InPipeline, Passes, SameFile
  <2> QED
    BY <1>2, <2>1, <2>2, <2>3, <2>4, <2>5, LoadEffect, IndexEffect DEF WorkerStep
<1> QED
  BY <1>1, <1>2 DEF Next

(* What a step does to the points and the rows of a document.              *)

(* What the next state says of document d.                                 *)
DeletedNext(d) == \E r \in Requests : req'[r].kind = "delete" /\ req'[r].doc = d

ExistsNext(d) == docs'[d].status # "absent"

HasBatchesNext(d, c, n) == points'[d][c] >= n \/ DeletedNext(d)

LEMMA DeletesStay ==
  ASSUME TypeOK, RequestsKnown, Next, NEW d \in Requests, DeleteBegun(d)
  PROVE  DeletedNext(d)
<1>1. PICK r \in Requests : req[r].kind = "delete" /\ req[r].doc = d
  BY DEF DeleteBegun
<1>2. req'[r].kind = "delete" /\ req'[r].doc = d
  BY <1>1, RequestChanges DEF RequestsKnown, Begins, GoesOn
<1> QED
  BY <1>2 DEF DeletedNext

LEMMA RowsStay ==
  ASSUME TypeOK, RequestsKnown, Next, NEW d \in Requests, Exists(d) \/ DeleteBegun(d)
  PROVE  ExistsNext(d) \/ DeletedNext(d)
<1>1. CASE Exists(d) /\ ~ExistsNext(d)
  <2>1. PICK r \in Requests : CommitDelete(r) /\ req[r].doc = d
    BY <1>1, RowsDeleted DEF Exists, ExistsNext
  <2>2. DeleteBegun(d)
    BY <2>1 DEF CommitDelete, DeleteBegun
  <2> QED
    BY <2>2, DeletesStay
<1> QED
  BY <1>1, DeletesStay

LEMMA PointsChange ==
  ASSUME Next
  PROVE  \/ points' = points
         \/ \E r \in Requests : DeletePoints(r)
         \/ \E w \in Workers : UpsertBatch(w)
  BY DEF Next, RequestStep, WorkerStep, StoreUpload, LoadRetry, SelectReindex,
     LoadDelete, Send, DeleteObject, CommitUpload, CommitRetry, CommitDelete,
     RequestFails, Take, SetRunning, LoadDocument, Download, PassHashCheck, Parse,
     ReadCoverage, FlagDuplicate, FlagLowCoverage, CommitIndexed, Finish, Retry,
     MarkDocumentFailed, MarkTaskFailed, AttemptFails, WorkerDies, storeVars

LEMMA UpsertEffect ==
  ASSUME TypeOK, NEW w \in Workers, UpsertBatch(w)
  PROVE  /\ worker[w].doc \in Requests /\ worker[w].content \in Contents
         /\ worker[w].batch \in Nat
         /\ points'[worker[w].doc][worker[w].content] =
                points[worker[w].doc][worker[w].content] + 1
         /\ \A d \in Requests, c \in Contents :
                d # worker[w].doc \/ c # worker[w].content => points'[d][c] = points[d][c]
<1>1. worker[w] \in Worker /\ worker[w].pc = "index"
  BY DEF TypeOK, UpsertBatch
<1>2. worker[w].doc \in Requests /\ worker[w].content \in Contents /\ worker[w].batch \in Nat
  BY <1>1 DEF Worker, WorkerRecord, PastCheck
<1>3. points' = [points EXCEPT ![worker[w].doc][worker[w].content] = @ + 1]
  BY DEF UpsertBatch
<1> HIDE DEF UpsertBatch
<1> QED
  BY <1>2, <1>3 DEF TypeOK

LEMMA BatchesStay ==
  ASSUME TypeOK, RequestsKnown, Next,
         NEW d \in Requests, NEW c \in Contents, NEW n \in Nat, HasBatches(d, c, n)
  PROVE  HasBatchesNext(d, c, n)
<1>0. points \in [Requests -> [Contents -> Nat]]
  BY DEF TypeOK
<1>1. CASE DeleteBegun(d)
  BY <1>1, DeletesStay DEF HasBatchesNext
<1>2. CASE ~DeleteBegun(d)
  <2>1. ASSUME NEW r \in Requests, DeletePoints(r) PROVE points'[d][c] = points[d][c]
    <3>1. req[r].doc # d
      BY <1>2, <2>1 DEF DeletePoints, RequestsKnown, DeleteBegun
    <3>2. points' = [points EXCEPT ![req[r].doc] = NoPoints]
      BY <2>1 DEF DeletePoints, Purged
    <3> QED
      BY <1>0, <3>1, <3>2
  <2>2. points'[d][c] = points[d][c] \/ points'[d][c] = points[d][c] + 1
    BY <2>1, PointsChange, UpsertEffect
  <2>3. points[d][c] \in Nat /\ points[d][c] >= n
    BY <1>0, <1>2 DEF HasBatches
  <2> QED
    BY <2>2, <2>3 DEF HasBatchesNext
<1> QED
  BY <1>1, <1>2

(* Only _finalize_success makes a document indexed.                        *)
LEMMA IndexedBy ==
  ASSUME TypeOK, Next, NEW d \in Requests, docs'[d].status = "indexed", docs'[d] # docs[d]
  PROVE  \E w \in Workers : /\ CommitIndexed(w) /\ worker[w].doc = d
                            /\ docs'[d].hash = worker[w].content
<1>0. docs \in [Requests -> DocRow] /\ docs' # docs
  BY DEF TypeOK
<1>1. ASSUME NEW r \in Requests, CommitUpload(r) PROVE FALSE
  BY <1>0, <1>1 DEF CommitUpload
<1>2. ASSUME NEW r \in Requests, CommitRetry(r) PROVE FALSE
  <2>1. docs' = [docs EXCEPT ![req[r].doc].status = "pending"]
    BY <1>0, <1>2 DEF CommitRetry
  <2> QED
    BY <1>0, <2>1 DEF DocRow, DocRecord
<1>3. ASSUME NEW r \in Requests, CommitDelete(r) PROVE FALSE
  <2>1. docs' = [docs EXCEPT ![req[r].doc] = NoDoc]
    BY <1>3 DEF CommitDelete
  <2> QED
    BY <1>0, <2>1 DEF NoDoc
<1>4. ASSUME NEW w \in Workers, FlagDuplicate(w) PROVE FALSE
  <2>1. docs' = [docs EXCEPT ![worker[w].doc].status = "review_needed",
                             ![worker[w].doc].hash = worker[w].content]
    BY <1>0, <1>4 DEF FlagDuplicate
  <2> QED
    BY <1>0, <2>1 DEF DocRow, DocRecord
<1>5. ASSUME NEW e, NEW s, s # "indexed", SetDocStatus(e, s) PROVE FALSE
  <2>1. docs' = [docs EXCEPT ![e].status = s]
    BY <1>0, <1>5 DEF SetDocStatus
  <2> QED
    BY <1>0, <1>5, <2>1 DEF DocRow, DocRecord
<1>6. ASSUME NEW w \in Workers, CommitIndexed(w)
      PROVE  worker[w].doc = d /\ docs'[d].hash = worker[w].content
  <2>1. docs' = [docs EXCEPT ![worker[w].doc].status = "indexed",
                             ![worker[w].doc].hash = worker[w].content]
    BY <1>6 DEF CommitIndexed
  <2> QED
    BY <1>0, <2>1 DEF DocRow, DocRecord
<1> QED
  BY <1>0, <1>1, <1>2, <1>3, <1>4, <1>5, <1>6, DocsChange
     DEF FlagLowCoverage, MarkDocumentFailed

(***************************************************************************)
(* The index and the documents.                                            *)
(***************************************************************************)
LEMMA LoadedStep ==
  ASSUME TypeOK, RequestsKnown, LoadedExists, Next
  PROVE  LoadedExists'
<1>1. ASSUME NEW w \in Workers, worker'[w].pc \in Pipeline
      PROVE  ExistsNext(worker'[w].doc) \/ DeletedNext(worker'[w].doc)
  <2>1. worker[w].pc # "idle" => worker[w].doc \in Requests
    BY DEF TypeOK, Worker
  <2>2. CASE worker[w].pc \in Pipeline /\ worker'[w].doc = worker[w].doc
    <3>1. worker[w].doc \in Requests
      BY <2>1, <2>2 DEF Pipeline, PastCheck
    <3> QED
      BY <2>2, <3>1, RowsStay DEF LoadedExists
  <2>3. CASE FindsDocument(w)
    BY <2>3 DEF FindsDocument, Exists, ExistsNext
  <2> QED
    BY <1>1, <2>2, <2>3, WorkerChanges DEF InPipeline, Downloads, Passes, Parses, Upserts,
       ReadsCoverage, Leaves, SameFile, Pipeline, PastCheck, PassHashCheck, UpsertBatch
<1> QED
  BY <1>1 DEF LoadedExists, Exists, ExistsNext, DeleteBegun, DeletedNext

LEMMA UpsertsStep ==
  ASSUME TypeOK, RequestsKnown, UpsertsCounted, Next
  PROVE  UpsertsCounted'
<1>1. ASSUME NEW w \in Workers
      PROVE  LET j == worker'[w]
             IN /\ j.pc = "index" => HasBatchesNext(j.doc, j.content, j.batch)
                /\ j.pc \in {"finalize", "commit"} =>
                         HasBatchesNext(j.doc, j.content, Batches)
  <2> DEFINE d == worker[w].doc
             c == worker[w].content
             n == worker[w].batch
  <2>0. worker[w].pc \in PastCheck => d \in Requests /\ c \in Contents /\ n \in Nat
    BY DEF TypeOK, Worker, WorkerRecord, PastCheck
  <2>1. Batches \in Nat
    BY ConstantsOK
  <2>2. worker[w].pc = "index" => HasBatches(d, c, n)
    BY DEF UpsertsCounted
  <2>3. worker[w].pc \in {"finalize", "commit"} => HasBatches(d, c, Batches)
    BY DEF UpsertsCounted
  <2>4. worker[w].pc = "index" => HasBatchesNext(d, c, n)
    BY <2>0, <2>2, BatchesStay DEF PastCheck
  <2>5. worker[w].pc \in {"finalize", "commit"} => HasBatchesNext(d, c, Batches)
    BY <2>0, <2>1, <2>3, BatchesStay DEF PastCheck
  <2>6. CASE worker'[w] = worker[w]
    BY <2>4, <2>5, <2>6
  <2>7. CASE Parses(w)
    <3>1. HasBatches(d, c, 0)
      BY <2>0, <2>7 DEF Parses, PastCheck, HasBatches, TypeOK
    <3>2. HasBatchesNext(d, c, 0)
      BY <2>0, <2>7, <3>1, BatchesStay DEF Parses, PastCheck
    <3> QED
      BY <2>7, <3>2 DEF Parses, SameFile
  <2>8. CASE Upserts(w)
    <3>1. UpsertBatch(w) /\ worker[w].pc = "index"
      BY <2>8 DEF Upserts, UpsertBatch
    <3>2. HasBatchesNext(d, c, n + 1)
      <4>1. CASE DeleteBegun(d)
        BY <2>0, <3>1, <4>1, DeletesStay DEF HasBatchesNext, PastCheck
      <4>2. CASE points[d][c] >= n
        <5>1. points'[d][c] = points[d][c] + 1 /\ points[d][c] \in Nat /\ n \in Nat
          BY <2>0, <3>1, UpsertEffect DEF PastCheck, TypeOK
        <5> QED
          BY <4>2, <5>1 DEF HasBatchesNext
      <4> QED
        BY <2>2, <3>1, <4>1, <4>2 DEF HasBatches
    <3> QED
      BY <2>8, <3>2 DEF Upserts, SameFile
  <2>9. CASE ReadsCoverage(w)
    BY <2>5, <2>9 DEF ReadsCoverage, SameFile
  <2> QED
    BY <2>6, <2>7, <2>8, <2>9, WorkerChanges DEF InPipeline, FindsDocument, Downloads,
       Passes, Leaves, Pipeline, PastCheck
<1> QED
  BY <1>1 DEF UpsertsCounted, HasBatches, HasBatchesNext, DeleteBegun, DeletedNext

LEMMA SearchableStep ==
  ASSUME TypeOK, RequestsKnown, UpsertsCounted, IndexedIsSearchable, Next
  PROVE  IndexedIsSearchable'
<1>0. Batches \in Nat
  BY ConstantsOK
<1>1. ASSUME NEW d \in Requests, docs'[d].status = "indexed", ~DeletedNext(d)
      PROVE  docs'[d].hash # Nil /\ points'[d][docs'[d].hash] >= Batches
  <2>1. ~DeleteBegun(d)
    BY <1>1, DeletesStay
  <2>2. CASE docs'[d] = docs[d]
    <3>1. docs[d].hash # Nil /\ points[d][docs[d].hash] >= Batches
      BY <1>1, <2>1, <2>2 DEF IndexedIsSearchable
    <3>2. docs[d].hash \in Contents
      BY <3>1 DEF TypeOK, DocRow, DocRecord
    <3>3. HasBatchesNext(d, docs[d].hash, Batches)
      BY <1>0, <3>1, <3>2, BatchesStay DEF HasBatches
    <3> QED
      BY <1>1, <2>2, <3>1, <3>3 DEF HasBatchesNext
  <2>3. CASE docs'[d] # docs[d]
    <3>1. PICK w \in Workers : /\ CommitIndexed(w) /\ worker[w].doc = d
                               /\ docs'[d].hash = worker[w].content
      BY <1>1, <2>3, IndexedBy
    <3>2. worker[w].pc = "commit"
      BY <3>1 DEF CommitIndexed
    <3>3. worker[w].content \in Contents /\ worker[w].content # Nil
      BY <3>2, ConstantsOK DEF TypeOK, Worker, PastCheck
    <3>4. HasBatches(d, worker[w].content, Batches)
      BY <3>1, <3>2 DEF UpsertsCounted
    <3>5. HasBatchesNext(d, worker[w].content, Batches)
      BY <1>0, <3>3, <3>4, BatchesStay
    <3> QED
      BY <1>1, <3>1, <3>3, <3>5 DEF HasBatchesNext
  <2> QED
    BY <2>2, <2>3
<1> QED
  BY <1>1 DEF IndexedIsSearchable, DeleteBegun, DeletedNext

LEMMA PointsStep ==
  ASSUME TypeOK, RequestsKnown, LoadedExists, PointsNeedDocument, Next
  PROVE  PointsNeedDocument'
<1>0. points \in [Requests -> [Contents -> Nat]]
  BY DEF TypeOK
<1>1. ASSUME NEW d \in Requests, NEW c \in Contents, points'[d][c] > 0
      PROVE  Exists(d) \/ DeleteBegun(d)
  <2>1. CASE points[d][c] > 0
    BY <2>1 DEF PointsNeedDocument
  <2>2. CASE ~(points[d][c] > 0)
    <3>1. points' # points
      BY <1>1, <2>2
    <3>2. ASSUME NEW r \in Requests, DeletePoints(r) PROVE FALSE
      <4>1. points' = [points EXCEPT ![req[r].doc] = NoPoints]
        BY <3>2 DEF DeletePoints, Purged
      <4>2. points'[d][c] = 0 \/ points'[d][c] = points[d][c]
        BY <1>0, <4>1 DEF NoPoints
      <4> QED
        BY <1>1, <2>2, <4>2
    <3>3. PICK w \in Workers : UpsertBatch(w)
      BY <3>1, <3>2, PointsChange
    <3>4. worker[w].doc = d
      BY <1>1, <2>2, <3>3, UpsertEffect
    <3> QED
      BY <3>3, <3>4 DEF LoadedExists, UpsertBatch, Pipeline, PastCheck
  <2> QED
    BY <2>1, <2>2
<1>2. ASSUME NEW d \in Requests, NEW c \in Contents, points'[d][c] > 0
      PROVE  ExistsNext(d) \/ DeletedNext(d)
  BY <1>1, <1>2, RowsStay
<1> QED
  BY <1>2 DEF PointsNeedDocument, Exists, ExistsNext, DeleteBegun, DeletedNext

LEMMA KnownStep == ASSUME TypeOK, RequestsKnown, Next PROVE RequestsKnown'
  BY RequestChanges DEF RequestsKnown, Begins, GoesOn

LEMMA SearchInvariant == Spec => []SearchInv
<1>1. Init => SearchInv
  <2> SUFFICES ASSUME Init PROVE SearchInv
    OBVIOUS
  <2>1. RowInv
    BY TypeInit DEF RowInv, LockedRowExists, Init, Idle, Job
  <2>2. RequestsKnown /\ LoadedExists /\ UpsertsCounted
    BY DEF Init, RequestsKnown, LoadedExists, UpsertsCounted, Handling, Idle, Job,
       Pipeline, PastCheck
  <2>3. IndexedIsSearchable /\ PointsNeedDocument
    BY DEF Init, IndexedIsSearchable, PointsNeedDocument, NoDoc, NoPoints
  <2> QED
    BY <2>1, <2>2, <2>3 DEF SearchInv
<1>2. SearchInv /\ [Next]_vars => SearchInv'
  <2> SUFFICES ASSUME SearchInv, [Next]_vars PROVE SearchInv'
    OBVIOUS
  <2> USE DEF SearchInv
  <2>1. RowInv'
    BY TypeStep, LockStep DEF RowInv
  <2>2. CASE Next
    BY <2>1, <2>2, KnownStep, LoadedStep, UpsertsStep, SearchableStep, PointsStep DEF RowInv
  <2>3. CASE UNCHANGED vars
    BY <2>1, <2>3 DEF vars, dbVars, storeVars, RequestsKnown, LoadedExists, UpsertsCounted,
       IndexedIsSearchable, PointsNeedDocument, Exists, DeleteBegun, HasBatches
  <2> QED
    BY <2>2, <2>3
<1> QED
  BY <1>1, <1>2, PTL DEF Spec

(* A document the API lists as indexed can be searched in full, whatever   *)
(* retries, deaths, reindexing and concurrent runs came before, unless a   *)
(* delete of it began: the run that commits it has upserted every batch.   *)
THEOREM IndexedDocumentsSearchable == Spec => []IndexedIsSearchable
  BY SearchInvariant, PTL DEF SearchInv

(* Qdrant never keeps points of an upload that was rolled back: a run      *)
(* upserts only after it found the committed row.                          *)
THEOREM PointsHaveDocument == Spec => []PointsNeedDocument
  BY SearchInvariant, PTL DEF SearchInv

(***************************************************************************)
(* The count and the audit log.                                            *)
(***************************************************************************)
LEMMA CountChanges ==
  ASSUME TypeOK, Next
  PROVE  \/ count' = count /\ completions' = completions
         \/ \E w \in Workers : CommitIndexed(w)
         \/ \E r \in Requests : CommitDelete(r)
  BY DEF Next, RequestStep, WorkerStep, StoreUpload, LoadRetry, SelectReindex, LoadDelete,
     Send, DeletePoints, DeleteObject, CommitUpload, CommitRetry, RequestFails, Take,
     SetRunning, LoadDocument, Download, PassHashCheck, FlagDuplicate, Parse,
     FlagLowCoverage, UpsertBatch, ReadCoverage, Finish, Retry, MarkDocumentFailed,
     MarkTaskFailed, AttemptFails, WorkerDies, dbVars

LEMMA CompletionsGrow ==
  ASSUME TypeOK, Next PROVE completions' >= completions /\ completions' \in Nat
<1>1. completions' = completions \/ completions' = completions + 1
  BY CountChanges DEF CommitIndexed, CommitDelete
<1> QED
  BY <1>1 DEF TypeOK

LEMMA CountStep ==
  ASSUME RowInv, SeenCounts, CountNeverExceedsCompletions, Next
  PROVE  SeenCounts' /\ CountNeverExceedsCompletions'
<1> USE DEF RowInv
<1>0. /\ completions \in Nat /\ count \in Nat
      /\ \A r \in Requests : req[r].seen \in Nat
      /\ \A w \in Workers : worker[w].seen \in Nat
  BY DEF TypeOK, Request, RequestRecord, Worker, WorkerRecord
<1>1. count <= completions
  BY DEF CountNeverExceedsCompletions
<1>2. ASSUME NEW r \in Requests PROVE req'[r].seen <= completions'
  <2>1. req'[r].seen \in {0, req[r].seen, count}
    BY RequestChanges DEF Begins, GoesOn
  <2> QED
    BY <1>0, <1>1, <2>1, CompletionsGrow DEF SeenCounts
<1>3. ASSUME NEW w \in Workers, worker'[w].pc = "commit"
      PROVE  worker'[w].seen <= completions'
  <2>1. CASE worker'[w] = worker[w]
    BY <1>0, <1>3, <2>1, CompletionsGrow DEF SeenCounts
  <2>2. CASE ReadsCoverage(w)
    BY <1>1, <2>2 DEF ReadsCoverage
  <2> QED
    BY <1>3, <2>1, <2>2, WorkerChanges DEF InPipeline, FindsDocument, Downloads, Passes,
       Parses, Upserts, Leaves, Pipeline, PastCheck
<1>4. count' <= completions'
  <2>1. ASSUME NEW w \in Workers, CommitIndexed(w) PROVE count' <= completions'
    <3>1. worker[w].seen <= completions /\ count' = worker[w].seen + 1
                                       /\ completions' = completions + 1
      BY <2>1 DEF CommitIndexed, SeenCounts
    <3> QED
      BY <1>0, <3>1
  <2>2. ASSUME NEW r \in Requests, CommitDelete(r) PROVE count' <= completions'
    <3>1. /\ req[r].seen <= completions /\ completions' = completions
          /\ count' = IF req[r].seen = 0 THEN count ELSE req[r].seen - 1
      BY <2>2 DEF CommitDelete, SeenCounts
    <3> QED
      BY <1>0, <1>1, <3>1
  <2> QED
    BY <1>1, <2>1, <2>2, CountChanges
<1> QED
  BY <1>2, <1>3, <1>4 DEF SeenCounts, CountNeverExceedsCompletions

(* document_count is read, computed and written back by workers and        *)
(* deletes that overlap, and so may lose updates, but it never counts more *)
(* documents than ingestions completed: no one ever holds a larger count.  *)
THEOREM CountIsBounded == Spec => []CountNeverExceedsCompletions
<1>1. Init => CountInv
  BY TypeInit DEF CountInv, RowInv, LockedRowExists, SeenCounts,
     CountNeverExceedsCompletions, Init, Idle, Job, Handling
<1>2. CountInv /\ [Next]_vars => CountInv'
  <2>1. ASSUME CountInv, Next PROVE CountInv'
    BY <2>1, CountStep, TypeStep, LockStep DEF CountInv, RowInv
  <2>2. ASSUME CountInv, UNCHANGED vars PROVE CountInv'
    BY <2>2, TypeStep, LockStep DEF CountInv, RowInv, vars, dbVars, SeenCounts,
       CountNeverExceedsCompletions
  <2> QED
    BY <2>1, <2>2
<1>3. CountInv => CountNeverExceedsCompletions
  BY DEF CountInv
<1> QED
  BY <1>1, <1>2, <1>3, PTL DEF Spec

(***************************************************************************)
(* Duplicates and races.                                                   *)
(***************************************************************************)
LEMMA RacesStay == ASSUME Next PROVE raced \subseteq raced'
<1>1. ASSUME NEW w \in Workers, PassHashCheck(w) PROVE raced \subseteq raced'
  BY <1>1 DEF PassHashCheck
<1>2. raced' = raced \/ \E w \in Workers : PassHashCheck(w)
  BY DEF Next, RequestStep, WorkerStep, StoreUpload, LoadRetry, SelectReindex, LoadDelete,
     Send, DeletePoints, DeleteObject, CommitUpload, CommitRetry, CommitDelete, RequestFails,
     Take, SetRunning, LoadDocument, Download, FlagDuplicate, Parse, FlagLowCoverage,
     UpsertBatch, ReadCoverage, CommitIndexed, Finish, Retry, MarkDocumentFailed,
     MarkTaskFailed, AttemptFails, WorkerDies
<1> QED
  BY <1>1, <1>2

LEMMA PastCheckChanges ==
  ASSUME TypeOK, Next, NEW w \in Workers, worker'[w].pc \in PastCheck
  PROVE  SameFile(w) /\ (worker[w].pc \in PastCheck \/ PassHashCheck(w))
  BY WorkerChanges DEF InPipeline, FindsDocument, Downloads, Passes, Parses, Upserts,
     UpsertBatch, ReadsCoverage, Leaves, SameFile, Pipeline, PastCheck

(* A run that passes the check next to another one is recorded as racing.  *)
LEMMA PassingMeets ==
  ASSUME TypeOK, NEW v \in Workers, NEW w \in Workers, PassHashCheck(w),
         worker'[v].pc \in PastCheck, SameFile(v),
         worker[v].content = worker[w].content, worker[v].doc # worker[w].doc
  PROVE  worker[w].content \in raced'
<1>1. v # w
  OBVIOUS
<1>2. worker'[v] = worker[v]
  BY <1>1, GotoEffect DEF PassHashCheck
<1> QED
  BY <1>2 DEF PassHashCheck

LEMMA RunsRacedStep ==
  ASSUME TypeOK, RunsRaced, Next
  PROVE  RunsRaced'
<1>1. ASSUME NEW v \in Workers, NEW w \in Workers,
             worker'[v].pc \in PastCheck, worker'[w].pc \in PastCheck,
             worker'[v].doc # worker'[w].doc, worker'[v].content = worker'[w].content
      PROVE  worker'[v].content \in raced'
  <2>1. SameFile(v) /\ SameFile(w)
    BY <1>1, PastCheckChanges
  <2>2. worker[v].doc # worker[w].doc /\ worker[v].content = worker[w].content
    BY <1>1, <2>1 DEF SameFile
  <2>3. CASE PassHashCheck(w)
    BY <1>1, <2>1, <2>2, <2>3, PassingMeets DEF SameFile
  <2>4. CASE PassHashCheck(v)
    BY <1>1, <2>1, <2>2, <2>4, PassingMeets DEF SameFile
  <2>5. CASE worker[v].pc \in PastCheck /\ worker[w].pc \in PastCheck
    BY <2>1, <2>2, <2>5, RacesStay DEF RunsRaced, SameFile
  <2> QED
    BY <1>1, <2>3, <2>4, <2>5, PastCheckChanges
<1> QED
  BY <1>1 DEF RunsRaced

LEMMA RacedIndexedStep ==
  ASSUME TypeOK, RunsRaced, RunsRacedIndexed, Next
  PROVE  RunsRacedIndexed'
<1>1. ASSUME NEW w \in Workers, NEW d \in Requests, worker'[w].pc \in PastCheck,
             docs'[d].status = "indexed", docs'[d].hash = worker'[w].content,
             d # worker'[w].doc
      PROVE  worker'[w].content \in raced'
  <2>1. SameFile(w) /\ (worker[w].pc \in PastCheck \/ PassHashCheck(w))
    BY <1>1, PastCheckChanges
  <2>2. CASE docs'[d] # docs[d]
    <3>1. PICK v \in Workers : /\ CommitIndexed(v) /\ worker[v].doc = d
                               /\ docs'[d].hash = worker[v].content
      BY <1>1, <2>2, IndexedBy
    <3>2. worker[v].pc \in PastCheck
      BY <3>1 DEF CommitIndexed, PastCheck
    <3>3. worker[w].pc \in PastCheck
      BY <2>1, <2>2 DEF PassHashCheck, dbVars
    <3> QED
      BY <1>1, <2>1, <3>1, <3>2, <3>3, RacesStay DEF RunsRaced, SameFile
  <2>3. CASE docs'[d] = docs[d] /\ PassHashCheck(w)
    BY <1>1, <2>1, <2>3 DEF PassHashCheck, HasDuplicate, Exists, SameFile
  <2>4. CASE docs'[d] = docs[d] /\ worker[w].pc \in PastCheck
    BY <1>1, <2>1, <2>4, RacesStay DEF RunsRacedIndexed, IndexedWith, SameFile
  <2> QED
    BY <2>1, <2>2, <2>3, <2>4
<1> QED
  BY <1>1 DEF RunsRacedIndexed, IndexedWith

LEMMA DuplicatesStep ==
  ASSUME TypeOK, RunsRacedIndexed, DuplicatesNeedARace, Next
  PROVE  DuplicatesNeedARace'
<1>0. docs \in [Requests -> DocRow]
  BY DEF TypeOK
<1>1. ASSUME NEW c \in Contents, NEW d \in Requests, NEW e \in Requests, d # e,
             docs'[d].status = "indexed", docs'[d].hash = c, docs'[d] # docs[d],
             docs'[e].status = "indexed", docs'[e].hash = c
      PROVE  c \in raced'
  <2>1. PICK w \in Workers : /\ CommitIndexed(w) /\ worker[w].doc = d
                             /\ docs'[d].hash = worker[w].content
    BY <1>1, IndexedBy
  <2>2. docs'[e] = docs[e]
    BY <1>0, <1>1, <2>1 DEF CommitIndexed
  <2>3. worker[w].pc \in PastCheck
    BY <2>1 DEF CommitIndexed, PastCheck
  <2> QED
    BY <1>1, <2>1, <2>2, <2>3, RacesStay DEF RunsRacedIndexed, IndexedWith
<1>2. ASSUME NEW c \in Contents, NEW d \in Requests, NEW e \in Requests, d # e,
             docs'[d].status = "indexed", docs'[d].hash = c,
             docs'[e].status = "indexed", docs'[e].hash = c
      PROVE  c \in raced'
  <2>1. CASE docs'[d] = docs[d] /\ docs'[e] = docs[e]
    BY <1>2, <2>1, RacesStay DEF DuplicatesNeedARace, SameBytesBothIndexed
  <2> QED
    BY <1>1, <1>2, <2>1
<1> QED
  BY <1>2 DEF DuplicatesNeedARace, SameBytesBothIndexed

(* The hash check lets two documents with the same bytes both become       *)
(* indexed only if their runs were past the check at the same time, for    *)
(* any number of documents, workers, retries, deletes and reindexings.     *)
THEOREM DuplicatesOnlyByRace == Spec => []DuplicatesNeedARace
<1>1. Init => RaceInv
  BY TypeInit DEF RaceInv, RowInv, LockedRowExists, RunsRaced, RunsRacedIndexed,
     IndexedWith, DuplicatesNeedARace, SameBytesBothIndexed, Init, Idle, Job, NoDoc, PastCheck
<1>2. RaceInv /\ [Next]_vars => RaceInv'
  <2>1. ASSUME RaceInv, Next PROVE RaceInv'
    BY <2>1, RunsRacedStep, RacedIndexedStep, DuplicatesStep, TypeStep, LockStep
       DEF RaceInv, RowInv
  <2>2. ASSUME RaceInv, UNCHANGED vars PROVE RaceInv'
    BY <2>2, TypeStep, LockStep DEF RaceInv, RowInv, vars, dbVars, RunsRaced,
       RunsRacedIndexed, IndexedWith, DuplicatesNeedARace, SameBytesBothIndexed
  <2> QED
    BY <2>1, <2>2
<1>3. RaceInv => DuplicatesNeedARace
  BY DEF RaceInv
<1> QED
  BY <1>1, <1>2, <1>3, PTL DEF Spec
=============================================================================
