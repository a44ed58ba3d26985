-------------------------- MODULE IngestionProofs --------------------------
(***************************************************************************)
(* Theorems about Ingestion, for any sets of requests, workers, paths and  *)
(* contents and any bounds.                                                *)
(***************************************************************************)
EXTENDS Ingestion, TLAPS

(* The records the actions build have their types.                         *)

LEMMA HandlingType ==
  ASSUME NEW pc \in RequestPC, NEW kind \in RequestKind, NEW d \in Requests,
         pc = "done" \/ kind \notin {"upload", "delete"}
  PROVE  Handling(pc, kind, d) \in Request
  BY DEF Handling, Request, RequestRecord, DocStatus

LEMMA UploadType ==
  ASSUME NEW r \in Requests, NEW p \in Paths
  PROVE  [Handling("send", "upload", r) EXCEPT !.path = p] \in Request
  BY DEF Handling, Request, RequestRecord, DocStatus, RequestPC, RequestKind

LEMMA RetryType ==
  ASSUME NEW d \in Requests, NEW s \in DocStatus
  PROVE  [Handling("send", "retry", d) EXCEPT !.status = s] \in Request
  BY DEF Handling, Request, RequestRecord, DocStatus, RequestPC, RequestKind

LEMMA DeleteType ==
  ASSUME NEW d \in Requests, NEW p \in Paths, NEW n \in Nat
  PROVE  [Handling("purge", "delete", d) EXCEPT !.path = p, !.seen = n] \in Request
  BY DEF Handling, Request, RequestRecord, DocStatus, RequestPC, RequestKind

LEMMA JobType ==
  ASSUME NEW pc \in WorkerPC \ ({"download", "check"} \cup PastCheck),
         NEW t \in Requests, NEW d \in Requests, NEW n \in 0..MaxRetries
  PROVE  Job(pc, t, d, n) \in Worker
  BY DEF Job, Worker, WorkerRecord

LEMMA WorkerUpdate ==
  ASSUME NEW j \in Worker, j.pc # "idle", NEW pc \in WorkerPC \ {"download"},
         pc \in {"check"} \cup PastCheck => j.content \in Contents
  PROVE  [j EXCEPT !.pc = pc] \in Worker
  BY DEF Worker, WorkerRecord

LEMMA WorkerLoads ==
  ASSUME NEW j \in Worker, j.pc = "load", NEW p \in Paths
  PROVE  [j EXCEPT !.pc = "download", !.path = p] \in Worker
  BY DEF Worker, WorkerRecord, WorkerPC, PastCheck

LEMMA WorkerDownloads ==
  ASSUME NEW j \in Worker, j.pc # "idle", NEW c \in Contents
  PROVE  [j EXCEPT !.pc = "check", !.content = c] \in Worker
  BY DEF Worker, WorkerRecord, WorkerPC

LEMMA WorkerUpserts ==
  ASSUME NEW j \in Worker, j.pc = "index", NEW pc \in {"index", "finalize"},
         NEW n \in Nat
  PROVE  [j EXCEPT !.batch = n, !.pc = pc] \in Worker
  BY DEF Worker, WorkerRecord, WorkerPC, PastCheck

LEMMA RequestGoto ==
  ASSUME TypeOK, NEW r \in Requests, req[r].pc \notin {"new", "done"},
         NEW pc \in RequestPC, req' = [req EXCEPT ![r].pc = pc]
  PROVE  req' \in [Requests -> Request]
<1>1. [req[r] EXCEPT !.pc = pc] \in Request
  <2>1. req[r] \in Request
    BY DEF TypeOK
  <2> QED
    BY <2>1 DEF Request, RequestRecord
<1> QED
  BY <1>1 DEF TypeOK

LEMMA IdleType == Idle \in Worker
  BY ConstantsOK DEF Idle, Job, Worker, WorkerRecord, WorkerPC, PastCheck

(* A worker about to commit the index holds the lock of its document's     *)
(* row, so the row is still there: what it writes back is an update.       *)
LockedRowExists == \A w \in Workers : worker[w].pc = "commit" => Exists(worker[w].doc)

LEMMA TypeInit == Init => TypeOK
<1> SUFFICES ASSUME Init PROVE TypeOK
  OBVIOUS
<1>1. docs \in [Requests -> DocRow]
  BY DEF Init, NoDoc, DocRow, DocRecord, DocStatus
<1>2. points \in [Requests -> [Contents -> Nat]]
  BY DEF Init, NoPoints
<1>3. req \in [Requests -> Request]
  BY DEF Init, Handling, Request, RequestRecord, RequestPC, RequestKind, DocStatus
<1>4. worker \in [Workers -> Worker]
  BY IdleType DEF Init
<1> QED
  BY <1>1, <1>2, <1>3, <1>4, ConstantsOK DEF Init, TypeOK

(* What a worker does to itself.                                           *)

LEMMA WindUpType ==
  ASSUME TypeOK, NEW w \in Workers, worker[w].pc # "idle",
         NEW pc \in WorkerPC \ ({"download", "check"} \cup PastCheck), WindUp(w, pc)
  PROVE  worker' \in [Workers -> Worker]
<1>1. worker[w].task \in Requests /\ worker[w].doc \in Requests
      /\ worker[w].retries \in 0..MaxRetries
  BY DEF TypeOK, Worker, WorkerRecord
<1> DEFINE j == Job(pc, worker[w].task, worker[w].doc, worker[w].retries)
<1>2. j \in Worker
  BY <1>1, JobType
<1> HIDE DEF j
<1>3. worker' = [worker EXCEPT ![w] = j]
  BY DEF WindUp, j
<1> QED
  BY <1>2, <1>3 DEF TypeOK

LEMMA GotoType ==
  ASSUME TypeOK, NEW w \in Workers, worker[w].pc # "idle",
         NEW pc \in WorkerPC \ {"download"},
         pc \in {"check"} \cup PastCheck => worker[w].content \in Contents,
         Goto(w, pc)
  PROVE  worker' \in [Workers -> Worker]
<1>1. [worker[w] EXCEPT !.pc = pc] \in Worker
  BY WorkerUpdate DEF TypeOK
<1> QED
  BY <1>1 DEF TypeOK, Goto

LEMMA IdleStep ==
  ASSUME TypeOK, NEW w \in Workers, worker' = [worker EXCEPT ![w] = Idle]
  PROVE  worker' \in [Workers -> Worker]
  BY IdleType DEF TypeOK

LEMMA ReturnType ==
  ASSUME TypeOK, NEW r \in Requests, req[r].pc # "new", Return(r)
  PROVE  req' \in [Requests -> Request]
<1>1. req[r].kind \in RequestKind /\ req[r].doc \in Requests
  BY DEF TypeOK, Request, RequestRecord
<1> DEFINE q == Handling("done", req[r].kind, req[r].doc)
<1>2. q \in Request
  BY <1>1, HandlingType DEF RequestPC
<1> HIDE DEF q
<1>3. req' = [req EXCEPT ![r] = q]
  BY DEF Return, q
<1> QED
  BY <1>2, <1>3 DEF TypeOK

LEMMA DocUpdate ==
  ASSUME TypeOK, NEW d \in Requests, Exists(d), NEW s \in DocStatus,
         docs' = [docs EXCEPT ![d].status = s]
  PROVE  docs' \in [Requests -> DocRow]
<1>1. [docs[d] EXCEPT !.status = s] \in DocRow
  <2>1. docs[d] \in DocRow /\ docs[d].status # "absent"
    BY DEF TypeOK, Exists
  <2> QED
    BY <2>1 DEF DocRow, DocRecord
<1> QED
  BY <1>1 DEF TypeOK

LEMMA DocHashed ==
  ASSUME TypeOK, NEW d \in Requests, Exists(d), NEW s \in DocStatus,
         NEW c \in Contents,
         docs' = [docs EXCEPT ![d].status = s, ![d].hash = c]
  PROVE  docs' \in [Requests -> DocRow]
<1>1. [docs[d] EXCEPT !.status = s, !.hash = c] \in DocRow
  <2>1. docs[d] \in DocRow /\ docs[d].status # "absent"
    BY DEF TypeOK, Exists
  <2> QED
    BY <2>1 DEF DocRow, DocRecord
<1> QED
  BY <1>1 DEF TypeOK

LEMMA SetDocStatusType ==
  ASSUME TypeOK, NEW d \in Requests, NEW s \in DocStatus, SetDocStatus(d, s)
  PROVE  docs' \in [Requests -> DocRow]
<1>1. docs' = docs \/ (Exists(d) /\ docs' = [docs EXCEPT ![d].status = s])
  BY DEF SetDocStatus
<1> QED
  BY <1>1, DocUpdate DEF TypeOK

LEMMA SetTaskStatusType ==
  ASSUME TypeOK, NEW t, NEW s \in {"running", "completed", "failed"},
         SetTaskStatus(t, s)
  PROVE  taskRow' \in [Requests -> {"absent", "queued", "running", "completed", "failed"}]
  BY DEF TypeOK, SetTaskStatus

LEMMA TypeStep == TypeOK /\ LockedRowExists /\ [Next]_vars => TypeOK'
<1> SUFFICES ASSUME TypeOK, LockedRowExists, [Next]_vars PROVE TypeOK'
  OBVIOUS
<1> USE ConstantsOK
<1>1. ASSUME NEW r \in Requests, StoreUpload(r) PROVE TypeOK'
  <2>1. PICK p \in Paths, c \in Contents :
          /\ objects' = [objects EXCEPT ![p] = c]
          /\ req' = [req EXCEPT ![r] = [Handling("send", "upload", r) EXCEPT !.path = p]]
    BY <1>1 DEF StoreUpload
  <2>2. [Handling("send", "upload", r) EXCEPT !.path = p] \in Request
    BY UploadType
  <2> QED
    BY <1>1, <2>1, <2>2 DEF StoreUpload, TypeOK, dbVars, storeVars
<1>2. ASSUME NEW r \in Requests, LoadRetry(r) PROVE TypeOK'
  <2>1. PICK d \in Requests :
          req' = [req EXCEPT ![r] = [Handling("send", "retry", d)
                                         EXCEPT !.status = docs[d].status]]
    BY <1>2 DEF LoadRetry
  <2>2. docs[d].status \in DocStatus
    BY DEF TypeOK, DocRow, DocRecord
  <2>3. [Handling("send", "retry", d) EXCEPT !.status = docs[d].status] \in Request
    BY <2>2, RetryType
  <2> QED
    BY <1>2, <2>1, <2>3 DEF LoadRetry, TypeOK, dbVars, storeVars
<1>3. ASSUME NEW r \in Requests, SelectReindex(r) PROVE TypeOK'
  <2>1. PICK d \in Requests : req' = [req EXCEPT ![r] = Handling("send", "reindex", d)]
    BY <1>3 DEF SelectReindex
  <2>2. Handling("send", "reindex", d) \in Request
    BY HandlingType DEF RequestPC, RequestKind
  <2> QED
    BY <1>3, <2>1, <2>2 DEF SelectReindex, TypeOK, dbVars, storeVars
<1>4. ASSUME NEW r \in Requests, LoadDelete(r) PROVE TypeOK'
  <2>1. PICK d \in Requests : Exists(d) /\
          req' = [req EXCEPT ![r] = [Handling("purge", "delete", d)
                                         EXCEPT !.path = docs[d].path, !.seen = count]]
    BY <1>4 DEF LoadDelete
  <2>2. docs[d].path \in Paths /\ count \in Nat
    BY <2>1 DEF TypeOK, DocRow, Exists
  <2>3. [Handling("purge", "delete", d) EXCEPT !.path = docs[d].path, !.seen = count]
          \in Request
    BY <2>2, DeleteType
  <2> QED
    BY <1>4, <2>1, <2>3 DEF LoadDelete, TypeOK, dbVars, storeVars
<1>5. ASSUME NEW r \in Requests, Send(r) PROVE TypeOK'
  <2>1. req[r].doc \in Requests
    BY <1>5 DEF Send, TypeOK, Request, RequestRecord
  <2>2. [task |-> r, doc |-> req[r].doc, retries |-> 0] \in Message
    BY <2>1 DEF Message
  <2>3. broker' \subseteq Message
    BY <1>5, <2>2 DEF Send, TypeOK
  <2>4. req' \in [Requests -> Request]
    <3>1. CASE req[r].kind = "reindex"
      BY <1>5, <3>1, ReturnType DEF Send
    <3>2. CASE req[r].kind # "reindex"
      <4>1. req' = [req EXCEPT ![r].pc = "commit"]
        BY <1>5, <3>2 DEF Send
      <4> QED
        BY <1>5, <4>1, RequestGoto DEF Send, RequestPC
    <3> QED
      BY <3>1, <3>2
  <2> QED
    BY <1>5, <2>3, <2>4 DEF Send, TypeOK, dbVars, storeVars
<1>6. ASSUME NEW r \in Requests, DeletePoints(r) PROVE TypeOK'
  <2>1. points' \in [Requests -> [Contents -> Nat]]
    BY <1>6 DEF DeletePoints, TypeOK, Purged, NoPoints
  <2>2. req' \in [Requests -> Request]
    BY <1>6, RequestGoto DEF DeletePoints, RequestPC
  <2> QED
    BY <1>6, <2>1, <2>2 DEF DeletePoints, TypeOK, dbVars, storeVars
<1>7. ASSUME NEW r \in Requests, DeleteObject(r) PROVE TypeOK'
  <2>1. objects' \in [Paths -> Contents \cup {Nil}]
    BY <1>7 DEF DeleteObject, TypeOK
  <2>2. req' \in [Requests -> Request]
    BY <1>7, RequestGoto DEF DeleteObject, RequestPC
  <2> QED
    BY <1>7, <2>1, <2>2 DEF DeleteObject, TypeOK, dbVars, storeVars
<1>8. ASSUME NEW r \in Requests, CommitUpload(r) PROVE TypeOK'
  <2>1. req[r].path \in Paths
    BY <1>8 DEF CommitUpload, TypeOK, Request
  <2>2. docs' \in [Requests -> DocRow]
    <3>1. [status |-> "pending", path |-> req[r].path, hash |-> Nil] \in DocRow
      BY <2>1 DEF DocRow, DocRecord, DocStatus
    <3> QED
      BY <1>8, <3>1 DEF CommitUpload, TypeOK
  <2>3. taskRow' \in [Requests -> {"absent", "queued", "running", "completed", "failed"}]
    BY <1>8 DEF CommitUpload, TypeOK
  <2>4. req' \in [Requests -> Request]
    BY <1>8, ReturnType DEF CommitUpload
  <2> QED
    BY <1>8, <2>2, <2>3, <2>4 DEF CommitUpload, TypeOK, dbVars, storeVars
<1>9. ASSUME NEW r \in Requests, CommitRetry(r) PROVE TypeOK'
  <2>1. docs' \in [Requests -> DocRow]
    <3>1. req[r].doc \in Requests
      BY <1>9 DEF CommitRetry, TypeOK, Request, RequestRecord
    <3>2. docs' = docs \/ ( /\ Exists(req[r].doc)
                           /\ docs' = [docs EXCEPT ![req[r].doc].status = "pending"])
      BY <1>9 DEF CommitRetry
    <3> QED
      BY <3>1, <3>2, DocUpdate DEF TypeOK, DocStatus
  <2>2. taskRow' \in [Requests -> {"absent", "queued", "running", "completed", "failed"}]
    <3>1. taskRow' = taskRow \/ taskRow' = [taskRow EXCEPT ![r] = "queued"]
      BY <1>9 DEF CommitRetry
    <3> QED
      BY <3>1 DEF TypeOK
  <2>3. req' \in [Requests -> Request]
    BY <1>9, ReturnType DEF CommitRetry
  <2> QED
    BY <1>9, <2>1, <2>2, <2>3 DEF CommitRetry, TypeOK, dbVars, storeVars
<1>10. ASSUME NEW r \in Requests, CommitDelete(r) PROVE TypeOK'
  <2>1. req[r].seen \in Nat /\ req[r].doc \in Requests
    BY <1>10 DEF CommitDelete, TypeOK, Request, RequestRecord
  <2>2. docs' \in [Requests -> DocRow]
    <3>1. docs' = [docs EXCEPT ![req[r].doc] = NoDoc]
      BY <1>10 DEF CommitDelete
    <3>2. NoDoc \in DocRow
      BY DEF NoDoc, DocRow, DocRecord, DocStatus
    <3> QED
      BY <2>1, <3>1, <3>2 DEF TypeOK
  <2>3. count' \in Nat
    <3>1. count' = IF req[r].seen = 0 THEN count ELSE req[r].seen - 1
      BY <1>10 DEF CommitDelete
    <3>2. count \in Nat
      BY DEF TypeOK
    <3> QED
      BY <2>1, <3>1, <3>2
  <2>4. req' \in [Requests -> Request]
    BY <1>10, ReturnType DEF CommitDelete
  <2> QED
    BY <1>10, <2>2, <2>3, <2>4 DEF CommitDelete, TypeOK, dbVars, storeVars
<1>11. ASSUME NEW r \in Requests, RequestFails(r) PROVE TypeOK'
  <2>1. faults' \in 0..MaxFaults
    BY <1>11 DEF RequestFails, TypeOK
  <2>2. req' \in [Requests -> Request]
    BY <1>11, ReturnType DEF RequestFails
  <2> QED
    BY <1>11, <2>1, <2>2 DEF RequestFails, TypeOK, dbVars, storeVars
<1>12. ASSUME NEW w \in Workers, Take(w) PROVE TypeOK'
  <2>1. PICK m \in broker : /\ broker' = broker \ {m}
                            /\ worker' = [worker EXCEPT ![w] =
                                             Job("start", m.task, m.doc, m.retries)]
    BY <1>12 DEF Take, Acknowledged
  <2>2. m \in Message
    BY DEF TypeOK
  <2>3. Job("start", m.task, m.doc, m.retries) \in Worker
    BY <2>2, JobType DEF Message, WorkerPC, PastCheck
  <2> QED
    BY <1>12, <2>1, <2>3 DEF Take, TypeOK, dbVars, storeVars
<1>13. ASSUME NEW w \in Workers, SetRunning(w) PROVE TypeOK'
  <2>1. taskRow' \in [Requests -> {"absent", "queued", "running", "completed", "failed"}]
    BY <1>13, SetTaskStatusType DEF SetRunning
  <2>2. worker' \in [Workers -> Worker]
    BY <1>13, GotoType DEF SetRunning, WorkerPC, PastCheck
  <2> QED
    BY <1>13, <2>1, <2>2 DEF SetRunning, TypeOK, dbVars, storeVars
<1>14. ASSUME NEW w \in Workers, LoadDocument(w) PROVE TypeOK'
  <2>1. worker' \in [Workers -> Worker]
    <3>1. CASE Exists(worker[w].doc)
      <4>1. worker' = [worker EXCEPT ![w].pc = "download",
                                     ![w].path = docs[worker[w].doc].path]
        BY <1>14, <3>1 DEF LoadDocument
      <4>2. worker[w].pc = "load" /\ worker[w] \in Worker
        BY <1>14 DEF LoadDocument, TypeOK
      <4>3. worker[w].doc \in Requests
        BY <4>2 DEF Worker
      <4>4. docs[worker[w].doc].path \in Paths
        BY <3>1, <4>3 DEF TypeOK, DocRow, Exists
      <4>5. [worker[w] EXCEPT !.pc = "download", !.path = docs[worker[w].doc].path]
              \in Worker
        BY <4>2, <4>4, WorkerLoads
      <4> QED
        BY <4>1, <4>5 DEF TypeOK
    <3>2. CASE ~Exists(worker[w].doc)
      BY <1>14, <3>2, WindUpType DEF LoadDocument, WorkerPC, PastCheck
    <3> QED
      BY <3>1, <3>2
  <2> QED
    BY <1>14, <2>1 DEF LoadDocument, TypeOK, dbVars, storeVars
<1>15. ASSUME NEW w \in Workers, Download(w) PROVE TypeOK'
  <2>1. worker' \in [Workers -> Worker]
    <3>1. CASE objects[worker[w].path] # Nil
      <4>1. worker' = [worker EXCEPT ![w].pc = "check",
                                     ![w].content = objects[worker[w].path]]
        BY <1>15, <3>1 DEF Download
      <4>2. worker[w].pc = "download" /\ worker[w] \in Worker
        BY <1>15 DEF Download, TypeOK
      <4>3. objects[worker[w].path] \in Contents
        BY <3>1, <4>2 DEF TypeOK, Worker
      <4> QED
        <5>1. [worker[w] EXCEPT !.pc = "check", !.content = objects[worker[w].path]]
                \in Worker
          BY <4>2, <4>3, WorkerDownloads
        <5> QED
          BY <4>1, <5>1 DEF TypeOK
    <3>2. CASE objects[worker[w].path] = Nil
      BY <1>15, <3>2, WindUpType DEF Download, WorkerPC, PastCheck
    <3> QED
      BY <3>1, <3>2
  <2> QED
    BY <1>15, <2>1 DEF Download, TypeOK, dbVars, storeVars
<1>16. ASSUME NEW w \in Workers, PassHashCheck(w) PROVE TypeOK'
  <2>1. worker[w].content \in Contents
    BY <1>16 DEF PassHashCheck, TypeOK, Worker, WorkerRecord, WorkerPC,
       PastCheck
  <2>2. raced' \subseteq Contents
    BY <1>16, <2>1 DEF PassHashCheck, TypeOK
  <2>3. worker' \in [Workers -> Worker]
    BY <1>16, <2>1, GotoType DEF PassHashCheck, WorkerPC, PastCheck
  <2> QED
    BY <1>16, <2>2, <2>3 DEF PassHashCheck, TypeOK, dbVars, storeVars
<1>17. ASSUME NEW w \in Workers, FlagDuplicate(w) PROVE TypeOK'
  <2>1. worker[w].doc \in Requests /\ worker[w].content \in Contents
    BY <1>17 DEF FlagDuplicate, TypeOK, Worker, WorkerRecord, WorkerPC,
       PastCheck
  <2>2. docs' \in [Requests -> DocRow]
    <3>1. docs' = docs \/
            ( /\ Exists(worker[w].doc)
              /\ docs' = [docs EXCEPT ![worker[w].doc].status = "review_needed",
                                      ![worker[w].doc].hash = worker[w].content])
      BY <1>17 DEF FlagDuplicate
    <3> QED
      BY <2>1, <3>1, DocHashed DEF TypeOK, DocStatus
  <2>3. worker' \in [Workers -> Worker]
    BY <1>17, WindUpType DEF FlagDuplicate, WorkerPC, PastCheck
  <2> QED
    BY <1>17, <2>2, <2>3 DEF FlagDuplicate, TypeOK, dbVars, storeVars
<1>18. ASSUME NEW w \in Workers, Parse(w) PROVE TypeOK'
  <2>1. worker[w].pc = "parse" /\ worker[w] \in Worker
    BY <1>18 DEF Parse, TypeOK
  <2>2. worker' \in [Workers -> Worker]
    BY <1>18, <2>1 DEF Parse, TypeOK, Worker, WorkerRecord, WorkerPC, PastCheck
  <2> QED
    BY <1>18, <2>2 DEF Parse, TypeOK, dbVars, storeVars
<1>19. ASSUME NEW w \in Workers, FlagLowCoverage(w) PROVE TypeOK'
  <2>1. worker[w].doc \in Requests
    BY <1>19 DEF FlagLowCoverage, TypeOK, Worker, WorkerRecord, WorkerPC,
       PastCheck
  <2>2. docs' \in [Requests -> DocRow]
    BY <1>19, <2>1, SetDocStatusType DEF FlagLowCoverage, DocStatus
  <2>3. worker' \in [Workers -> Worker]
    BY <1>19, WindUpType DEF FlagLowCoverage, WorkerPC, PastCheck
  <2> QED
    BY <1>19, <2>2, <2>3 DEF FlagLowCoverage, TypeOK, dbVars, storeVars
<1>20. ASSUME NEW w \in Workers, UpsertBatch(w) PROVE TypeOK'
  <2>1. worker[w].pc = "index" /\ worker[w] \in Worker
    BY <1>20 DEF UpsertBatch, TypeOK
  <2>2. worker[w].doc \in Requests /\ worker[w].content \in Contents
    BY <2>1 DEF Worker, WorkerRecord, PastCheck
  <2>3. points' \in [Requests -> [Contents -> Nat]]
    BY <1>20, <2>2 DEF UpsertBatch, TypeOK
  <2>4. worker' \in [Workers -> Worker]
    <3> DEFINE n == worker[w].batch + 1
               pc == IF LastBatch(n) THEN "finalize" ELSE "index"
    <3>1. worker' = [worker EXCEPT ![w].batch = n, ![w].pc = pc]
      BY <1>20 DEF UpsertBatch
    <3>2. worker[w].batch \in Nat
      BY <2>1 DEF Worker, WorkerRecord
    <3>3. n \in Nat /\ pc \in {"index", "finalize"}
      BY <3>2
    <3> HIDE DEF n, pc
    <3>4. [worker[w] EXCEPT !.batch = n, !.pc = pc] \in Worker
      BY <2>1, <3>3, WorkerUpserts
    <3> QED
      BY <3>1, <3>4 DEF TypeOK
  <2> QED
    BY <1>20, <2>3, <2>4 DEF UpsertBatch, TypeOK, dbVars, storeVars
<1>21. ASSUME NEW w \in Workers, ReadCoverage(w) PROVE TypeOK'
  <2>1. worker' \in [Workers -> Worker]
    <3>1. CASE Exists(worker[w].doc)
      <4>1. worker' = [worker EXCEPT ![w].pc = "commit", ![w].seen = count]
        BY <1>21, <3>1 DEF ReadCoverage
      <4>2. worker[w].pc = "finalize" /\ worker[w] \in Worker
        BY <1>21 DEF ReadCoverage, TypeOK
      <4> QED
        BY <4>1, <4>2 DEF TypeOK, Worker, WorkerRecord, WorkerPC, PastCheck
    <3>2. CASE ~Exists(worker[w].doc)
      BY <1>21, <3>2, WindUpType DEF ReadCoverage, WorkerPC, PastCheck
    <3> QED
      BY <3>1, <3>2
  <2> QED
    BY <1>21, <2>1 DEF ReadCoverage, TypeOK, dbVars, storeVars
<1>22. ASSUME NEW w \in Workers, CommitIndexed(w) PROVE TypeOK'
  <2>1. worker[w] \in Worker /\ worker[w].pc = "commit"
    BY <1>22 DEF CommitIndexed, TypeOK
  <2>2. worker[w].doc \in Requests /\ worker[w].content \in Contents /\ worker[w].seen \in Nat
    BY <2>1 DEF Worker, WorkerRecord, PastCheck
  <2>3. docs' \in [Requests -> DocRow]
    BY <1>22, <2>2, DocHashed DEF CommitIndexed, DocStatus, LockedRowExists
  <2>4. count' \in Nat /\ completions' \in Nat
    BY <1>22, <2>2 DEF CommitIndexed, TypeOK
  <2>5. worker' \in [Workers -> Worker]
    BY <1>22, WindUpType DEF CommitIndexed, WorkerPC, PastCheck
  <2> QED
    BY <1>22, <2>3, <2>4, <2>5 DEF CommitIndexed, TypeOK, dbVars, storeVars
<1>23. ASSUME NEW w \in Workers, Finish(w) PROVE TypeOK'
  <2>1. taskRow' \in [Requests -> {"absent", "queued", "running", "completed", "failed"}]
    BY <1>23, SetTaskStatusType DEF Finish
  <2>2. worker' \in [Workers -> Worker]
    BY <1>23, IdleStep DEF Finish
  <2> QED
    BY <1>23, <2>1, <2>2 DEF Finish, TypeOK, dbVars, storeVars
<1>24. ASSUME NEW w \in Workers, Retry(w) PROVE TypeOK'
  <2>1. worker[w] \in Worker /\ worker[w].pc = "failing"
    BY <1>24 DEF Retry, TypeOK
  <2>2. [task |-> worker[w].task, doc |-> worker[w].doc,
           retries |-> worker[w].retries + 1] \in Message
    BY <1>24, <2>1 DEF Retry, MayRetry, Message, Worker, WorkerRecord
  <2>3. broker' \subseteq Message
    BY <1>24, <2>2 DEF Retry, Requeued, TypeOK
  <2>4. worker' \in [Workers -> Worker]
    BY <1>24, IdleStep DEF Retry
  <2> QED
    BY <1>24, <2>3, <2>4 DEF Retry, TypeOK, dbVars, storeVars
<1>25. ASSUME NEW w \in Workers, MarkDocumentFailed(w) PROVE TypeOK'
  <2>1. worker[w].doc \in Requests
    BY <1>25 DEF MarkDocumentFailed, TypeOK, Worker, WorkerRecord, WorkerPC,
       PastCheck
  <2>2. docs' \in [Requests -> DocRow]
    BY <1>25, <2>1, SetDocStatusType DEF MarkDocumentFailed, DocStatus
  <2>3. worker' \in [Workers -> Worker]
    BY <1>25, GotoType DEF MarkDocumentFailed, WorkerPC, PastCheck
  <2> QED
    BY <1>25, <2>2, <2>3 DEF MarkDocumentFailed, TypeOK, dbVars, storeVars
<1>26. ASSUME NEW w \in Workers, MarkTaskFailed(w) PROVE TypeOK'
  <2>1. taskRow' \in [Requests -> {"absent", "queued", "running", "completed", "failed"}]
    BY <1>26, SetTaskStatusType DEF MarkTaskFailed
  <2>2. worker' \in [Workers -> Worker]
    BY <1>26, IdleStep DEF MarkTaskFailed
  <2> QED
    BY <1>26, <2>1, <2>2 DEF MarkTaskFailed, TypeOK, dbVars, storeVars
<1>27. ASSUME NEW w \in Workers, AttemptFails(w) PROVE TypeOK'
  <2>1. faults' \in 0..MaxFaults
    BY <1>27 DEF AttemptFails, TypeOK
  <2>2. worker' \in [Workers -> Worker]
    BY <1>27, WindUpType DEF AttemptFails, WorkerPC, PastCheck, Guarded
  <2> QED
    BY <1>27, <2>1, <2>2 DEF AttemptFails, TypeOK, dbVars, storeVars
<1>28. ASSUME NEW w \in Workers, WorkerDies(w) PROVE TypeOK'
  <2>1. faults' \in 0..MaxFaults
    BY <1>28 DEF WorkerDies, TypeOK
  <2>2. worker[w] \in Worker
    BY DEF TypeOK
  <2>3. lost' \subseteq Requests
    BY <1>28, <2>2 DEF WorkerDies, TypeOK, Worker
  <2>4. worker' \in [Workers -> Worker]
    BY <1>28, IdleStep DEF WorkerDies
  <2> QED
    BY <1>28, <2>1, <2>3, <2>4 DEF WorkerDies, TypeOK, dbVars, storeVars
<1>29. CASE UNCHANGED vars
  BY <1>29 DEF vars, dbVars, storeVars, TypeOK
<1> QED
  BY <1>1, <1>2, <1>3, <1>4, <1>5, <1>6, <1>7, <1>8, <1>9, <1>10, <1>11, <1>12,
     <1>13, <1>14, <1>15, <1>16, <1>17, <1>18, <1>19, <1>20, <1>21, <1>22,
     <1>23, <1>24, <1>25, <1>26, <1>27, <1>28, <1>29 DEF Next, RequestStep,
     WorkerStep

(***************************************************************************)
(* Where rows of documents come from and go to.                            *)
(***************************************************************************)
LEMMA DocsChange ==
  ASSUME Next, docs' # docs
  PROVE  \/ \E r \in Requests : CommitUpload(r) \/ CommitRetry(r) \/ CommitDelete(r)
         \/ \E w \in Workers : \/ FlagDuplicate(w) \/ FlagLowCoverage(w)
                               \/ CommitIndexed(w) \/ MarkDocumentFailed(w)
  BY DEF Next, RequestStep, WorkerStep, StoreUpload, LoadRetry, SelectReindex,
     LoadDelete, Send, DeletePoints, DeleteObject, RequestFails, Take, SetRunning,
     LoadDocument, Download, PassHashCheck, Parse, UpsertBatch, ReadCoverage,
     Finish, Retry, MarkTaskFailed, AttemptFails, WorkerDies, dbVars

LEMMA RowsCreated ==
  ASSUME TypeOK, LockedRowExists, Next, NEW d \in Requests, ~Exists(d), Exists(d)'
  PROVE  CommitUpload(d)
<1>0. docs \in [Requests -> DocRow]
  BY DEF TypeOK
<1>1. docs'[d] # docs[d] /\ docs' # docs
  BY DEF Exists
<1>2. ASSUME NEW r \in Requests, CommitUpload(r) PROVE r = d
  BY <1>0, <1>1, <1>2 DEF CommitUpload
<1>3. ASSUME NEW r \in Requests, CommitRetry(r) PROVE FALSE
  BY <1>0, <1>1, <1>3 DEF CommitRetry, Exists
<1>4. ASSUME NEW r \in Requests, CommitDelete(r) PROVE FALSE
  BY <1>0, <1>4 DEF CommitDelete, Exists, NoDoc
<1>5. ASSUME NEW w \in Workers, FlagDuplicate(w) PROVE FALSE
  BY <1>0, <1>1, <1>5 DEF FlagDuplicate, Exists
<1>6. ASSUME NEW e, NEW s, SetDocStatus(e, s) PROVE FALSE
  BY <1>0, <1>1, <1>6 DEF SetDocStatus, Exists
<1>7. ASSUME NEW w \in Workers, CommitIndexed(w) PROVE FALSE
  <2>1. Exists(worker[w].doc)
    BY <1>7 DEF CommitIndexed, LockedRowExists
  <2> QED
    BY <1>0, <1>1, <1>7, <2>1 DEF CommitIndexed, Exists
<1> QED
  BY <1>1, <1>2, <1>3, <1>4, <1>5, <1>6, <1>7, DocsChange
     DEF FlagLowCoverage, MarkDocumentFailed

LEMMA RowsDeleted ==
  ASSUME TypeOK, Next, NEW d \in Requests, Exists(d), ~Exists(d)'
  PROVE  \E r \in Requests : CommitDelete(r) /\ req[r].doc = d
<1>0. docs \in [Requests -> DocRow]
  BY DEF TypeOK
<1>1. docs'[d] # docs[d] /\ docs' # docs
  BY DEF Exists
<1>2. ASSUME NEW r \in Requests, CommitUpload(r) PROVE FALSE
  BY <1>0, <1>1, <1>2 DEF CommitUpload, Exists
<1>3. ASSUME NEW r \in Requests, CommitRetry(r) PROVE FALSE
  <2>1. docs' = [docs EXCEPT ![req[r].doc].status = "pending"]
    BY <1>1, <1>3 DEF CommitRetry
  <2> QED
    BY <1>0, <1>1, <2>1 DEF Exists
<1>4. ASSUME NEW r \in Requests, CommitDelete(r) PROVE req[r].doc = d
  <2>1. docs' = [docs EXCEPT ![req[r].doc] = NoDoc]
    BY <1>4 DEF CommitDelete
  <2> QED
    BY <1>0, <1>1, <2>1
<1>5. ASSUME NEW w \in Workers, FlagDuplicate(w) PROVE FALSE
  <2>1. docs' = [docs EXCEPT ![worker[w].doc].status = "review_needed",
                             ![worker[w].doc].hash = worker[w].content]
    BY <1>1, <1>5 DEF FlagDuplicate
  <2> QED
    BY <1>0, <1>1, <2>1 DEF Exists, DocRow, DocRecord
<1>6. ASSUME NEW e, NEW s, s # "absent", SetDocStatus(e, s) PROVE FALSE
  BY <1>0, <1>1, <1>6 DEF SetDocStatus, Exists
<1>7. ASSUME NEW w \in Workers, CommitIndexed(w) PROVE FALSE
  BY <1>0, <1>1, <1>7 DEF CommitIndexed, Exists
<1> QED
  BY <1>1, <1>2, <1>3, <1>4, <1>5, <1>6, <1>7, DocsChange
     DEF FlagLowCoverage, MarkDocumentFailed

(* What the steps of a worker do to its record.                            *)

LEMMA GotoEffect ==
  ASSUME TypeOK, NEW w \in Workers, NEW pc, Goto(w, pc)
  PROVE  /\ worker'[w].pc = pc
         /\ worker'[w].task = worker[w].task
         /\ worker'[w].doc = worker[w].doc
         /\ worker'[w].content = worker[w].content
         /\ worker'[w].batch = worker[w].batch
         /\ \A v \in Workers \ {w} : worker'[v] = worker[v]
<1>1. worker \in [Workers -> Worker] /\ worker[w] \in Worker
  BY DEF TypeOK
<1>2. worker' = [worker EXCEPT ![w].pc = pc]
  BY DEF Goto
<1> QED
  BY <1>1, <1>2 DEF Worker, WorkerRecord

LEMMA WindUpEffect ==
  ASSUME TypeOK, NEW w \in Workers, NEW pc, WindUp(w, pc)
  PROVE  /\ worker'[w] = Job(pc, worker[w].task, worker[w].doc, worker[w].retries)
         /\ worker'[w].pc = pc
         /\ worker'[w].task = worker[w].task
         /\ worker'[w].doc = worker[w].doc
         /\ \A v \in Workers \ {w} : worker'[v] = worker[v]
<1> DEFINE j == Job(pc, worker[w].task, worker[w].doc, worker[w].retries)
<1>1. worker \in [Workers -> Worker]
  BY DEF TypeOK
<1>2. worker' = [worker EXCEPT ![w] = j]
  BY DEF WindUp
<1>3. j.pc = pc /\ j.task = worker[w].task /\ j.doc = worker[w].doc
  BY DEF Job
<1> QED
  BY <1>1, <1>2, <1>3

(* Only ReadCoverage brings a worker to its commit.                        *)
LEMMA CommitEntered ==
  ASSUME TypeOK, Next, NEW w \in Workers, worker'[w].pc = "commit"
  PROVE  worker'[w] = worker[w] \/ ReadCoverage(w)
<1>0. worker \in [Workers -> Worker]
  BY DEF TypeOK
<1>1. ASSUME NEW r \in Requests, RequestStep(r) PROVE worker' = worker
  BY <1>1 DEF RequestStep, StoreUpload, LoadRetry, SelectReindex, LoadDelete, Send,
     DeletePoints, DeleteObject, CommitUpload, CommitRetry, CommitDelete, RequestFails
<1>2. ASSUME NEW v \in Workers, NEW pc, pc # "commit", Goto(v, pc) \/ WindUp(v, pc)
      PROVE  worker'[w] = worker[w]
  BY <1>2, GotoEffect, WindUpEffect
<1>3. ASSUME NEW v \in Workers, NEW j, j.pc # "commit", worker' = [worker EXCEPT ![v] = j]
      PROVE  worker'[w] = worker[w]
  BY <1>0, <1>3
<1>4. ASSUME NEW v \in Workers, WorkerStep(v) \/ AttemptFails(v) \/ WorkerDies(v)
      PROVE  worker'[w] = worker[w] \/ (v = w /\ ReadCoverage(w))
  <2>1. CASE Take(v)
    <3>1. PICK m \in broker : worker' = [worker EXCEPT ![v] =
                                           Job("start", m.task, m.doc, m.retries)]
      BY <2>1 DEF Take
    <3> QED
      BY <1>3, <3>1 DEF Job
  <2>2. CASE SetRunning(v) \/ PassHashCheck(v) \/ MarkDocumentFailed(v)
    BY <1>2, <2>2 DEF SetRunning, PassHashCheck, MarkDocumentFailed
  <2>3. CASE FlagDuplicate(v) \/ FlagLowCoverage(v) \/ CommitIndexed(v) \/ AttemptFails(v)
    BY <1>2, <2>3 DEF FlagDuplicate, FlagLowCoverage, CommitIndexed, AttemptFails
  <2>4. CASE Finish(v) \/ Retry(v) \/ MarkTaskFailed(v) \/ WorkerDies(v)
    <3>1. worker' = [worker EXCEPT ![v] = Idle]
      BY <2>4 DEF Finish, Retry, MarkTaskFailed, WorkerDies
    <3>2. Idle.pc # "commit"
      BY DEF Idle, Job
    <3> QED
      BY <1>3, <3>1, <3>2
  <2>5. CASE LoadDocument(v)
    <3>1. CASE WindUp(v, "failing")
      BY <1>2, <3>1
    <3>2. CASE ~WindUp(v, "failing")
      <4>1. worker' = [worker EXCEPT ![v].pc = "download",
                                     ![v].path = docs[worker[v].doc].path]
        BY <2>5, <3>2 DEF LoadDocument
      <4>2. worker'[v].pc = "download"
        BY <1>0, <4>1 DEF Worker, WorkerRecord
      <4> QED
        BY <1>0, <4>1, <4>2
    <3> QED
      BY <3>1, <3>2
  <2>6. CASE Download(v)
    <3>1. CASE WindUp(v, "failing")
      BY <1>2, <3>1
    <3>2. CASE ~WindUp(v, "failing")
      <4>1. worker' = [worker EXCEPT ![v].pc = "check",
                                     ![v].content = objects[worker[v].path]]
        BY <2>6, <3>2 DEF Download
      <4>2. worker'[v].pc = "check"
        BY <1>0, <4>1 DEF Worker, WorkerRecord
      <4> QED
        BY <1>0, <4>1, <4>2
    <3> QED
      BY <3>1, <3>2
  <2>7. CASE Parse(v)
    <3>1. worker' = [worker EXCEPT ![v].pc = "index", ![v].batch = 0]
      BY <2>7 DEF Parse
    <3>2. worker'[v].pc = "index"
      BY <1>0, <3>1 DEF Worker, WorkerRecord
    <3> QED
      BY <1>0, <3>1, <3>2
  <2>8. CASE UpsertBatch(v)
    <3> DEFINE n == worker[v].batch + 1
               pc == IF LastBatch(n) THEN "finalize" ELSE "index"
    <3>1. worker' = [worker EXCEPT ![v].batch = n, ![v].pc = pc]
      BY <2>8 DEF UpsertBatch
    <3>2. pc # "commit"
      OBVIOUS
    <3> HIDE DEF n, pc
    <3>3. worker'[v].pc = pc
      BY <1>0, <3>1 DEF Worker, WorkerRecord
    <3> QED
      BY <1>0, <3>1, <3>2, <3>3
  <2>9. CASE ReadCoverage(v)
    <3>1. CASE v = w
      BY <2>9, <3>1
    <3>2. CASE v # w
      BY <1>0, <2>9, <3>2 DEF ReadCoverage, WindUp
    <3> QED
      BY <3>1, <3>2
  <2> QED
    BY <1>4, <2>1, <2>2, <2>3, <2>4, <2>5, <2>6, <2>7, <2>8, <2>9 DEF WorkerStep
<1> QED
  BY <1>1, <1>4 DEF Next

LEMMA LockStep == TypeOK /\ LockedRowExists /\ [Next]_vars => LockedRowExists'
<1>1. CASE UNCHANGED vars
  BY <1>1 DEF LockedRowExists, vars, dbVars, Exists
<1> SUFFICES ASSUME TypeOK, LockedRowExists, Next, NEW w \in Workers,
                    worker'[w].pc = "commit"
             PROVE  docs'[worker'[w].doc].status # "absent"
  BY <1>1 DEF LockedRowExists, Exists
<1>2. CASE worker'[w] = worker[w]
  <2>1. PICK d \in Requests : d = worker[w].doc
    BY <1>2 DEF TypeOK, Worker
  <2>2. Exists(d) /\ Locked(d)
    BY <1>2, <2>1 DEF LockedRowExists, Locked
  <2>3. \A r \in Requests : CommitDelete(r) => ~Locked(req[r].doc)
    BY DEF CommitDelete
  <2>4. Exists(d)'
    BY <2>2, <2>3, RowsDeleted
  <2> QED
    BY <1>2, <2>1, <2>4 DEF Exists
<1>3. CASE ReadCoverage(w)
  <2>1. docs' = docs /\ worker[w].pc = "finalize"
    BY <1>3 DEF ReadCoverage, dbVars
  <2>2. worker \in [Workers -> Worker]
    BY DEF TypeOK
  <2>3. ~WindUp(w, "failing")
    BY WindUpEffect
  <2>4. Exists(worker[w].doc)
    BY <1>3, <2>3 DEF ReadCoverage
  <2>5. worker' = [worker EXCEPT ![w].pc = "commit", ![w].seen = count]
    BY <1>3, <2>4 DEF ReadCoverage
  <2>6. worker'[w].doc = worker[w].doc
    BY <2>2, <2>5 DEF Worker, WorkerRecord
  <2> QED
    BY <2>1, <2>4, <2>6 DEF Exists
<1> QED
  BY <1>2, <1>3, CommitEntered

RowInv == TypeOK /\ LockedRowExists

LEMMA RowInvariant == Spec => []RowInv
<1>1. Init => RowInv
  BY TypeInit DEF RowInv, LockedRowExists, Init, Idle, Job
<1>2. RowInv /\ [Next]_vars => RowInv'
  BY TypeStep, LockStep DEF RowInv
<1> QED
  BY <1>1, <1>2, PTL DEF Spec

(* Every variable keeps its type: retries never pass MaxRetries, rows hold *)
(* only the statuses of the enums, messages and workers name real tasks    *)
(* and documents, and a worker past its download knows the file's content. *)
THEOREM TypeCorrect == Spec => []TypeOK
  BY RowInvariant, PTL DEF RowInv

(* A deleted document stays deleted: whatever workers and retries still    *)
(* hold its id, a row appears only as its own upload commits, pending.     *)
THEOREM DeletesAreFinal == Spec => AppearsOnlyByUpload
<1>1. RowInv /\ [Next]_vars =>
        [\A d \in Requests :
            ~Exists(d) /\ docs'[d].status # "absent"
                => docs'[d].status = "pending" /\ req[d].pc = "commit"
                                               /\ req'[d].pc = "done"]_vars
  <2> SUFFICES ASSUME RowInv, Next, NEW d \in Requests, ~Exists(d), Exists(d)'
               PROVE  docs'[d].status = "pending" /\ req[d].pc = "commit"
                                                  /\ req'[d].pc = "done"
    BY DEF Exists
  <2>1. CommitUpload(d)
    BY RowsCreated DEF RowInv
  <2> QED
    BY <2>1 DEF CommitUpload, Return, Handling, RowInv, TypeOK
<1> QED
  BY <1>1, RowInvariant, PTL DEF Spec, AppearsOnlyByUpload
=============================================================================
