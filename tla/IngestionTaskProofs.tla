------------------------ MODULE IngestionTaskProofs ------------------------
(***************************************************************************)
(* Theorems about the tasks of Ingestion.  They rest on one fact: a task   *)
(* id has at most one carrier, which is its request until the message is   *)
(* sent, then the message, then the worker that took it, then perhaps the  *)
(* message of a retry.                                                     *)
(***************************************************************************)
EXTENDS IngestionProofs

Busy(w) == worker[w].pc # "idle"

Unsent(t) == req[t].pc \in {"new", "send"}

Uncarried(t) ==
    /\ \A w \in Workers : Busy(w) => worker[w].task # t
    /\ \A m \in broker : m.task # t

UnsentUncarried == \A t \in Requests : Unsent(t) => Uncarried(t)

OneCarrier ==
    /\ \A v, w \in Workers : Busy(v) /\ Busy(w) /\ worker[v].task = worker[w].task => v = w
    /\ \A m, n \in broker : m.task = n.task => m = n
    /\ \A w \in Workers, m \in broker : Busy(w) => worker[w].task # m.task

(* A row is inserted by the last step of its request.                      *)
RowsAreCommitted == \A t \in Requests : taskRow[t] # "absent" => req[t].pc = "done"

(* Nothing is left of a task whose row says how it ended.                  *)
SettledUncarried == \A t \in Requests : taskRow[t] \in {"completed", "failed"} => Uncarried(t)

RunningCarried == \A t \in Requests : taskRow[t] = "running" => ~Uncarried(t) \/ t \in lost

TaskInv ==
    /\ RowInv
    /\ UnsentUncarried
    /\ OneCarrier
    /\ RowsAreCommitted
    /\ SettledUncarried
    /\ RunningCarried

(* How a step treats the carriers.                                         *)

Kept ==
    /\ broker' = broker
    /\ \A v \in Workers : /\ worker'[v].pc = "idle" <=> worker[v].pc = "idle"
                          /\ worker'[v].task = worker[v].task

Ends(w) == Finish(w) \/ MarkTaskFailed(w) \/ WorkerDies(w)

LEMMA MovesKeep ==
  ASSUME TypeOK, NEW w \in Workers, Busy(w), broker' = broker,
         worker'[w].pc # "idle", worker'[w].task = worker[w].task,
         \A v \in Workers \ {w} : worker'[v] = worker[v]
  PROVE  Kept
  BY DEF Kept, Busy

LEMMA GotoKeeps ==
  ASSUME TypeOK, NEW w \in Workers, Busy(w), broker' = broker,
         NEW pc, pc # "idle", Goto(w, pc) \/ WindUp(w, pc)
  PROVE  Kept
  BY GotoEffect, WindUpEffect, MovesKeep

LEMMA LoadKeeps ==
  ASSUME TypeOK, NEW w \in Workers, LoadDocument(w) \/ Download(w)
  PROVE  Kept
<1>0. worker \in [Workers -> Worker] /\ worker[w] \in Worker
  BY DEF TypeOK
<1>1. Busy(w) /\ broker' = broker
  BY DEF LoadDocument, Download, Busy
<1>2. CASE WindUp(w, "failing")
  BY <1>1, <1>2, GotoKeeps
<1>3. CASE LoadDocument(w) /\ ~WindUp(w, "failing")
  <2>1. worker' = [worker EXCEPT ![w].pc = "download", ![w].path = docs[worker[w].doc].path]
    BY <1>3 DEF LoadDocument
  <2>2. worker'[w].pc = "download" /\ worker'[w].task = worker[w].task
    BY <1>0, <2>1 DEF Worker, WorkerRecord
  <2> QED
    BY <1>0, <1>1, <2>1, <2>2, MovesKeep
<1>4. CASE Download(w) /\ ~WindUp(w, "failing")
  <2>1. worker' = [worker EXCEPT ![w].pc = "check", ![w].content = objects[worker[w].path]]
    BY <1>4 DEF Download
  <2>2. worker'[w].pc = "check" /\ worker'[w].task = worker[w].task
    BY <1>0, <2>1 DEF Worker, WorkerRecord
  <2> QED
    BY <1>0, <1>1, <2>1, <2>2, MovesKeep
<1> QED
  BY <1>2, <1>3, <1>4

LEMMA IndexKeeps ==
  ASSUME TypeOK, NEW w \in Workers, Parse(w) \/ UpsertBatch(w) \/ ReadCoverage(w)
  PROVE  Kept
<1>0. worker \in [Workers -> Worker] /\ worker[w] \in Worker
  BY DEF TypeOK
<1>1. Busy(w) /\ broker' = broker
  BY DEF Parse, UpsertBatch, ReadCoverage, Busy
<1>2. CASE Parse(w)
  <2>1. worker' = [worker EXCEPT ![w].pc = "index", ![w].batch = 0]
    BY <1>2 DEF Parse
  <2>2. worker'[w].pc = "index" /\ worker'[w].task = worker[w].task
    BY <1>0, <2>1 DEF Worker, WorkerRecord
  <2> QED
    BY <1>0, <1>1, <2>1, <2>2, MovesKeep
<1>3. CASE UpsertBatch(w)
  <2> DEFINE n == worker[w].batch + 1
             pc == IF LastBatch(n) THEN "finalize" ELSE "index"
  <2>1. worker' = [worker EXCEPT ![w].batch = n, ![w].pc = pc]
    BY <1>3 DEF UpsertBatch
  <2>2. pc # "idle"
    OBVIOUS
  <2> HIDE DEF n, pc
  <2>3. worker'[w].pc = pc /\ worker'[w].task = worker[w].task
    BY <1>0, <2>1 DEF Worker, WorkerRecord
  <2> QED
    BY <1>0, <1>1, <2>1, <2>2, <2>3, MovesKeep
<1>4. CASE ReadCoverage(w) /\ WindUp(w, "failing")
  BY <1>1, <1>4, GotoKeeps
<1>5. CASE ReadCoverage(w) /\ ~WindUp(w, "failing")
  <2>1. worker' = [worker EXCEPT ![w].pc = "commit", ![w].seen = count]
    BY <1>5 DEF ReadCoverage
  <2>2. worker'[w].pc = "commit" /\ worker'[w].task = worker[w].task
    BY <1>0, <2>1 DEF Worker, WorkerRecord
  <2> QED
    BY <1>0, <1>1, <2>1, <2>2, MovesKeep
<1> QED
  BY <1>2, <1>3, <1>4, <1>5

LEMMA CarrierStep ==
  ASSUME TypeOK, Next
  PROVE  \/ Kept
         \/ \E r \in Requests : Send(r)
         \/ \E w \in Workers : Take(w) \/ Retry(w) \/ Ends(w)
<1>1. ASSUME NEW r \in Requests, RequestStep(r), ~Send(r) PROVE Kept
  <2>1. worker' = worker /\ broker' = broker
    BY <1>1 DEF RequestStep, StoreUpload, LoadRetry, SelectReindex, LoadDelete,
       DeletePoints, DeleteObject, CommitUpload, CommitRetry, CommitDelete, RequestFails
  <2> QED
    BY <2>1 DEF Kept
<1>2. ASSUME NEW w \in Workers, WorkerStep(w) \/ AttemptFails(w)
      PROVE  Kept \/ Take(w) \/ Retry(w) \/ Ends(w)
  <2>1. CASE SetRunning(w) \/ PassHashCheck(w) \/ MarkDocumentFailed(w)
    <3>1. Busy(w) /\ broker' = broker
      BY <2>1 DEF SetRunning, PassHashCheck, MarkDocumentFailed, Busy
    <3>2. Goto(w, "load") \/ Goto(w, "parse") \/ Goto(w, "fail_task")
      BY <2>1 DEF SetRunning, PassHashCheck, MarkDocumentFailed
    <3> QED
      BY <3>1, <3>2, GotoKeeps
  <2>2. CASE FlagDuplicate(w) \/ FlagLowCoverage(w) \/ CommitIndexed(w) \/ AttemptFails(w)
    <3>1. Busy(w) /\ broker' = broker
      BY <2>2 DEF FlagDuplicate, FlagLowCoverage, CommitIndexed, AttemptFails, Busy, Guarded
    <3>2. WindUp(w, "finish") \/ WindUp(w, "failing")
      BY <2>2 DEF FlagDuplicate, FlagLowCoverage, CommitIndexed, AttemptFails
    <3> QED
      BY <3>1, <3>2, GotoKeeps
  <2> QED
    BY <1>2, <2>1, <2>2, LoadKeeps, IndexKeeps DEF WorkerStep, Ends
<1> QED
  BY <1>1, <1>2 DEF Next, Ends

(* Requests only go forward.                                               *)

Advanced ==
    \A t \in Requests : /\ req'[t].pc \in {"new", "send"} => Unsent(t)
                        /\ req[t].pc = "done" => req'[t].pc = "done"

LEMMA RequestUpdate ==
  ASSUME TypeOK, NEW r \in Requests, NEW q, req' = [req EXCEPT ![r] = q],
         req[r].pc # "done", q.pc = "send" => req[r].pc = "new", q.pc # "new"
  PROVE  Advanced
  BY DEF TypeOK, Unsent, Advanced

LEMMA RequestBegins ==
  ASSUME TypeOK, NEW r \in Requests,
         StoreUpload(r) \/ LoadRetry(r) \/ SelectReindex(r) \/ LoadDelete(r)
  PROVE  Advanced
<1>0. req[r].pc = "new"
  BY DEF StoreUpload, LoadRetry, SelectReindex, LoadDelete
<1>1. CASE StoreUpload(r)
  <2>1. PICK p \in Paths :
          req' = [req EXCEPT ![r] = [Handling("send", "upload", r) EXCEPT !.path = p]]
    BY <1>1 DEF StoreUpload
  <2> DEFINE q == [Handling("send", "upload", r) EXCEPT !.path = p]
  <2>2. q.pc = "send"
    BY DEF Handling
  <2> HIDE DEF q
  <2>3. req' = [req EXCEPT ![r] = q]
    BY <2>1 DEF q
  <2> QED
    BY <1>0, <2>2, <2>3, RequestUpdate
<1>2. CASE LoadRetry(r)
  <2>1. PICK d \in Requests :
          req' = [req EXCEPT ![r] = [Handling("send", "retry", d)
                                         EXCEPT !.status = docs[d].status]]
    BY <1>2 DEF LoadRetry
  <2> DEFINE q == [Handling("send", "retry", d) EXCEPT !.status = docs[d].status]
  <2>2. q.pc = "send"
    BY DEF Handling
  <2> HIDE DEF q
  <2>3. req' = [req EXCEPT ![r] = q]
    BY <2>1 DEF q
  <2> QED
    BY <1>0, <2>2, <2>3, RequestUpdate
<1>3. CASE SelectReindex(r)
  <2>1. PICK d \in Requests : req' = [req EXCEPT ![r] = Handling("send", "reindex", d)]
    BY <1>3 DEF SelectReindex
  <2> DEFINE q == Handling("send", "reindex", d)
  <2>2. q.pc = "send"
    BY DEF Handling
  <2> HIDE DEF q
  <2>3. req' = [req EXCEPT ![r] = q]
    BY <2>1 DEF q
  <2> QED
    BY <1>0, <2>2, <2>3, RequestUpdate
<1>4. CASE LoadDelete(r)
  <2>1. PICK d \in Requests :
          req' = [req EXCEPT ![r] = [Handling("purge", "delete", d)
                                         EXCEPT !.path = docs[d].path, !.seen = count]]
    BY <1>4 DEF LoadDelete
  <2> DEFINE q == [Handling("purge", "delete", d) EXCEPT !.path = docs[d].path, !.seen = count]
  <2>2. q.pc = "purge"
    BY DEF Handling
  <2> HIDE DEF q
  <2>3. req' = [req EXCEPT ![r] = q]
    BY <2>1 DEF q
  <2> QED
    BY <1>0, <2>2, <2>3, RequestUpdate
<1> QED
  BY <1>1, <1>2, <1>3, <1>4

LEMMA RequestReturns ==
  ASSUME TypeOK, NEW r \in Requests, req[r].pc # "done", Return(r)
  PROVE  Advanced /\ req'[r].pc = "done"
<1> DEFINE q == Handling("done", req[r].kind, req[r].doc)
<1>1. q.pc = "done"
  BY DEF Handling
<1> HIDE DEF q
<1>2. req' = [req EXCEPT ![r] = q]
  BY DEF Return, q
<1> QED
  BY <1>1, <1>2, RequestUpdate DEF TypeOK

LEMMA RequestGoes ==
  ASSUME TypeOK, NEW r \in Requests, req[r].pc # "done",
         NEW pc \in {"unlink", "commit"}, req' = [req EXCEPT ![r].pc = pc]
  PROVE  Advanced /\ req'[r].pc = pc
<1> DEFINE q == [req[r] EXCEPT !.pc = pc]
<1>0. req \in [Requests -> Request]
  BY DEF TypeOK
<1>1. q.pc = pc
  BY <1>0 DEF Request, RequestRecord
<1>2. req' = [req EXCEPT ![r] = q]
  OBVIOUS
<1> HIDE DEF q
<1> QED
  BY <1>0, <1>1, <1>2, RequestUpdate

LEMMA RequestsAdvance ==
  ASSUME TypeOK, Next
  PROVE  Advanced
<1>1. ASSUME NEW w \in Workers, WorkerStep(w) \/ AttemptFails(w) \/ WorkerDies(w)
      PROVE  req' = req
  BY <1>1 DEF WorkerStep, Take, SetRunning, LoadDocument, Download, PassHashCheck,
     FlagDuplicate, Parse, FlagLowCoverage, UpsertBatch, ReadCoverage, CommitIndexed,
     Finish, Retry, MarkDocumentFailed, MarkTaskFailed, AttemptFails, WorkerDies
<1>2. ASSUME NEW r \in Requests,
             Send(r) \/ DeletePoints(r) \/ DeleteObject(r)
      PROVE  Advanced
  BY <1>2, RequestReturns, RequestGoes DEF Send, DeletePoints, DeleteObject
<1>3. ASSUME NEW r \in Requests,
             CommitUpload(r) \/ CommitRetry(r) \/ CommitDelete(r) \/ RequestFails(r)
      PROVE  Advanced
  BY <1>3, RequestReturns DEF CommitUpload, CommitRetry, CommitDelete, RequestFails
<1>4. req' = req => Advanced
  BY DEF Advanced, Unsent
<1> QED
  BY <1>1, <1>2, <1>3, <1>4, RequestBegins DEF Next, RequestStep

(* What the other steps do to the carriers, message by message.            *)

Others(w) == \A v \in Workers \ {w} : worker'[v] = worker[v]

Released(w) == Busy(w) /\ worker'[w].pc = "idle" /\ Others(w)

Sent(r, m) ==
    /\ m.task = r /\ broker' = broker \cup {m} /\ worker' = worker
    /\ Unsent(r) /\ req'[r].pc \notin {"new", "send"}

Taken(w, m) ==
    /\ m \in broker /\ broker' = broker \ {m}
    /\ ~Busy(w) /\ worker'[w].pc # "idle" /\ worker'[w].task = m.task /\ Others(w)

Returned(w, m) == m.task = worker[w].task /\ broker' = broker \cup {m} /\ Released(w)

LEMMA IdleReleases ==
  ASSUME TypeOK, NEW w \in Workers, Busy(w), worker' = [worker EXCEPT ![w] = Idle]
  PROVE  Released(w)
  BY DEF TypeOK, Released, Others, Idle, Job

LEMMA SendEffect ==
  ASSUME TypeOK, NEW r \in Requests, Send(r)
  PROVE  \E m : Sent(r, m)
<1> DEFINE m == [task |-> r, doc |-> req[r].doc, retries |-> 0]
<1>1. m.task = r
  OBVIOUS
<1>2. broker' = broker \cup {m} /\ worker' = worker /\ req[r].pc = "send"
  BY DEF Send
<1> HIDE DEF m
<1>3. req'[r].pc \in {"done", "commit"}
  BY <1>2, RequestReturns, RequestGoes DEF Send
<1>4. Sent(r, m)
  BY <1>1, <1>2, <1>3 DEF Sent, Unsent
<1> QED
  BY <1>4

LEMMA TakeEffect ==
  ASSUME TypeOK, NEW w \in Workers, Take(w)
  PROVE  \E m : Taken(w, m)
<1>1. PICK m \in broker :
        /\ broker' = broker \ {m}
        /\ worker' = [worker EXCEPT ![w] = Job("start", m.task, m.doc, m.retries)]
  BY DEF Take, Acknowledged
<1>2. worker'[w].pc # "idle" /\ worker'[w].task = m.task /\ Others(w)
  BY <1>1 DEF TypeOK, Job, Others
<1>3. Taken(w, m)
  BY <1>1, <1>2 DEF Taken, Take, Busy
<1> QED
  BY <1>3

LEMMA RetryEffect ==
  ASSUME TypeOK, NEW w \in Workers, Retry(w)
  PROVE  \E m : Returned(w, m)
<1> DEFINE m == [task |-> worker[w].task, doc |-> worker[w].doc,
                 retries |-> worker[w].retries + 1]
<1>1. m.task = worker[w].task
  OBVIOUS
<1>2. broker' = broker \cup {m} /\ Busy(w) /\ worker' = [worker EXCEPT ![w] = Idle]
  BY DEF Retry, Requeued, Busy
<1> HIDE DEF m
<1>3. Returned(w, m)
  BY <1>1, <1>2, IdleReleases DEF Returned
<1> QED
  BY <1>3

LEMMA EndsEffect ==
  ASSUME TypeOK, NEW w \in Workers, Ends(w)
  PROVE  Released(w) /\ broker' = broker
  BY IdleReleases DEF Ends, Finish, MarkTaskFailed, WorkerDies, Busy

Moves(w) ==
    \/ \E m : Taken(w, m) \/ Returned(w, m)
    \/ Ends(w) /\ Released(w) /\ broker' = broker

LEMMA Carriers ==
  ASSUME TypeOK, Next
  PROVE  \/ Kept
         \/ \E r \in Requests : \E m : Sent(r, m)
         \/ \E w \in Workers : Moves(w)
<1>1. ASSUME NEW w \in Workers, Take(w) \/ Retry(w) \/ Ends(w) PROVE Moves(w)
  <2>1. CASE Take(w)
    BY <2>1, TakeEffect DEF Moves
  <2>2. CASE Retry(w)
    BY <2>2, RetryEffect DEF Moves
  <2>3. CASE Ends(w)
    BY <2>3, EndsEffect DEF Moves
  <2> QED
    BY <1>1, <2>1, <2>2, <2>3
<1>2. ASSUME NEW r \in Requests, Send(r) PROVE \E m : Sent(r, m)
  BY <1>2, SendEffect
<1> QED
  BY <1>1, <1>2, CarrierStep

LEMMA UncarriedStays ==
  ASSUME TypeOK, Next, NEW t \in Requests, Uncarried(t)
  PROVE  Uncarried(t)' \/ \E m : Sent(t, m)
<1>1. CASE Kept
  BY <1>1 DEF Kept, Uncarried, Busy
<1>2. ASSUME NEW r \in Requests, NEW m, Sent(r, m), r # t PROVE Uncarried(t)'
  BY <1>2 DEF Sent, Uncarried, Busy
<1>3. ASSUME NEW w \in Workers, NEW m, Taken(w, m) PROVE Uncarried(t)'
  BY <1>3 DEF Taken, Others, Uncarried, Busy
<1>4. ASSUME NEW w \in Workers, NEW m, Returned(w, m) PROVE Uncarried(t)'
  BY <1>4 DEF Returned, Released, Others, Uncarried, Busy
<1>5. ASSUME NEW w \in Workers, Released(w), broker' = broker PROVE Uncarried(t)'
  BY <1>5 DEF Released, Others, Uncarried, Busy
<1> QED
  BY <1>1, <1>2, <1>3, <1>4, <1>5, Carriers DEF Moves

(* Only the end of its run takes the last carrier from a task.             *)
LEMMA CarriedStays ==
  ASSUME TypeOK, Next, NEW t \in Requests, ~Uncarried(t), Uncarried(t)'
  PROVE  \E w \in Workers : Ends(w) /\ worker[w].task = t
<1>1. CASE Kept
  BY <1>1 DEF Kept, Uncarried, Busy
<1>2. ASSUME NEW r \in Requests, NEW m, Sent(r, m) PROVE FALSE
  BY <1>2 DEF Sent, Uncarried, Busy
<1>3. ASSUME NEW w \in Workers, NEW m, Taken(w, m) PROVE FALSE
  BY <1>3 DEF Taken, Others, Uncarried, Busy
<1>4. ASSUME NEW w \in Workers, NEW m, Returned(w, m) PROVE FALSE
  BY <1>4 DEF Returned, Released, Others, Uncarried, Busy
<1>5. ASSUME NEW w \in Workers, Released(w), broker' = broker PROVE worker[w].task = t
  BY <1>5 DEF Released, Others, Uncarried, Busy
<1> QED
  BY <1>1, <1>2, <1>3, <1>4, <1>5, Carriers DEF Moves

LEMMA OneCarrierStep ==
  ASSUME TypeOK, OneCarrier, UnsentUncarried, Next
  PROVE  OneCarrier'
<1>1. CASE Kept
  BY <1>1 DEF Kept, OneCarrier, Busy
<1>2. ASSUME NEW r \in Requests, NEW m, Sent(r, m) PROVE OneCarrier'
  <2>1. Uncarried(r)
    BY <1>2 DEF Sent, UnsentUncarried
  <2> QED
    BY <1>2, <2>1 DEF Sent, OneCarrier, Uncarried, Busy
<1>3. ASSUME NEW w \in Workers, NEW m, Taken(w, m) PROVE OneCarrier'
  BY <1>3 DEF Taken, Others, OneCarrier, Busy
<1>4. ASSUME NEW w \in Workers, NEW m, Returned(w, m) PROVE OneCarrier'
  BY <1>4 DEF Returned, Released, Others, OneCarrier, Busy
<1>5. ASSUME NEW w \in Workers, Released(w), broker' = broker PROVE OneCarrier'
  BY <1>5 DEF Released, Others, OneCarrier, Busy
<1> QED
  BY <1>1, <1>2, <1>3, <1>4, <1>5, Carriers DEF Moves

(* How a row of task_queue changes.                                        *)

Inserted(t) ==
    /\ req[t].pc = "commit" /\ req'[t].pc = "done"
    /\ taskRow' = [taskRow EXCEPT ![t] = "queued"]

Updated(w) ==
    /\ Busy(w) /\ taskRow[worker[w].task] # "absent"
    /\ \/ SetRunning(w) /\ taskRow' = [taskRow EXCEPT ![worker[w].task] = "running"]
       \/ Finish(w) /\ taskRow' = [taskRow EXCEPT ![worker[w].task] = "completed"]
       \/ MarkTaskFailed(w) /\ taskRow' = [taskRow EXCEPT ![worker[w].task] = "failed"]

LEMMA RowChanges ==
  ASSUME TypeOK, Next
  PROVE  \/ taskRow' = taskRow
         \/ \E r \in Requests : Inserted(r)
         \/ \E w \in Workers : Updated(w)
<1>1. ASSUME NEW r \in Requests, CommitUpload(r) \/ CommitRetry(r)
      PROVE  taskRow' = taskRow \/ Inserted(r)
  <2>1. req[r].pc = "commit" /\ req'[r].pc = "done"
    BY <1>1, RequestReturns DEF CommitUpload, CommitRetry
  <2> QED
    BY <1>1, <2>1 DEF CommitUpload, CommitRetry, Inserted
<1>2. ASSUME NEW w \in Workers, SetRunning(w) \/ Finish(w) \/ MarkTaskFailed(w)
      PROVE  taskRow' = taskRow \/ Updated(w)
  BY <1>2 DEF SetRunning, Finish, MarkTaskFailed, SetTaskStatus, Updated, Busy
<1>3. \/ taskRow' = taskRow
      \/ \E r \in Requests : CommitUpload(r) \/ CommitRetry(r)
      \/ \E w \in Workers : SetRunning(w) \/ Finish(w) \/ MarkTaskFailed(w)
  BY DEF Next, RequestStep, WorkerStep, StoreUpload, LoadRetry, SelectReindex,
     LoadDelete, Send, DeletePoints, DeleteObject, CommitDelete, RequestFails, Take,
     LoadDocument, Download, PassHashCheck, FlagDuplicate, Parse, FlagLowCoverage,
     UpsertBatch, ReadCoverage, CommitIndexed, Retry, MarkDocumentFailed, AttemptFails,
     WorkerDies, dbVars
<1> QED
  BY <1>1, <1>2, <1>3

(* A row changes by its own INSERT or by the one worker that carries its   *)
(* task, which finds it queued or running.                                 *)

LEMMA RowsStep ==
  ASSUME TypeOK, RowsAreCommitted, Next
  PROVE  RowsAreCommitted'
<1> SUFFICES ASSUME NEW t \in Requests, taskRow'[t] # "absent"
             PROVE  req'[t].pc = "done"
  BY DEF RowsAreCommitted
<1>1. CASE taskRow[t] # "absent"
  BY <1>1, RequestsAdvance DEF RowsAreCommitted, Advanced
<1>2. CASE taskRow[t] = "absent"
  <2>1. ASSUME NEW r \in Requests, Inserted(r) PROVE r = t
    BY <1>2, <2>1 DEF Inserted, TypeOK
  <2>2. ASSUME NEW w \in Workers, Updated(w) PROVE FALSE
    BY <1>2, <2>2 DEF Updated, TypeOK
  <2> QED
    BY <1>2, <2>1, <2>2, RowChanges DEF Inserted
<1> QED
  BY <1>1, <1>2

LEMMA UnsentStep ==
  ASSUME TypeOK, UnsentUncarried, Next
  PROVE  UnsentUncarried'
<1> SUFFICES ASSUME NEW t \in Requests, Unsent(t)' PROVE Uncarried(t)'
  BY DEF UnsentUncarried
<1>1. Unsent(t)
  BY RequestsAdvance DEF Advanced, Unsent
<1> QED
  BY <1>1, UncarriedStays DEF UnsentUncarried, Sent, Unsent

LEMMA SettledStep ==
  ASSUME TypeOK, OneCarrier, RowsAreCommitted, SettledUncarried, Next
  PROVE  SettledUncarried'
<1> SUFFICES ASSUME NEW t \in Requests, taskRow'[t] \in {"completed", "failed"}
             PROVE  Uncarried(t)'
  BY DEF SettledUncarried
<1>1. CASE taskRow[t] \in {"completed", "failed"}
  <2>1. ~Unsent(t)
    BY <1>1 DEF RowsAreCommitted, Unsent
  <2> QED
    BY <1>1, <2>1, UncarriedStays DEF SettledUncarried, Sent
<1>2. CASE taskRow[t] \notin {"completed", "failed"}
  <2>1. PICK w \in Workers : Updated(w) /\ worker[w].task = t
    BY <1>2, RowChanges DEF Inserted, Updated, TypeOK
  <2>2. Busy(w) /\ Ends(w)
    BY <1>2, <2>1 DEF Updated, Ends, TypeOK
  <2> QED
    BY <2>1, <2>2, EndsEffect DEF Released, Others, OneCarrier, Uncarried, Busy
<1> QED
  BY <1>1, <1>2

LEMMA RunningStep ==
  ASSUME TypeOK, RunningCarried, Next
  PROVE  RunningCarried'
<1> SUFFICES ASSUME NEW t \in Requests, taskRow'[t] = "running", Uncarried(t)'
             PROVE  t \in lost'
  BY DEF RunningCarried
<1>1. lost \subseteq lost'
  BY DEF Next, RequestStep, WorkerStep, StoreUpload, LoadRetry, SelectReindex,
     LoadDelete, Send, DeletePoints, DeleteObject, CommitUpload, CommitRetry,
     CommitDelete, RequestFails, Take, SetRunning, LoadDocument, Download,
     PassHashCheck, FlagDuplicate, Parse, FlagLowCoverage, UpsertBatch, ReadCoverage,
     CommitIndexed, Finish, Retry, MarkDocumentFailed, MarkTaskFailed, AttemptFails,
     WorkerDies
<1>2. CASE ~Uncarried(t)
  <2>1. PICK w \in Workers : Ends(w) /\ worker[w].task = t
    BY <1>2, CarriedStays
  <2>2. ~Finish(w) /\ ~MarkTaskFailed(w)
    BY <2>1 DEF Finish, MarkTaskFailed, SetTaskStatus, TypeOK
  <2> QED
    BY <2>1, <2>2 DEF Ends, WorkerDies
<1>3. CASE Uncarried(t) /\ taskRow[t] = "running"
  BY <1>1, <1>3 DEF RunningCarried
<1>4. CASE Uncarried(t) /\ taskRow[t] # "running"
  BY <1>4, RowChanges DEF Inserted, Updated, Uncarried, Busy, TypeOK
<1> QED
  BY <1>2, <1>3, <1>4

LEMMA TaskInvariant == Spec => []TaskInv
<1>1. Init => TaskInv
  <2> SUFFICES ASSUME Init PROVE TaskInv
    OBVIOUS
  <2>1. RowInv
    BY TypeInit DEF RowInv, LockedRowExists, Init, Idle, Job
  <2>2. \A t \in Requests : taskRow[t] = "absent" /\ Uncarried(t)
    BY DEF Init, Uncarried, Busy, Idle, Job
  <2>3. OneCarrier
    BY DEF Init, OneCarrier, Busy, Idle, Job
  <2> QED
    BY <2>1, <2>2, <2>3 DEF TaskInv, UnsentUncarried, RowsAreCommitted, SettledUncarried,
       RunningCarried
<1>2. TaskInv /\ [Next]_vars => TaskInv'
  <2>1. RowInv /\ [Next]_vars => RowInv'
    BY TypeStep, LockStep DEF RowInv
  <2>2. TaskInv /\ Next => TaskInv'
    BY <2>1, UnsentStep, OneCarrierStep, RowsStep, SettledStep, RunningStep
       DEF TaskInv, RowInv
  <2>3. TaskInv /\ UNCHANGED vars => TaskInv'
    BY <2>1 DEF TaskInv, UnsentUncarried, OneCarrier, RowsAreCommitted, SettledUncarried,
       RunningCarried, Unsent, Uncarried, Busy, vars, dbVars
  <2> QED
    BY <2>2, <2>3
<1> QED
  BY <1>1, <1>2, RowInvariant, PTL DEF Spec

(* A task id is never run by two workers at once, nor run while a message  *)
(* of it waits, nor waiting twice: a retry replaces the run it follows.    *)
THEOREM NeverRunTwice == Spec => []OneExecutionPerTask
<1>1. TaskInv => OneExecutionPerTask
  BY DEF TaskInv, OneCarrier, OneExecutionPerTask, Executing, Queued, Busy
<1> QED
  BY <1>1, TaskInvariant, PTL

(* A row of task_queue that reads "running" belongs to a worker, or to a   *)
(* retry in the broker, unless the worker died with the task.              *)
THEOREM RunningHasCarrier == Spec => []RunningIsOwned
<1>1. TaskInv => RunningIsOwned
  BY DEF TaskInv, RunningCarried, RunningIsOwned, Uncarried, Executing, Queued, Busy
<1> QED
  BY <1>1, TaskInvariant, PTL

(* Ingestion implements the lifecycle task_queue promises: a row is        *)
(* inserted once, as queued, and is never changed after it says how the    *)
(* task ended.                                                             *)
THEOREM RefinesLifecycle == Spec => TaskRowsFollowLifecycle
<1>1. Init => Tasks!Init
  BY DEF Init, Tasks!Init
<1>2. TaskInv /\ [Next]_vars => [Tasks!Next]_taskRow
  <2> SUFFICES ASSUME TaskInv, Next, taskRow' # taskRow PROVE Tasks!Next
    BY DEF vars, dbVars
  <2> USE DEF TaskInv, RowInv
  <2>1. ASSUME NEW r \in Requests, Inserted(r) PROVE Tasks!Create(r)
    BY <2>1 DEF Inserted, RowsAreCommitted, Tasks!Create
  <2>2. ASSUME NEW w \in Workers, Updated(w)
        PROVE  Tasks!Start(worker[w].task) \/ Tasks!Settle(worker[w].task)
    <3> DEFINE t == worker[w].task
    <3>1. t \in Requests
      BY <2>2 DEF Updated, Busy, TypeOK, Worker
    <3>2. taskRow[t] \in {"queued", "running"}
      BY <2>2, <3>1 DEF Updated, SettledUncarried, Uncarried, TypeOK
    <3>3. CASE taskRow' = [taskRow EXCEPT ![t] = "running"]
      BY <2>2, <3>1, <3>2, <3>3 DEF Tasks!Start, TypeOK
    <3>4. CASE \E s \in {"completed", "failed"} : taskRow' = [taskRow EXCEPT ![t] = s]
      BY <3>2, <3>4 DEF Tasks!Settle, Tasks!Terminal
    <3> QED
      BY <2>2, <3>3, <3>4 DEF Updated
  <2>3. \A w \in Workers : Busy(w) => worker[w].task \in Requests
    BY DEF Busy, TypeOK, Worker
  <2> QED
    BY <2>1, <2>2, <2>3, RowChanges DEF Tasks!Next, Updated
<1> QED
  BY <1>1, <1>2, TaskInvariant, PTL DEF Spec, TaskRowsFollowLifecycle, Tasks!Spec
=============================================================================
