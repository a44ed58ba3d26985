-------------------------- MODULE SchedulerProofs --------------------------
(***************************************************************************)
(* Theorems about Scheduler, for any filings, coverages and pool of worker *)
(* processes and any bounds.                                               *)
(***************************************************************************)
EXTENDS Scheduler, FiniteSetTheorems, TLAPS

SweepSent(i) == [kind |-> "sweep", day |-> i] \in queue
Sent(kind, d) == [kind |-> kind, doc |-> d] \in queue
Runs(w, kind, d) == worker[w].pc = kind /\ worker[w].doc = d

(* An ingestion of d is in the queue or in a process.                      *)
Carried(d) == Sent("ingest", d) \/ \E w \in Workers : Runs(w, "ingest", d)

(* The sweep at a filing names it by its own day, and is done with its     *)
(* coverage.                                                               *)
SweepersOK ==
    \A w \in Workers :
        LET j == worker[w]
        IN /\ Sweeping(w) <=> j.pc \notin {"idle", "ingest", "monitor"}
           /\ j.day <= today /\ ~SweepSent(j.day)
           /\ Sweeping(w) /\ j.doc # Nil =>
                  j.doc[2] = j.day /\ CoverageOf[j.doc[1]] \notin j.todo

OneSweepPerDay ==
    /\ \A i \in Days : SweepSent(i) => i <= today
    /\ \A v, w \in Workers : Sweeping(v) /\ worker[v].day = worker[w].day => v = w

(* A sweep adds the row of a filing once.                                  *)
RowsAddedOnce ==
    \A f \in Filings, i \in Days :
        document[<<f, i>>] # "none" =>
            /\ i <= today /\ ~SweepSent(i)
            /\ \A w \in Workers : worker[w].day = i => CoverageOf[f] \notin worker[w].todo

(* One ingestion of a document, then its result, and then the monitor.     *)
IngestionsOK ==
    \A d \in Documents :
        /\ Carried(d) => document[d] = "pending" /\ result[d] = "none"
        /\ Sent("ingest", d) => \A w \in Workers : ~Runs(w, "ingest", d)
        /\ \A v, w \in Workers : Runs(v, "ingest", d) /\ Runs(w, "ingest", d) => v = w
        /\ result[d] = "ok" => document[d] \in {"indexed", "review_needed"}
        /\ result[d] = "raised" => document[d] = "failed"
        /\ task[d] # "none" => result[d] = "ok"
        /\ Sent("monitor", d) \/ (\E w \in Workers : Runs(w, "monitor", d)) => task[d] # "none"

(* What a sweep knows of the filing it is at.                              *)
StagesOK ==
    \A w \in Workers :
        LET d == worker[w].doc
        IN /\ At(w, "download") => document[d] = "none"
           /\ At(w, "send") => /\ document[d] = "pending" /\ result[d] = "none"
                               /\ ~Carried(d)
           /\ worker[w].pc \in {"dispatch", "enqueue"} => result[d] = "ok"
           /\ At(w, "enqueue") => task[d] # "none"

(* Without an overlap one sweep is under way, and what it found is new.    *)
AloneUntilOverlap ==
    \/ overlapped
    \/ /\ \A v, w \in Workers : Sweeping(v) /\ Sweeping(w) => v = w
       /\ \A w \in Workers : At(w, "download") => ~Known(worker[w].doc[1])

SweepInv == TypeOK /\ SweepersOK /\ OneSweepPerDay /\ RowsAddedOnce

FilingInv ==
    /\ SweepInv
    /\ IngestionsOK /\ StagesOK /\ AloneUntilOverlap
    /\ KnownIsMonitored /\ TwoRowsNeedOverlap

(***************************************************************************)
(* What a step does to the process that takes it.                          *)
(***************************************************************************)
Becomes(w, pc, day, todo, doc) ==
    /\ worker'[w].pc = pc /\ worker'[w].day = day
    /\ worker'[w].todo = todo /\ worker'[w].doc = doc
    /\ \A v \in Workers \ {w} : worker'[v] = worker[v]

WorkersTyped == worker' \in [Workers -> Worker]

LEMMA GotoEffect ==
  ASSUME TypeOK, NEW w \in Workers, worker[w].doc # Nil,
         NEW pc \in {"send", "wait", "dispatch", "enqueue"},
         worker' = [worker EXCEPT ![w].pc = pc]
  PROVE  Becomes(w, pc, worker[w].day, worker[w].todo, worker[w].doc) /\ WorkersTyped
<1>1. worker \in [Workers -> Worker] /\ worker[w] \in WorkerRecord
  BY DEF TypeOK, Worker
<1> DEFINE j == [worker[w] EXCEPT !.pc = pc]
<1>2. j.pc = pc /\ j.day = worker[w].day /\ j.todo = worker[w].todo /\ j.doc = worker[w].doc
  BY <1>1 DEF WorkerRecord
<1>3. j \in Worker
  BY <1>1, <1>2 DEF Worker, WorkerRecord
<1>4. worker' = [worker EXCEPT ![w] = j]
  BY <1>1
<1> HIDE DEF j
<1> QED
  BY <1>1, <1>2, <1>3, <1>4 DEF Becomes, WorkersTyped

LEMMA NextCoverageEffect ==
  ASSUME TypeOK, NEW w \in Workers, NextCoverage(w)
  PROVE  Becomes(w, "check", worker[w].day, worker[w].todo, Nil) /\ WorkersTyped
<1>1. worker \in [Workers -> Worker] /\ worker[w] \in WorkerRecord
  BY DEF TypeOK, Worker
<1> DEFINE j == [worker[w] EXCEPT !.pc = "check", !.doc = Nil]
<1>2. j.pc = "check" /\ j.day = worker[w].day /\ j.todo = worker[w].todo /\ j.doc = Nil
  BY <1>1 DEF WorkerRecord
<1>3. j \in Worker
  BY <1>1, <1>2 DEF Worker, WorkerRecord
<1>4. worker' = [worker EXCEPT ![w] = j]
  BY <1>1 DEF NextCoverage
<1> HIDE DEF j
<1> QED
  BY <1>1, <1>2, <1>3, <1>4 DEF Becomes, WorkersTyped

LEMMA IdleType == Idle \in Worker /\ Never \in [Coverages -> 0 .. MaxDays]
  BY ConstantsOK DEF Idle, Never, Worker, WorkerRecord

LEMMA IdleEffect ==
  ASSUME TypeOK, NEW w \in Workers, worker' = [worker EXCEPT ![w] = Idle]
  PROVE  Becomes(w, "idle", 0, {}, Nil) /\ WorkersTyped
<1>1. Idle \in Worker /\ Idle.pc = "idle" /\ Idle.day = 0 /\ Idle.todo = {} /\ Idle.doc = Nil
  BY IdleType DEF Idle
<1> QED
  BY <1>1 DEF TypeOK, Becomes, WorkersTyped

LEMMA StartEffect ==
  ASSUME TypeOK, NEW w \in Workers, StartSweep(w)
  PROVE  /\ WorkersTyped
         /\ \E i \in Days : /\ SweepSent(i)
                            /\ queue' = queue \ {[kind |-> "sweep", day |-> i]}
                            /\ Becomes(w, "check", i, Coverages, Nil)
<1>1. PICK m \in queue :
        /\ m.kind = "sweep" /\ queue' = queue \ {m}
        /\ worker' = [worker EXCEPT ![w] = [Idle EXCEPT !.pc = "check", !.day = m.day,
                                               !.todo = Coverages, !.loaded = lastUpdated]]
  BY DEF StartSweep
<1>2. m.day \in Days /\ m = [kind |-> "sweep", day |-> m.day]
  BY <1>1 DEF TypeOK, Message
<1> DEFINE j == [Idle EXCEPT !.pc = "check", !.day = m.day, !.todo = Coverages,
                             !.loaded = lastUpdated]
<1>3. j.pc = "check" /\ j.day = m.day /\ j.todo = Coverages /\ j.doc = Nil
  BY DEF Idle
<1>4. j \in Worker
  BY <1>2, <1>3, IdleType DEF TypeOK, Idle, Worker, WorkerRecord
<1>5. worker' = [worker EXCEPT ![w] = j]
  BY <1>1
<1> HIDE DEF j
<1>6. WorkersTyped /\ Becomes(w, "check", m.day, Coverages, Nil)
  BY <1>3, <1>4, <1>5 DEF TypeOK, Becomes, WorkersTyped
<1> QED
  BY <1>1, <1>2, <1>6 DEF SweepSent

LEMMA RunEffect ==
  ASSUME TypeOK, NEW w \in Workers, Run(w)
  PROVE  /\ WorkersTyped
         /\ \E kind \in {"ingest", "monitor"}, d \in Documents :
                /\ Sent(kind, d)
                /\ queue' = queue \ {[kind |-> kind, doc |-> d]}
                /\ Becomes(w, kind, 0, {}, d)
<1>1. PICK m \in queue :
        /\ m.kind # "sweep" /\ queue' = queue \ {m}
        /\ worker' = [worker EXCEPT ![w] = [Idle EXCEPT !.pc = m.kind, !.doc = m.doc]]
  BY DEF Run
<1>2. /\ m.kind \in {"ingest", "monitor"} /\ m.doc \in Documents
      /\ m = [kind |-> m.kind, doc |-> m.doc]
  BY <1>1 DEF TypeOK, Message
<1> DEFINE j == [Idle EXCEPT !.pc = m.kind, !.doc = m.doc]
<1>3. j.pc = m.kind /\ j.day = 0 /\ j.todo = {} /\ j.doc = m.doc
  BY DEF Idle
<1>4. j \in Worker
  <2>1. m.doc # Nil
    BY <1>2, ConstantsOK DEF Documents
  <2> QED
    BY <1>2, <1>3, <2>1, IdleType DEF Idle, Worker, WorkerRecord
<1>5. worker' = [worker EXCEPT ![w] = j]
  BY <1>1
<1> HIDE DEF j
<1>6. WorkersTyped /\ Becomes(w, m.kind, 0, {}, m.doc)
  BY <1>3, <1>4, <1>5 DEF TypeOK, Becomes, WorkersTyped
<1> QED
  BY <1>1, <1>2, <1>6 DEF Sent

LEMMA FoundEffect ==
  ASSUME TypeOK, NEW w \in Workers, worker[w].day # 0, NEW f \in Filings, Found(w, f)
  PROVE  /\ Becomes(w, "download", worker[w].day, worker[w].todo \ {CoverageOf[f]},
                    <<f, worker[w].day>>)
         /\ WorkersTyped
<1>1. worker \in [Workers -> Worker] /\ worker[w] \in WorkerRecord
  BY DEF TypeOK, Worker
<1> DEFINE d == <<f, worker[w].day>>
           todo == worker[w].todo \ {CoverageOf[f]}
           j == [worker[w] EXCEPT !.pc = "download", !.doc = d, !.todo = todo]
<1>2. d \in Documents /\ d # Nil
  BY <1>1, ConstantsOK DEF WorkerRecord, Documents
<1>3. worker' = [worker EXCEPT ![w] = j]
  BY <1>1 DEF Found
<1>4. todo \in SUBSET Coverages
  BY <1>1 DEF WorkerRecord
<1> HIDE DEF d, todo
<1>5. j.pc = "download" /\ j.day = worker[w].day /\ j.todo = todo /\ j.doc = d
  BY <1>1 DEF WorkerRecord
<1>6. j \in Worker
  BY <1>1, <1>2, <1>4, <1>5 DEF Worker, WorkerRecord
<1> HIDE DEF j
<1> QED
  BY <1>1, <1>3, <1>5, <1>6 DEF Becomes, WorkersTyped, d, todo

LEMMA SkipEffect ==
  ASSUME TypeOK, NEW w \in Workers, At(w, "check"), NEW c,
         worker' = [worker EXCEPT ![w].todo = @ \ {c}]
  PROVE  Becomes(w, "check", worker[w].day, worker[w].todo \ {c}, Nil) /\ WorkersTyped
<1>1. worker \in [Workers -> Worker] /\ worker[w] \in WorkerRecord /\ worker[w].doc = Nil
  BY DEF TypeOK, Worker, At
<1> DEFINE todo == worker[w].todo \ {c}
           j == [worker[w] EXCEPT !.todo = todo]
<1>2. worker' = [worker EXCEPT ![w] = j]
  BY <1>1
<1>3. todo \in SUBSET Coverages
  BY <1>1 DEF WorkerRecord
<1> HIDE DEF todo
<1>4. j.pc = "check" /\ j.day = worker[w].day /\ j.todo = todo /\ j.doc = Nil
  BY <1>1 DEF WorkerRecord, At
<1>5. j \in Worker
  BY <1>1, <1>3, <1>4 DEF Worker, WorkerRecord
<1> HIDE DEF j
<1> QED
  BY <1>1, <1>2, <1>4, <1>5 DEF Becomes, WorkersTyped, todo

LEMMA DownCount ==
  ASSUME NEW down \in SUBSET {Forms[i] : i \in DOMAIN Forms}
  PROVE  Cardinality(down) \in Nat
<1>1. {Forms[i] : i \in DOMAIN Forms} = {"10-Q"} \cup {"10-K"}
  <2>1. DOMAIN Forms = {1, 2} /\ Forms[1] = "10-Q" /\ Forms[2] = "10-K"
    BY DEF Forms
  <2> HIDE DEF Forms
  <2> QED
    BY <2>1
<1>2. IsFiniteSet({"10-Q"} \cup {"10-K"})
  BY FS_Singleton, FS_Union
<1> QED
  BY <1>1, <1>2, FS_Subset, FS_CardinalityType

(* CheckCoverage takes the newest new filing of a form, or skips.          *)
LEMMA CheckEffect ==
  ASSUME TypeOK, SweepersOK, NEW w \in Workers, NEW c \in Coverages,
         NEW down \in SUBSET {Forms[i] : i \in DOMAIN Forms}, CheckCoverage(w, c, down)
  PROVE  /\ WorkersTyped /\ faults' \in 0 .. MaxFaults /\ c \in worker[w].todo
         /\ document' = document /\ Sweeping(w) /\ At(w, "check") /\ worker[w].doc = Nil
         /\ \/ \E f \in Filings :
                  /\ CoverageOf[f] = c /\ ~Known(f)
                  /\ Becomes(w, "download", worker[w].day, worker[w].todo \ {c},
                             <<f, worker[w].day>>)
                  /\ left' \subseteq left \cup Filings /\ missed' = missed
            \/ /\ Becomes(w, "check", worker[w].day, worker[w].todo \ {c}, Nil)
               /\ left' = left /\ missed' \subseteq missed \cup left
<1>1. At(w, "check") /\ c \in worker[w].todo /\ document' = document /\ worker[w].doc = Nil
  BY DEF CheckCoverage, Found, At, TypeOK, Worker
<1>2. Sweeping(w) /\ worker[w].day # 0
  BY <1>1 DEF SweepersOK, At, Sweeping
<1>3. faults' \in 0 .. MaxFaults
  <2>1. faults' = faults + Cardinality(down) /\ faults' <= MaxFaults
    BY DEF CheckCoverage
  <2> QED
    BY <2>1, DownCount, ConstantsOK DEF TypeOK
<1>4. CASE \E f \in Candidates(w, c, down) :
             Found(w, f) /\ left' = left \cup (AllNew(w, c) \ {f}) /\ missed' = missed
  <2>1. PICK f \in Candidates(w, c, down) :
             Found(w, f) /\ left' = left \cup (AllNew(w, c) \ {f}) /\ missed' = missed
    BY <1>4
  <2>2. \E form : f \in NewFilings(w, c, form)
    BY <2>1 DEF Candidates
  <2>3. f \in Filings /\ CoverageOf[f] = c /\ ~Known(f)
    BY <2>2 DEF NewFilings
  <2>4. AllNew(w, c) \subseteq Filings
    BY DEF AllNew, NewFilings
  <2> QED
    BY <1>1, <1>2, <1>3, <2>1, <2>3, <2>4, FoundEffect
<1>5. CASE /\ worker' = [worker EXCEPT ![w].todo = @ \ {c}]
           /\ missed' = missed \cup {f \in left : CoverageOf[f] = c /\ ~Known(f) /\ down = {}}
           /\ left' = left
  BY <1>1, <1>2, <1>3, <1>5, SkipEffect
<1> QED
  BY <1>4, <1>5 DEF CheckCoverage

(* In the model's words: the process of a sweep goes from one stage to the *)
(* next, or leaves its filing, or its task.                                *)
Proceeds(w) ==
    \/ /\ AddDocument(w) /\ At(w, "download")
       /\ Becomes(w, "send", worker[w].day, worker[w].todo, worker[w].doc)
    \/ /\ SendIngestion(w) /\ At(w, "send")
       /\ Becomes(w, "wait", worker[w].day, worker[w].todo, worker[w].doc)
    \/ /\ Answered(w) /\ At(w, "wait")
       /\ Becomes(w, "dispatch", worker[w].day, worker[w].todo, worker[w].doc)
    \/ /\ AddTask(w) /\ At(w, "dispatch")
       /\ Becomes(w, "enqueue", worker[w].day, worker[w].todo, worker[w].doc)

LeavesFiling(w) ==
    /\ worker[w].pc \in {"download", "send", "wait", "dispatch", "enqueue"}
    /\ Becomes(w, "check", worker[w].day, worker[w].todo, Nil)

Stops(w) == Becomes(w, "idle", 0, {}, Nil)

LEMMA ProceedEffect ==
  ASSUME TypeOK, NEW w \in Workers,
         AddDocument(w) \/ SendIngestion(w) \/ Answered(w) \/ AddTask(w)
  PROVE  WorkersTyped /\ Proceeds(w) /\ worker[w].doc \in Documents
<1>1. worker[w].pc \in {"download", "send", "wait", "dispatch"}
  BY DEF AddDocument, SendIngestion, Answered, AddTask, At
<1>2. worker[w].doc # Nil /\ worker[w].doc \in Documents
  BY <1>1 DEF TypeOK, Worker, WorkerRecord
<1> QED
  BY <1>2, GotoEffect DEF AddDocument, SendIngestion, Answered, AddTask, Proceeds

LEMMA LeaveEffect ==
  ASSUME TypeOK, NEW w \in Workers,
         \/ DownloadFails(w) \/ IngestionRaised(w) \/ TimesOut(w)
         \/ SweepStepFails(w) \/ SendMonitor(w)
  PROVE  WorkersTyped /\ LeavesFiling(w) /\ worker[w].doc \in Documents
<1>1. worker[w].pc \in {"download", "send", "wait", "dispatch", "enqueue"} /\ NextCoverage(w)
  BY DEF DownloadFails, IngestionRaised, TimesOut, SweepStepFails, SendMonitor, Abandon, At
<1>2. worker[w].doc \in Documents
  BY <1>1 DEF TypeOK, Worker, WorkerRecord
<1> QED
  BY <1>1, <1>2, NextCoverageEffect DEF LeavesFiling

LEMMA StopEffect ==
  ASSUME TypeOK, NEW w \in Workers,
         EndSweep(w) \/ EndIngestion(w) \/ EndMonitor(w) \/ WorkerDies(w)
  PROVE  WorkersTyped /\ Stops(w)
  BY IdleEffect DEF EndSweep, EndIngestion, EndMonitor, WorkerDies, Stops

(***************************************************************************)
(* Types, and one sweep a day.                                             *)
(***************************************************************************)
LEMMA TypeInit == Init => TypeOK
<1> SUFFICES ASSUME Init PROVE TypeOK
  OBVIOUS
<1>1. worker \in [Workers -> Worker] /\ lastUpdated \in [Coverages -> 0 .. MaxDays]
  BY IdleType DEF Init
<1>2. /\ document \in [Documents -> DocStatus] /\ task \in [Documents -> TaskRow]
      /\ result \in [Documents -> {"none", "ok", "raised"}]
  BY DEF Init, DocStatus, TaskRow
<1>3. filed \in [Filings -> 0 .. MaxDays] /\ today \in 0 .. MaxDays /\ faults \in 0 .. MaxFaults
  BY ConstantsOK DEF Init
<1>4. /\ queue \subseteq Message /\ abandoned \subseteq Documents /\ overlapped \in BOOLEAN
      /\ left \subseteq Filings /\ missed \subseteq Filings
  BY DEF Init
<1> QED
  BY <1>1, <1>2, <1>3, <1>4 DEF TypeOK

LEMMA TypeStep ==
  ASSUME TypeOK, SweepersOK, Next
  PROVE  TypeOK'
<1> USE ConstantsOK
<1>1. CASE NewDay
  <2>1. today' \in 0 .. MaxDays /\ today' \in Days
    BY <1>1 DEF NewDay, TypeOK, Days
  <2>2. queue' \subseteq Message
    BY <1>1, <2>1 DEF NewDay, TypeOK, Message
  <2> QED
    BY <1>1, <2>1, <2>2 DEF NewDay, TypeOK, history
<1>2. ASSUME NEW f \in Filings, Publish(f) PROVE TypeOK'
  BY <1>2 DEF Publish, TypeOK, history
<1>3. ASSUME NEW c \in Coverages, UploadIngested(c) PROVE TypeOK'
  BY <1>3 DEF UploadIngested, TypeOK, history
<1>4. ASSUME NEW w \in Workers, StartSweep(w) \/ Run(w) PROVE TypeOK'
  <2>1. WorkersTyped /\ queue' \subseteq queue
    BY <1>4, StartEffect, RunEffect
  <2>2. overlapped' \in BOOLEAN
    BY <1>4 DEF StartSweep, Run, TypeOK, history
  <2>3. /\ UNCHANGED <<today, filed, lastUpdated, document, result, task, abandoned>>
        /\ UNCHANGED <<left, missed, faults>>
    BY <1>4 DEF StartSweep, Run, history
  <2> QED
    BY <2>1, <2>2, <2>3 DEF TypeOK, WorkersTyped
<1>5. ASSUME NEW w \in Workers, NEW c \in Coverages,
             NEW down \in SUBSET {Forms[i] : i \in DOMAIN Forms}, CheckCoverage(w, c, down)
      PROVE  TypeOK'
  <2>1. /\ WorkersTyped /\ faults' \in 0 .. MaxFaults /\ document' = document
        /\ left' \subseteq Filings /\ missed' \subseteq Filings
    BY <1>5, CheckEffect DEF TypeOK
  <2>2. UNCHANGED <<today, filed, lastUpdated, queue, result, task, abandoned, overlapped>>
    BY <1>5 DEF CheckCoverage
  <2> QED
    BY <2>1, <2>2 DEF TypeOK, WorkersTyped
<1>6. ASSUME NEW w \in Workers, AddDocument(w) \/ SendIngestion(w) \/ Answered(w) \/ AddTask(w)
      PROVE  TypeOK'
  <2>1. WorkersTyped /\ worker[w].doc \in Documents
    BY <1>6, ProceedEffect
  <2>2. document' \in [Documents -> DocStatus] /\ task' \in [Documents -> TaskRow]
    BY <1>6, <2>1 DEF AddDocument, SendIngestion, Answered, AddTask, TypeOK, DocStatus, TaskRow
  <2>3. queue' \subseteq Message
    BY <1>6, <2>1 DEF AddDocument, SendIngestion, Answered, AddTask, TypeOK, Message
  <2>4. UNCHANGED <<today, filed, lastUpdated, result, history, faults>>
    BY <1>6 DEF AddDocument, SendIngestion, Answered, AddTask
  <2> QED
    BY <2>1, <2>2, <2>3, <2>4 DEF TypeOK, WorkersTyped, history
<1>7. ASSUME NEW w \in Workers,
             \/ DownloadFails(w) \/ IngestionRaised(w) \/ TimesOut(w)
             \/ SweepStepFails(w) \/ SendMonitor(w)
      PROVE  TypeOK'
  <2>1. WorkersTyped /\ worker[w].doc \in Documents
    BY <1>7, LeaveEffect
  <2>2. queue' \subseteq Message
    BY <1>7, <2>1 DEF DownloadFails, IngestionRaised, TimesOut, SweepStepFails, SendMonitor,
       Abandon, TypeOK, Message
  <2>3. abandoned' \subseteq Documents
    BY <1>7, <2>1 DEF DownloadFails, IngestionRaised, TimesOut, SweepStepFails, SendMonitor,
       Abandon, TypeOK, history
  <2>4. faults' \in 0 .. MaxFaults
    BY <1>7 DEF DownloadFails, IngestionRaised, TimesOut, SweepStepFails, SendMonitor,
       Fault, TypeOK
  <2>5. UNCHANGED <<today, filed, lastUpdated, document, result, task, overlapped, left, missed>>
    BY <1>7 DEF DownloadFails, IngestionRaised, TimesOut, SweepStepFails, SendMonitor,
       Abandon, history
  <2> QED
    BY <2>1, <2>2, <2>3, <2>4, <2>5 DEF TypeOK, WorkersTyped
<1>8. ASSUME NEW w \in Workers, EndSweep(w) PROVE TypeOK'
  BY <1>8, StopEffect DEF EndSweep, TypeOK, WorkersTyped, history
<1>9. ASSUME NEW w \in Workers, EndIngestion(w) PROVE TypeOK'
  <2>1. worker[w].doc \in Documents
    BY <1>9 DEF EndIngestion, At, TypeOK, Worker, WorkerRecord
  <2>2. CoverageOf[worker[w].doc[1]] \in Coverages
    BY <2>1 DEF Documents
  <2>3. /\ document' \in [Documents -> DocStatus]
        /\ result' \in [Documents -> {"none", "ok", "raised"}]
    BY <1>9, <2>1 DEF EndIngestion, TypeOK, DocStatus
  <2>4. lastUpdated' \in [Coverages -> 0 .. MaxDays]
    BY <1>9, <2>2 DEF EndIngestion, TypeOK
  <2>5. faults' \in 0 .. MaxFaults
    BY <1>9 DEF EndIngestion, Fault, TypeOK
  <2>6. UNCHANGED <<today, filed, queue, task, history>>
    BY <1>9 DEF EndIngestion
  <2> QED
    BY <1>9, <2>3, <2>4, <2>5, <2>6, StopEffect DEF TypeOK, WorkersTyped, history
<1>10. ASSUME NEW w \in Workers, EndMonitor(w) PROVE TypeOK'
  <2>1. task' \in [Documents -> TaskRow]
    BY <1>10 DEF EndMonitor, TypeOK, TaskRow
  <2> QED
    BY <1>10, <2>1, StopEffect DEF EndMonitor, TypeOK, WorkersTyped, history
<1>11. ASSUME NEW w \in Workers, WorkerDies(w) PROVE TypeOK'
  <2>1. worker[w].doc # Nil => worker[w].doc \in Documents
    BY DEF TypeOK, Worker, WorkerRecord
  <2>2. abandoned' \subseteq Documents /\ faults' \in 0 .. MaxFaults
    BY <1>11, <2>1 DEF WorkerDies, Fault, TypeOK
  <2> QED
    BY <1>11, <2>2, StopEffect DEF WorkerDies, TypeOK, WorkersTyped
<1> QED
  BY <1>1, <1>2, <1>3, <1>4, <1>5, <1>6, <1>7, <1>8, <1>9, <1>10, <1>11
     DEF Next, WorkerStep, Trouble

SweepSentNext(i) == [kind |-> "sweep", day |-> i] \in queue'

LEMMA SweepMessages ==
  ASSUME Next, NEW i, SweepSentNext(i)
  PROVE  \/ SweepSent(i) /\ today' = today
         \/ NewDay /\ (SweepSent(i) \/ i = today + 1)
<1>1. CASE NewDay
  BY <1>1 DEF NewDay, SweepSent, SweepSentNext
<1>2. ASSUME NEW w \in Workers, SendIngestion(w) \/ SendMonitor(w)
      PROVE  SweepSent(i) /\ today' = today
  BY <1>2 DEF SendIngestion, SendMonitor, SweepSent, SweepSentNext
<1>3. ASSUME NEW w \in Workers, StartSweep(w) \/ Run(w)
      PROVE  SweepSent(i) /\ today' = today
  BY <1>3 DEF StartSweep, Run, SweepSent, SweepSentNext
<1>4. ASSUME NEW w \in Workers, NEW c, NEW down, CheckCoverage(w, c, down)
      PROVE  SweepSent(i) /\ today' = today
  BY <1>4 DEF CheckCoverage, SweepSent, SweepSentNext
<1>5. ASSUME NEW w \in Workers,
             \/ AddDocument(w) \/ Answered(w) \/ IngestionRaised(w) \/ TimesOut(w) \/ AddTask(w)
             \/ EndSweep(w) \/ EndIngestion(w) \/ EndMonitor(w) \/ DownloadFails(w)
             \/ SweepStepFails(w) \/ WorkerDies(w)
      PROVE  SweepSent(i) /\ today' = today
  BY <1>5 DEF AddDocument, Answered, IngestionRaised, TimesOut, AddTask, EndSweep,
     EndIngestion, EndMonitor, DownloadFails, SweepStepFails, WorkerDies, Abandon,
     SweepSent, SweepSentNext
<1>6. ASSUME NEW f, Publish(f) \/ UploadIngested(f) PROVE SweepSent(i) /\ today' = today
  BY <1>6 DEF Publish, UploadIngested, SweepSent, SweepSentNext
<1> QED
  BY <1>1, <1>2, <1>3, <1>4, <1>5, <1>6 DEF Next, WorkerStep, Trouble

LEMMA TodayGrows ==
  ASSUME TypeOK, Next PROVE today' >= today /\ today \in Nat /\ today' \in Nat
<1>1. today' = today \/ today' = today + 1
  BY DEF Next, WorkerStep, Trouble, NewDay, Publish, UploadIngested, StartSweep, Run,
     CheckCoverage, SendIngestion, SendMonitor, AddDocument, Answered, IngestionRaised,
     TimesOut, AddTask, EndSweep, EndIngestion, EndMonitor, DownloadFails, SweepStepFails,
     WorkerDies, Abandon
<1> QED
  BY <1>1, ConstantsOK DEF TypeOK

LEMMA WorkerMoves ==
  ASSUME TypeOK, SweepersOK, Next
  PROVE  \/ worker' = worker
         \/ \E w \in Workers :
                \/ StartSweep(w) \/ Run(w) \/ Proceeds(w) \/ LeavesFiling(w) \/ Stops(w)
                \/ \E c \in Coverages, down \in SUBSET {Forms[i] : i \in DOMAIN Forms} :
                      CheckCoverage(w, c, down)
<1>1. NewDay \/ (\E f : Publish(f) \/ UploadIngested(f)) => worker' = worker
  BY DEF NewDay, Publish, UploadIngested
<1>2. {} \in SUBSET {Forms[i] : i \in DOMAIN Forms}
  OBVIOUS
<1> QED
  BY <1>1, <1>2, ProceedEffect, LeaveEffect, StopEffect DEF Next, WorkerStep, Trouble

LEMMA SweepDays ==
  ASSUME TypeOK, SweepersOK, Next, NEW w \in Workers, worker'[w].day # 0
  PROVE  \/ worker'[w].day = worker[w].day /\ worker'[w].todo \subseteq worker[w].todo
         \/ /\ StartSweep(w) /\ SweepSent(worker'[w].day) /\ worker'[w].day \in Days
            /\ ~SweepSentNext(worker'[w].day)
<1>1. ASSUME NEW v \in Workers, StartSweep(v)
      PROVE  \/ worker'[w] = worker[w]
             \/ /\ StartSweep(w) /\ SweepSent(worker'[w].day) /\ worker'[w].day \in Days
                /\ ~SweepSentNext(worker'[w].day)
  BY <1>1, StartEffect DEF Becomes, SweepSentNext
<1>2. ASSUME NEW v \in Workers, Run(v) PROVE worker'[w] = worker[w]
  BY <1>2, RunEffect DEF Becomes
<1>3. ASSUME NEW v \in Workers, Proceeds(v) \/ LeavesFiling(v) \/ Stops(v)
      PROVE  worker'[w].day = worker[w].day /\ worker'[w].todo \subseteq worker[w].todo
  BY <1>3 DEF Proceeds, LeavesFiling, Stops, Becomes
<1>4. ASSUME NEW v \in Workers, NEW c \in Coverages,
             NEW down \in SUBSET {Forms[i] : i \in DOMAIN Forms}, CheckCoverage(v, c, down)
      PROVE  worker'[w].day = worker[w].day /\ worker'[w].todo \subseteq worker[w].todo
  BY <1>4, CheckEffect DEF Becomes
<1> QED
  BY <1>1, <1>2, <1>3, <1>4, WorkerMoves

LEMMA SweepersStep ==
  ASSUME TypeOK, SweepersOK, OneSweepPerDay, Next
  PROVE  SweepersOK'
<1> SUFFICES ASSUME NEW w \in Workers
             PROVE  /\ worker'[w].day # 0 <=> worker'[w].pc \notin {"idle", "ingest", "monitor"}
                    /\ worker'[w].day <= today' /\ ~SweepSentNext(worker'[w].day)
                    /\ worker'[w].day # 0 /\ worker'[w].doc # Nil =>
                           /\ worker'[w].doc[2] = worker'[w].day
                           /\ CoverageOf[worker'[w].doc[1]] \notin worker'[w].todo
  BY DEF SweepersOK, Sweeping, SweepSent, SweepSentNext
<1>0. /\ worker[w].day \in Nat /\ worker[w].day <= today /\ ~SweepSent(worker[w].day)
      /\ today' >= today /\ today \in Nat /\ today' \in Nat
  BY TodayGrows DEF TypeOK, Worker, WorkerRecord, Days, SweepersOK
<1>1. worker'[w].day <= today' /\ ~SweepSentNext(worker'[w].day)
  <2>1. CASE worker'[w].day = worker[w].day
    <3>1. worker[w].day # today + 1
      BY <1>0
    <3> QED
      BY <1>0, <2>1, <3>1, SweepMessages
  <2>2. CASE worker'[w].day = 0
    <3>1. ~SweepSent(0)
      BY DEF TypeOK, Message, SweepSent, Days
    <3> QED
      BY <1>0, <2>2, <3>1, SweepMessages
  <2>3. CASE worker'[w].day # 0 /\ worker'[w].day # worker[w].day
    <3>1. /\ SweepSent(worker'[w].day) /\ worker'[w].day \in Days
          /\ ~SweepSentNext(worker'[w].day)
      BY <2>3, SweepDays
    <3>2. worker'[w].day <= today
      BY <3>1 DEF OneSweepPerDay
    <3> QED
      BY <1>0, <3>1, <3>2 DEF Days
  <2> QED
    BY <2>1, <2>2, <2>3
<1> DEFINE Named == /\ worker'[w].day # 0 <=> worker'[w].pc \notin {"idle", "ingest", "monitor"}
                    /\ worker'[w].day # 0 /\ worker'[w].doc # Nil =>
                           /\ worker'[w].doc[2] = worker'[w].day
                           /\ CoverageOf[worker'[w].doc[1]] \notin worker'[w].todo
<1>2. worker'[w] = worker[w] => Named
  BY DEF SweepersOK, Sweeping
<1>3. ASSUME NEW v \in Workers, StartSweep(v) PROVE Named
  BY <1>2, <1>3, StartEffect DEF Becomes, Days
<1>4. ASSUME NEW v \in Workers, Run(v) PROVE Named
  BY <1>2, <1>4, RunEffect DEF Becomes
<1>5. ASSUME NEW v \in Workers, Proceeds(v) \/ LeavesFiling(v) PROVE Named
  <2>1. CASE v = w
    BY <1>5, <2>1 DEF SweepersOK, Sweeping, Proceeds, LeavesFiling, Becomes, At
  <2> QED
    BY <1>2, <1>5, <2>1 DEF Proceeds, LeavesFiling, Becomes
<1>6. ASSUME NEW v \in Workers, Stops(v) PROVE Named
  BY <1>2, <1>6 DEF Stops, Becomes
<1>7. ASSUME NEW v \in Workers, NEW c \in Coverages,
             NEW down \in SUBSET {Forms[i] : i \in DOMAIN Forms}, CheckCoverage(v, c, down)
      PROVE  Named
  <2>1. CASE v = w
    BY <1>7, <2>1, CheckEffect DEF Becomes, Sweeping
  <2> QED
    BY <1>2, <1>7, <2>1, CheckEffect DEF Becomes
<1>8. Named
  <2> HIDE DEF Named
  <2> QED
    BY <1>2, <1>3, <1>4, <1>5, <1>6, <1>7, WorkerMoves
<1> QED
  BY <1>1, <1>8

LEMMA OneSweepStep ==
  ASSUME TypeOK, SweepersOK, OneSweepPerDay, Next
  PROVE  OneSweepPerDay'
<1>1. ASSUME NEW i \in Days, SweepSentNext(i) PROVE i <= today'
  <2>1. i \in Nat
    BY DEF Days
  <2>2. SweepSent(i) => i <= today
    BY DEF OneSweepPerDay
  <2>3. NewDay => today' = today + 1
    BY DEF NewDay
  <2> QED
    BY <1>1, <2>1, <2>2, <2>3, SweepMessages, TodayGrows
<1>2. ASSUME NEW v \in Workers, NEW w \in Workers, worker'[v].day # 0,
             worker'[v].day = worker'[w].day, v # w
      PROVE  FALSE
  <2>1. ASSUME NEW x \in Workers, NEW y \in Workers, x # y, StartSweep(x),
               worker'[x].day # 0, worker'[x].day = worker'[y].day,
               SweepSent(worker'[x].day)
        PROVE  FALSE
    <3>1. worker'[y] = worker[y]
      BY <2>1, StartEffect DEF Becomes
    <3> QED
      BY <2>1, <3>1 DEF SweepersOK
  <2>2. worker'[v].day = worker[v].day /\ worker'[w].day = worker[w].day
    BY <1>2, <2>1, SweepDays
  <2> QED
    BY <1>2, <2>2 DEF OneSweepPerDay, Sweeping
<1> QED
  BY <1>1, <1>2 DEF OneSweepPerDay, Sweeping, SweepSent, SweepSentNext

(***************************************************************************)
(* How documents, results, tasks and their messages change.                *)
(***************************************************************************)
SentNext(kind, d) == [kind |-> kind, doc |-> d] \in queue'
RunsNext(w, kind, d) == worker'[w].pc = kind /\ worker'[w].doc = d
CarriedNext(d) == SentNext("ingest", d) \/ \E w \in Workers : RunsNext(w, "ingest", d)

LEMMA SentMoves ==
  ASSUME TypeOK, Next, NEW kind \in {"ingest", "monitor"}, NEW d \in Documents,
         SentNext(kind, d), ~Sent(kind, d)
  PROVE  \E w \in Workers :
            /\ worker[w].doc = d
            /\ \/ kind = "ingest" /\ SendIngestion(w)
               \/ kind = "monitor" /\ SendMonitor(w)
<1>1. CASE NewDay
  BY <1>1 DEF NewDay, Sent, SentNext
<1>2. ASSUME NEW w \in Workers, SendIngestion(w) PROVE kind = "ingest" /\ worker[w].doc = d
  BY <1>2 DEF SendIngestion, Sent, SentNext
<1>3. ASSUME NEW w \in Workers, SendMonitor(w) PROVE kind = "monitor" /\ worker[w].doc = d
  BY <1>3 DEF SendMonitor, Sent, SentNext
<1>4. ~(queue' \subseteq queue)
  BY DEF Sent, SentNext
<1> QED
  BY <1>1, <1>2, <1>3, <1>4 DEF Next, WorkerStep, Trouble, Publish, UploadIngested,
     StartSweep, Run, CheckCoverage, AddDocument, Answered, IngestionRaised, TimesOut, AddTask,
     EndSweep, EndIngestion, EndMonitor, DownloadFails, SweepStepFails, WorkerDies, Abandon

LEMMA RunsMoves ==
  ASSUME TypeOK, SweepersOK, Next, NEW kind \in {"ingest", "monitor"}, NEW d \in Documents,
         NEW w \in Workers, RunsNext(w, kind, d)
  PROVE  \/ worker'[w] = worker[w] /\ Runs(w, kind, d)
         \/ /\ Run(w) /\ Sent(kind, d) /\ ~SentNext(kind, d)
            /\ document' = document /\ result' = result /\ task' = task
            /\ \A v \in Workers \ {w} : worker'[v] = worker[v]
<1>1. worker'[w] = worker[w] => Runs(w, kind, d)
  BY DEF Runs, RunsNext
<1>2. ASSUME NEW v \in Workers, Run(v)
      PROVE  \/ worker'[w] = worker[w]
             \/ /\ v = w /\ Sent(kind, d) /\ ~SentNext(kind, d)
                /\ document' = document /\ result' = result /\ task' = task
                /\ \A x \in Workers \ {w} : worker'[x] = worker[x]
  <2>1. document' = document /\ result' = result /\ task' = task
    BY <1>2 DEF Run
  <2> QED
    BY <1>2, <2>1, RunEffect DEF Becomes, RunsNext, SentNext
<1>3. ASSUME NEW v \in Workers, StartSweep(v) \/ Proceeds(v) \/ LeavesFiling(v) \/ Stops(v)
      PROVE  worker'[w] = worker[w]
  BY <1>3, StartEffect DEF Proceeds, LeavesFiling, Stops, Becomes, RunsNext
<1>4. ASSUME NEW v \in Workers, NEW c \in Coverages,
             NEW down \in SUBSET {Forms[i] : i \in DOMAIN Forms}, CheckCoverage(v, c, down)
      PROVE  worker'[w] = worker[w]
  BY <1>4, CheckEffect DEF Becomes, RunsNext
<1> QED
  BY <1>1, <1>2, <1>3, <1>4, WorkerMoves

LEMMA DocumentMoves ==
  ASSUME TypeOK, SweepersOK, Next, NEW d \in Documents
  PROVE  \/ document'[d] = document[d] /\ result'[d] = result[d]
         \/ \E w \in Workers : /\ AddDocument(w) /\ worker[w].doc = d
                               /\ document'[d] = "pending" /\ result' = result
         \/ \E w \in Workers : /\ EndIngestion(w) /\ Runs(w, "ingest", d)
                               /\ \/ document'[d] \in {"indexed", "review_needed"} /\ result'[d] = "ok"
                                  \/ document'[d] = "failed" /\ result'[d] = "raised"
<1>1. ASSUME NEW w \in Workers, AddDocument(w)
      PROVE  /\ result' = result
             /\ document'[d] = document[d] \/ (worker[w].doc = d /\ document'[d] = "pending")
  BY <1>1 DEF AddDocument, TypeOK
<1>2. ASSUME NEW w \in Workers, EndIngestion(w)
      PROVE  \/ document'[d] = document[d] /\ result'[d] = result[d]
             \/ /\ Runs(w, "ingest", d)
                /\ \/ document'[d] \in {"indexed", "review_needed"} /\ result'[d] = "ok"
                   \/ document'[d] = "failed" /\ result'[d] = "raised"
  BY <1>2 DEF EndIngestion, TypeOK, Runs, At
<1>3. ASSUME NEW w \in Workers, NEW c \in Coverages,
             NEW down \in SUBSET {Forms[i] : i \in DOMAIN Forms}, CheckCoverage(w, c, down)
      PROVE  document' = document /\ result' = result
  BY <1>3, CheckEffect DEF CheckCoverage
<1>4. {} \in SUBSET {Forms[i] : i \in DOMAIN Forms}
  OBVIOUS
<1> QED
  BY <1>1, <1>2, <1>3, <1>4 DEF Next, WorkerStep, Trouble, NewDay, Publish, UploadIngested,
     StartSweep, Run, SendIngestion, SendMonitor, Answered, IngestionRaised, TimesOut, AddTask,
     EndSweep, EndMonitor, DownloadFails, SweepStepFails, WorkerDies, Abandon

LEMMA TaskMoves ==
  ASSUME TypeOK, Next, NEW d \in Documents, task'[d] # task[d]
  PROVE  /\ task'[d] # "none" /\ result' = result
         /\ \E w \in Workers : worker[w].doc = d /\ (AddTask(w) \/ (EndMonitor(w) /\ Runs(w, "monitor", d)))
<1>1. ASSUME NEW w \in Workers, AddTask(w)
      PROVE  worker[w].doc = d /\ task'[d] # "none" /\ result' = result
  BY <1>1 DEF AddTask, TypeOK
<1>2. ASSUME NEW w \in Workers, EndMonitor(w)
      PROVE  /\ worker[w].doc = d /\ task'[d] # "none" /\ result' = result
             /\ Runs(w, "monitor", d)
  BY <1>2 DEF EndMonitor, TypeOK, Runs, At
<1>3. task' # task
  OBVIOUS
<1> QED
  BY <1>1, <1>2, <1>3 DEF Next, WorkerStep, Trouble, NewDay, Publish, UploadIngested,
     StartSweep, Run, CheckCoverage, AddDocument, SendIngestion, SendMonitor, Answered,
     IngestionRaised, TimesOut, EndSweep, EndIngestion, DownloadFails, SweepStepFails,
     WorkerDies, Abandon

(* The process that reaches a stage took the step to it.                   *)
LEMMA StageMoves ==
  ASSUME TypeOK, SweepersOK, Next, NEW w \in Workers, worker'[w] # worker[w]
  PROVE  /\ worker'[w].pc = "download" =>
                /\ worker[w].day \in Days /\ document' = document
                /\ \E f \in Filings : ~Known(f) /\ worker'[w].doc = <<f, worker[w].day>>
         /\ worker'[w].pc = "send" => AddDocument(w) /\ worker'[w].doc = worker[w].doc
         /\ worker'[w].pc = "dispatch" => Answered(w) /\ worker'[w].doc = worker[w].doc
         /\ worker'[w].pc = "enqueue" => AddTask(w) /\ worker'[w].doc = worker[w].doc
<1>1. ASSUME NEW v \in Workers, StartSweep(v) \/ Run(v) \/ LeavesFiling(v) \/ Stops(v)
      PROVE  worker'[w].pc \notin {"download", "send", "dispatch", "enqueue"}
  BY <1>1, StartEffect, RunEffect DEF LeavesFiling, Stops, Becomes
<1>2. ASSUME NEW v \in Workers, Proceeds(v)
      PROVE  /\ worker'[w].pc # "download" /\ v = w /\ worker'[w].doc = worker[w].doc
             /\ worker'[w].pc = "send" => AddDocument(w)
             /\ worker'[w].pc = "dispatch" => Answered(w)
             /\ worker'[w].pc = "enqueue" => AddTask(w)
  BY <1>2 DEF Proceeds, Becomes
<1>3. ASSUME NEW v \in Workers, NEW c \in Coverages,
             NEW down \in SUBSET {Forms[i] : i \in DOMAIN Forms}, CheckCoverage(v, c, down)
      PROVE  \/ worker'[w].pc = "check"
             \/ /\ worker'[w].pc = "download" /\ worker[w].day \in Days /\ document' = document
                /\ \E f \in Filings : ~Known(f) /\ worker'[w].doc = <<f, worker[w].day>>
  <2>1. v = w /\ worker[w].day \in Days
    BY <1>3, CheckEffect DEF Becomes, Sweeping, TypeOK, Worker, WorkerRecord
  <2> QED
    BY <1>3, <2>1, CheckEffect DEF Becomes
<1> QED
  BY <1>1, <1>2, <1>3, WorkerMoves

(* A filing is at one process only.                                        *)
LEMMA OneHolder ==
  ASSUME SweepersOK, OneSweepPerDay, NEW v \in Workers, NEW w \in Workers,
         Sweeping(v), Sweeping(w), worker[v].doc # Nil, worker[v].doc = worker[w].doc
  PROVE  v = w
<1>1. worker[v].day = worker[w].day
  BY DEF SweepersOK
<1> QED
  BY <1>1 DEF OneSweepPerDay

LEMMA StageSweeps ==
  ASSUME TypeOK, SweepersOK, NEW w \in Workers,
         worker[w].pc \in {"download", "send", "wait", "dispatch", "enqueue"}
  PROVE  Sweeping(w) /\ worker[w].doc \in Documents /\ worker[w].doc # Nil
  BY DEF SweepersOK, TypeOK, Worker, WorkerRecord

LEMMA RowsStep ==
  ASSUME TypeOK, SweepersOK, OneSweepPerDay, RowsAddedOnce, IngestionsOK, Next
  PROVE  RowsAddedOnce'
<1>1. ASSUME NEW f \in Filings, NEW i \in Days, document'[<<f, i>>] # "none"
      PROVE  /\ i <= today /\ ~SweepSent(i)
             /\ \A w \in Workers : worker[w].day = i => CoverageOf[f] \notin worker[w].todo
  <2> DEFINE d == <<f, i>>
  <2>1. d \in Documents /\ d[1] = f /\ d[2] = i
    BY DEF Documents
  <2>2. CASE document[d] # "none"
    BY <2>2 DEF RowsAddedOnce
  <2>3. CASE document[d] = "none"
    <3>1. PICK w \in Workers : AddDocument(w) /\ worker[w].doc = d
      BY <1>1, <2>1, <2>3, DocumentMoves DEF IngestionsOK, Carried
    <3>2. Sweeping(w) /\ worker[w].doc # Nil
      BY <3>1, StageSweeps DEF AddDocument, At
    <3>3. worker[w].day = i /\ CoverageOf[f] \notin worker[w].todo /\ i <= today /\ ~SweepSent(i)
      BY <2>1, <3>1, <3>2 DEF SweepersOK
    <3>4. \A v \in Workers : worker[v].day = i => v = w
      BY <3>2, <3>3 DEF OneSweepPerDay, Sweeping
    <3> QED
      BY <3>3, <3>4
  <2> QED
    BY <2>2, <2>3
<1>2. ASSUME NEW f \in Filings, NEW i \in Days, document'[<<f, i>>] # "none"
      PROVE  /\ i <= today' /\ ~SweepSentNext(i)
             /\ \A w \in Workers : worker'[w].day = i => CoverageOf[f] \notin worker'[w].todo
  <2>0. i \in Nat /\ i # 0
    BY DEF Days
  <2>1. i <= today' /\ i # today + 1
    BY <1>1, <1>2, <2>0, TodayGrows
  <2>2. ~SweepSentNext(i)
    BY <1>1, <1>2, <2>1, SweepMessages
  <2>3. ASSUME NEW w \in Workers, worker'[w].day = i PROVE CoverageOf[f] \notin worker'[w].todo
    BY <1>1, <1>2, <2>0, <2>3, SweepDays
  <2> QED
    BY <2>1, <2>2, <2>3
<1> QED
  BY <1>2 DEF RowsAddedOnce, SweepSent, SweepSentNext

LEMMA IngestionsStep ==
  ASSUME TypeOK, SweepersOK, IngestionsOK, StagesOK, Next
  PROVE  IngestionsOK'
<1>1. ASSUME NEW d \in Documents, CarriedNext(d)
      PROVE  document'[d] = "pending" /\ result'[d] = "none"
  <2>1. CASE Carried(d)
    <3>1. document[d] = "pending" /\ result[d] = "none"
      BY <2>1 DEF IngestionsOK
    <3>2. ASSUME NEW w \in Workers, EndIngestion(w), Runs(w, "ingest", d) PROVE FALSE
      <4>1. ~Sent("ingest", d) /\ \A v \in Workers : Runs(v, "ingest", d) => v = w
        BY <3>2 DEF IngestionsOK
      <4>2. queue' = queue
        BY <3>2 DEF EndIngestion
      <4>3. Stops(w)
        BY <3>2, StopEffect
      <4>4. ~RunsNext(w, "ingest", d) /\ \A v \in Workers \ {w} : worker'[v] = worker[v]
        BY <4>3 DEF Stops, Becomes, RunsNext
      <4> QED
        BY <1>1, <4>1, <4>2, <4>4 DEF CarriedNext, SentNext, Sent, RunsNext, Runs
    <3>3. ASSUME NEW w \in Workers, AddDocument(w), worker[w].doc = d PROVE FALSE
      BY <3>1, <3>3 DEF AddDocument, StagesOK
    <3> QED
      BY <3>1, <3>2, <3>3, DocumentMoves
  <2>2. CASE ~Carried(d)
    <3>1. PICK w \in Workers : worker[w].doc = d /\ SendIngestion(w)
      BY <1>1, <2>2, SentMoves, RunsMoves DEF CarriedNext, Carried
    <3> QED
      BY <3>1 DEF SendIngestion, StagesOK
  <2> QED
    BY <2>1, <2>2
<1>2. ASSUME NEW d \in Documents, SentNext("ingest", d), NEW w \in Workers,
             RunsNext(w, "ingest", d)
      PROVE  FALSE
  <2>1. worker'[w] = worker[w] /\ Runs(w, "ingest", d)
    BY <1>2, RunsMoves
  <2>2. ~Sent("ingest", d)
    BY <2>1 DEF IngestionsOK
  <2>3. PICK v \in Workers : worker[v].doc = d /\ SendIngestion(v)
    BY <1>2, <2>2, SentMoves
  <2> QED
    BY <2>1, <2>3 DEF SendIngestion, StagesOK, Carried
<1>3. ASSUME NEW d \in Documents, NEW v \in Workers, NEW w \in Workers,
             RunsNext(v, "ingest", d), RunsNext(w, "ingest", d), v # w
      PROVE  FALSE
  <2>1. Runs(v, "ingest", d) /\ Runs(w, "ingest", d)
    BY <1>3, RunsMoves DEF IngestionsOK, Runs, RunsNext
  <2> QED
    BY <1>3, <2>1 DEF IngestionsOK
<1>4. ASSUME NEW d \in Documents
      PROVE  /\ result'[d] = "ok" => document'[d] \in {"indexed", "review_needed"}
             /\ result'[d] = "raised" => document'[d] = "failed"
  <2>1. ASSUME NEW w \in Workers, AddDocument(w), worker[w].doc = d PROVE document[d] = "none"
    BY <2>1 DEF AddDocument, StagesOK
  <2> QED
    BY <2>1, DocumentMoves DEF IngestionsOK
<1>5. ASSUME NEW d \in Documents, result[d] = "ok" PROVE result'[d] = "ok"
  BY <1>5, DocumentMoves DEF IngestionsOK, Carried
<1>6. ASSUME NEW d \in Documents, task'[d] # "none" PROVE result'[d] = "ok"
  <2>1. result[d] = "ok"
    BY <1>6, TaskMoves DEF AddTask, StagesOK, At, IngestionsOK
  <2> QED
    BY <1>5, <2>1
<1>7. ASSUME NEW d \in Documents,
             SentNext("monitor", d) \/ \E w \in Workers : RunsNext(w, "monitor", d)
      PROVE  task'[d] # "none"
  <2>1. task[d] # "none"
    BY <1>7, SentMoves, RunsMoves DEF SendMonitor, StagesOK, IngestionsOK
  <2> QED
    BY <2>1, TaskMoves
<1>8. ASSUME NEW d \in Documents
      PROVE  /\ CarriedNext(d) => document'[d] = "pending" /\ result'[d] = "none"
             /\ SentNext("ingest", d) => \A w \in Workers : ~RunsNext(w, "ingest", d)
             /\ \A v, w \in Workers : RunsNext(v, "ingest", d) /\ RunsNext(w, "ingest", d) => v = w
             /\ result'[d] = "ok" => document'[d] \in {"indexed", "review_needed"}
             /\ result'[d] = "raised" => document'[d] = "failed"
             /\ task'[d] # "none" => result'[d] = "ok"
             /\ SentNext("monitor", d) \/ (\E w \in Workers : RunsNext(w, "monitor", d))
                    => task'[d] # "none"
  BY <1>1, <1>2, <1>3, <1>4, <1>6, <1>7
<1> QED
  BY <1>8 DEF IngestionsOK, CarriedNext, Carried, SentNext, Sent, RunsNext, Runs

LEMMA StagesStep ==
  ASSUME TypeOK, SweepersOK, OneSweepPerDay, IngestionsOK, StagesOK, Next
  PROVE  StagesOK'
<1> SUFFICES ASSUME NEW w \in Workers, NEW d, d = worker'[w].doc
             PROVE  /\ worker'[w].pc = "download" => document'[d] = "none"
                    /\ worker'[w].pc = "send" => /\ document'[d] = "pending" /\ result'[d] = "none"
                                                /\ ~CarriedNext(d)
                    /\ worker'[w].pc \in {"dispatch", "enqueue"} => result'[d] = "ok"
                    /\ worker'[w].pc = "enqueue" => task'[d] # "none"
  BY DEF StagesOK, At, CarriedNext, Carried, SentNext, Sent, RunsNext, Runs
<1>1. ASSUME NEW e \in Documents, result[e] = "ok" PROVE result'[e] = "ok"
  BY <1>1, DocumentMoves DEF IngestionsOK, Carried
<1>2. CASE worker'[w] = worker[w] /\ worker[w].pc \in {"download", "send", "dispatch", "enqueue"}
  <2>1. Sweeping(w) /\ d \in Documents /\ worker[w].doc = d /\ d # Nil
    BY <1>2, StageSweeps
  <2>2. ASSUME NEW v \in Workers, AddDocument(v) \/ SendIngestion(v), worker[v].doc = d
        PROVE  FALSE
    <3>1. Sweeping(v)
      BY <2>2, StageSweeps DEF AddDocument, SendIngestion, At
    <3>2. v = w
      BY <2>1, <2>2, <3>1, OneHolder
    <3>3. worker'[w].pc # worker[w].pc
      BY <2>1, <2>2, <3>2, ProceedEffect, GotoEffect DEF AddDocument, SendIngestion, At, Becomes
    <3> QED
      BY <1>2, <3>3
  <2>3. ~Carried(d) => /\ document'[d] = document[d] /\ result'[d] = result[d]
                       /\ ~CarriedNext(d)
    BY <2>1, <2>2, DocumentMoves, SentMoves, RunsMoves DEF Carried, CarriedNext
  <2>4. document[d] = "none" => ~Carried(d)
    BY <2>1 DEF IngestionsOK
  <2>5. CASE worker[w].pc \in {"download", "send"}
    <3>1. ~Carried(d)
      BY <2>1, <2>4, <2>5 DEF StagesOK, At
    <3>2. worker[w].pc = "download" => document[d] = "none"
      BY <2>1 DEF StagesOK, At
    <3>3. worker[w].pc = "send" => document[d] = "pending" /\ result[d] = "none"
      BY <2>1 DEF StagesOK, At
    <3> QED
      BY <1>2, <2>3, <2>5, <3>1, <3>2, <3>3
  <2>6. CASE worker[w].pc \in {"dispatch", "enqueue"}
    <3>1. result'[d] = "ok"
      BY <1>1, <2>1, <2>6 DEF StagesOK
    <3>2. worker[w].pc = "enqueue" => task'[d] # "none"
      BY <2>1, TaskMoves DEF StagesOK, At
    <3> QED
      BY <1>2, <2>6, <3>1, <3>2
  <2> QED
    BY <1>2, <2>5, <2>6
<1>3. CASE worker'[w] # worker[w] /\ worker'[w].pc = "download"
  <2>1. PICK f \in Filings : ~Known(f) /\ d = <<f, worker[w].day>>
    BY <1>3, StageMoves
  <2> QED
    BY <1>3, <2>1, StageMoves DEF Known
<1>4. CASE worker'[w] # worker[w] /\ worker'[w].pc = "send"
  <2>1. AddDocument(w) /\ worker[w].doc = d
    BY <1>4, StageMoves
  <2>2. d \in Documents
    BY <2>1, ProceedEffect
  <2>3. document[d] = "none" /\ ~Carried(d) /\ result[d] = "none"
    BY <2>1, <2>2 DEF AddDocument, StagesOK, IngestionsOK, TypeOK
  <2>4. document'[d] = "pending" /\ result' = result /\ queue' = queue
    BY <2>1, <2>2 DEF AddDocument, TypeOK
  <2>5. ~CarriedNext(d)
    <3>1. ASSUME NEW v \in Workers, RunsNext(v, "ingest", d) PROVE Carried(d)
      BY <2>2, <3>1, RunsMoves DEF Carried
    <3> QED
      BY <2>3, <2>4, <3>1 DEF CarriedNext, Carried, SentNext, Sent
  <2> QED
    BY <1>4, <2>3, <2>4, <2>5
<1>5. CASE worker'[w] # worker[w] /\ worker'[w].pc = "dispatch"
  <2>1. Answered(w) /\ worker[w].doc = d
    BY <1>5, StageMoves
  <2> QED
    BY <1>5, <2>1 DEF Answered
<1>6. CASE worker'[w] # worker[w] /\ worker'[w].pc = "enqueue"
  <2>1. AddTask(w) /\ worker[w].doc = d
    BY <1>6, StageMoves
  <2>2. d \in Documents
    BY <2>1, ProceedEffect
  <2>3. result'[d] = "ok"
    BY <1>1, <2>1, <2>2 DEF AddTask, At, StagesOK
  <2>4. task'[d] = "queued"
    BY <2>1, <2>2 DEF AddTask, TypeOK
  <2> QED
    BY <1>6, <2>3, <2>4
<1> QED
  BY <1>2, <1>3, <1>4, <1>5, <1>6

LEMMA OverlapStays == ASSUME TypeOK, Next PROVE overlapped => overlapped'
  BY DEF Next, WorkerStep, Trouble, NewDay, Publish, UploadIngested, StartSweep, Run,
     CheckCoverage, SendIngestion, SendMonitor, AddDocument, Answered, IngestionRaised,
     TimesOut, AddTask, EndSweep, EndIngestion, EndMonitor, DownloadFails, SweepStepFails,
     WorkerDies, Abandon, history

LEMMA AloneStep ==
  ASSUME TypeOK, SweepersOK, OneSweepPerDay, IngestionsOK, AloneUntilOverlap, Next
  PROVE  AloneUntilOverlap'
<1> SUFFICES ASSUME ~overlapped'
             PROVE  /\ \A v, w \in Workers : worker'[v].day # 0 /\ worker'[w].day # 0 => v = w
                    /\ \A w \in Workers : worker'[w].pc = "download" =>
                          \A i \in Days : document'[<<worker'[w].doc[1], i>>] = "none"
  BY DEF AloneUntilOverlap, Sweeping, At, Known
<1>1. ~overlapped /\ \A v, w \in Workers : Sweeping(v) /\ Sweeping(w) => v = w
  BY OverlapStays DEF AloneUntilOverlap
<1>2. ASSUME NEW w \in Workers, StartSweep(w), NEW v \in Workers PROVE ~Sweeping(v)
  BY <1>2 DEF StartSweep
<1>3. ASSUME NEW v \in Workers, NEW w \in Workers, worker'[v].day # 0, worker'[w].day # 0, v # w
      PROVE  FALSE
  <2>1. ASSUME NEW x \in Workers, NEW y \in Workers, x # y, StartSweep(x), worker'[y].day # 0
        PROVE  FALSE
    <3>1. worker'[y] = worker[y]
      BY <2>1, StartEffect DEF Becomes
    <3> QED
      BY <1>2, <2>1, <3>1 DEF Sweeping
  <2>2. worker'[v].day = worker[v].day /\ worker'[w].day = worker[w].day
    BY <1>3, <2>1, SweepDays
  <2> QED
    BY <1>1, <1>3, <2>2 DEF Sweeping
<1>4. ASSUME NEW w \in Workers, worker'[w].pc = "download", NEW i \in Days
      PROVE  document'[<<worker'[w].doc[1], i>>] = "none"
  <2>1. CASE worker'[w] = worker[w]
    <3> DEFINE f == worker[w].doc[1]
    <3>1. Sweeping(w) /\ f \in Filings
      BY <1>4, <2>1, StageSweeps DEF Documents
    <3>2. document[<<f, i>>] = "none" /\ <<f, i>> \in Documents
      BY <1>1, <1>4, <2>1, <3>1 DEF AloneUntilOverlap, At, Known, Documents
    <3>3. ASSUME NEW v \in Workers, AddDocument(v) PROVE FALSE
      <4>1. v = w
        BY <1>1, <3>1, <3>3, StageSweeps DEF AddDocument, At
      <4>2. Proceeds(w) /\ At(w, "download")
        BY <3>3, <4>1, ProceedEffect DEF AddDocument
      <4> QED
        BY <1>4, <4>2 DEF Proceeds, Becomes
    <3> HIDE DEF f
    <3>4. document'[<<f, i>>] = document[<<f, i>>]
      BY <3>2, <3>3, DocumentMoves DEF IngestionsOK, Carried
    <3> QED
      BY <2>1, <3>2, <3>4 DEF f
  <2>2. CASE worker'[w] # worker[w]
    <3>1. PICK f \in Filings : ~Known(f) /\ worker'[w].doc = <<f, worker[w].day>>
      BY <1>4, <2>2, StageMoves
    <3>2. worker'[w].doc[1] = f /\ document' = document
      BY <1>4, <2>2, <3>1, StageMoves
    <3> QED
      BY <3>1, <3>2 DEF Known
  <2> QED
    BY <2>1, <2>2
<1> QED
  BY <1>3, <1>4

LEMMA TwoRowsStep ==
  ASSUME TypeOK, SweepersOK, IngestionsOK, AloneUntilOverlap, TwoRowsNeedOverlap, Next
  PROVE  TwoRowsNeedOverlap'
<1>1. ASSUME NEW f \in Filings, NEW i \in Days, NEW j \in Days, i # j, ~overlapped',
             document[<<f, i>>] = "none", document'[<<f, i>>] # "none",
             document'[<<f, j>>] # "none"
      PROVE  FALSE
  <2>1. /\ <<f, i>> \in Documents /\ <<f, j>> \in Documents /\ <<f, i>> # <<f, j>>
        /\ \A d \in Documents : Carried(d) => document[d] # "none"
    BY <1>1 DEF Documents, IngestionsOK
  <2>2. PICK w \in Workers : AddDocument(w) /\ worker[w].doc = <<f, i>>
    BY <1>1, <2>1, DocumentMoves DEF Carried
  <2>3. document'[<<f, j>>] = document[<<f, j>>]
    BY <2>1, <2>2 DEF AddDocument, TypeOK
  <2>4. ~Known(f)
    BY <1>1, <2>2, OverlapStays DEF AloneUntilOverlap, AddDocument
  <2> QED
    BY <1>1, <2>3, <2>4 DEF Known
<1>2. ASSUME NEW f \in Filings, NEW i \in Days, NEW j \in Days, i # j, ~overlapped',
             document'[<<f, i>>] # "none", document'[<<f, j>>] # "none"
      PROVE  FALSE
  <2>1. document[<<f, i>>] # "none" /\ document[<<f, j>>] # "none"
    BY <1>1, <1>2
  <2> QED
    BY <1>2, <2>1, OverlapStays DEF TwoRowsNeedOverlap
<1> QED
  BY <1>2 DEF TwoRowsNeedOverlap

(* A sweep leaves a filing whose row it added with the monitor sent, or    *)
(* abandons it.                                                            *)
LEMMA HolderMoves ==
  ASSUME TypeOK, SweepersOK, StagesOK, Next, NEW w \in Workers, Sweeping(w),
         NEW d \in Documents, worker[w].doc = d, document[d] # "none", task[d] = "none"
  PROVE  d \in abandoned' \/ (worker'[w].day # 0 /\ worker'[w].doc = d)
<1>0. d # Nil /\ worker[w].pc \notin {"idle", "check", "ingest", "monitor"}
      /\ d = <<d[1], d[2]>>
  BY ConstantsOK DEF Documents, TypeOK, Worker, SweepersOK
<1>1. CASE worker'[w] = worker[w]
  BY <1>1 DEF Sweeping
<1>2. ASSUME NEW v \in Workers, StartSweep(v) \/ Run(v) \/ EndSweep(v) \/ EndIngestion(v) \/ EndMonitor(v)
      PROVE  worker'[w] = worker[w]
  <2>1. v # w
    BY <1>0, <1>2 DEF StartSweep, Run, EndSweep, EndIngestion, EndMonitor, At
  <2> QED
    BY <1>2, <2>1, StartEffect, RunEffect, StopEffect DEF Stops, Becomes
<1>3. ASSUME NEW v \in Workers, NEW c \in Coverages,
             NEW down \in SUBSET {Forms[i] : i \in DOMAIN Forms}, CheckCoverage(v, c, down)
      PROVE  worker'[w] = worker[w]
  BY <1>0, <1>3, CheckEffect DEF Becomes, At
<1>4. ASSUME NEW v \in Workers, AddDocument(v) \/ SendIngestion(v) \/ Answered(v) \/ AddTask(v)
      PROVE  worker'[w].day # 0 /\ worker'[w].doc = d
  BY <1>4, ProceedEffect DEF Proceeds, Becomes, Sweeping
<1>5. ASSUME NEW v \in Workers, DownloadFails(v) \/ SendMonitor(v) PROVE worker'[w] = worker[w]
  <2>1. v # w
    BY <1>5 DEF DownloadFails, SendMonitor, StagesOK, At
  <2> QED
    BY <1>5, <2>1, LeaveEffect DEF LeavesFiling, Becomes
<1>6. ASSUME NEW v \in Workers, IngestionRaised(v) \/ TimesOut(v) \/ SweepStepFails(v)
      PROVE  d \in abandoned' \/ worker'[w] = worker[w]
  <2>1. CASE v = w
    BY <1>6, <2>1 DEF IngestionRaised, TimesOut, SweepStepFails, Abandon
  <2> QED
    BY <1>6, <2>1, LeaveEffect DEF LeavesFiling, Becomes
<1>7. ASSUME NEW v \in Workers, WorkerDies(v)
      PROVE  d \in abandoned' \/ worker'[w] = worker[w]
  <2>1. CASE v = w
    BY <1>0, <1>7, <2>1 DEF WorkerDies
  <2> QED
    BY <1>7, <2>1, StopEffect DEF Stops, Becomes
<1>8. NewDay \/ (\E f : Publish(f) \/ UploadIngested(f)) => worker' = worker
  BY DEF NewDay, Publish, UploadIngested
<1>9. {} \in SUBSET {Forms[i] : i \in DOMAIN Forms}
  OBVIOUS
<1> QED
  BY <1>1, <1>2, <1>3, <1>4, <1>5, <1>6, <1>7, <1>8, <1>9 DEF Next, WorkerStep, Trouble

LEMMA MonitoredStep ==
  ASSUME TypeOK, SweepersOK, IngestionsOK, StagesOK, KnownIsMonitored, Next
  PROVE  KnownIsMonitored'
<1>1. ASSUME NEW d \in Documents, document'[d] # "none", task'[d] = "none"
      PROVE  d \in abandoned' \/ \E w \in Workers : worker'[w].day # 0 /\ worker'[w].doc = d
  <2>1. task[d] = "none"
    BY <1>1, TaskMoves
  <2>2. CASE document[d] = "none"
    <3>1. PICK w \in Workers : AddDocument(w) /\ worker[w].doc = d
      BY <1>1, <2>2, DocumentMoves DEF IngestionsOK, Carried
    <3>2. Sweeping(w)
      BY <3>1, StageSweeps DEF AddDocument, At
    <3> QED
      BY <3>1, <3>2, ProceedEffect DEF Proceeds, Becomes, Sweeping
  <2>3. CASE document[d] # "none"
    <3>1. abandoned \subseteq abandoned'
      BY DEF Next, WorkerStep, Trouble, NewDay, Publish, UploadIngested, StartSweep, Run,
         CheckCoverage, SendIngestion, SendMonitor, AddDocument, Answered, IngestionRaised,
         TimesOut, AddTask, EndSweep, EndIngestion, EndMonitor, DownloadFails, SweepStepFails,
         WorkerDies, Abandon, history
    <3>2. d \in abandoned \/ \E w \in Workers : Sweeping(w) /\ worker[w].doc = d
      BY <2>1, <2>3 DEF KnownIsMonitored
    <3> QED
      BY <2>1, <2>3, <3>1, <3>2, HolderMoves
  <2> QED
    BY <2>2, <2>3
<1> QED
  BY <1>1 DEF KnownIsMonitored, Sweeping

LEMMA FilingInvariant == Spec => []FilingInv
<1>1. Init => FilingInv
  <2> SUFFICES ASSUME Init PROVE FilingInv
    OBVIOUS
  <2>1. \A w \in Workers : /\ worker[w].pc = "idle" /\ worker[w].day = 0
                            /\ worker[w].doc = Nil /\ worker[w].todo = {}
    BY DEF Init, Idle
  <2>2. SweepersOK /\ OneSweepPerDay
    BY <2>1 DEF Init, SweepersOK, OneSweepPerDay, Sweeping, SweepSent
  <2>3. \A d \in Documents : document[d] = "none" /\ result[d] = "none" /\ task[d] = "none"
    BY DEF Init
  <2>4. \A f \in Filings, i \in Days : document[<<f, i>>] = "none"
    BY <2>3 DEF Documents
  <2>5. IngestionsOK /\ StagesOK
    BY <2>1, <2>3 DEF Init, IngestionsOK, StagesOK, Carried, Sent, Runs, At
  <2>6. RowsAddedOnce /\ AloneUntilOverlap /\ KnownIsMonitored /\ TwoRowsNeedOverlap
    BY <2>1, <2>3, <2>4 DEF RowsAddedOnce, AloneUntilOverlap, KnownIsMonitored,
       TwoRowsNeedOverlap, Sweeping, At
  <2> QED
    BY <2>2, <2>5, <2>6, TypeInit DEF FilingInv, SweepInv
<1>2. FilingInv /\ [Next]_vars => FilingInv'
  <2>1. ASSUME FilingInv, Next PROVE FilingInv'
    BY <2>1, TypeStep, SweepersStep, OneSweepStep, RowsStep, IngestionsStep, StagesStep,
       AloneStep, TwoRowsStep, MonitoredStep DEF FilingInv, SweepInv
  <2>2. ASSUME FilingInv, UNCHANGED vars PROVE FilingInv'
    BY <2>2 DEF FilingInv, SweepInv, TypeOK, SweepersOK, OneSweepPerDay, RowsAddedOnce,
       IngestionsOK, StagesOK, AloneUntilOverlap, KnownIsMonitored, TwoRowsNeedOverlap,
       Sweeping, SweepSent, Sent, Runs, Carried, At, Known, vars, history
  <2> QED
    BY <2>1, <2>2
<1> QED
  BY <1>1, <1>2, PTL DEF Spec

(***************************************************************************)
(* The theorems.                                                           *)
(***************************************************************************)

(* Every variable keeps its type: a process has a document exactly while   *)
(* it is at a filing, an ingestion or a monitor.                           *)
THEOREM TypeCorrect == Spec => []TypeOK
<1>1. FilingInv => TypeOK
  BY DEF FilingInv, SweepInv
<1> QED
  BY <1>1, FilingInvariant, PTL

(* No filing is swallowed: a filing with a row but no monitor task is in   *)
(* the hands of its sweep, or that sweep ended early.                      *)
THEOREM NoFilingSwallowed == Spec => []KnownIsMonitored
<1>1. FilingInv => KnownIsMonitored
  BY DEF FilingInv
<1> QED
  BY <1>1, FilingInvariant, PTL

(* However many sweeps and processes: a filing gets two rows only if two   *)
(* sweeps were under way at once.                                          *)
THEOREM TwoRowsOnlyByOverlap == Spec => []TwoRowsNeedOverlap
<1>1. FilingInv => TwoRowsNeedOverlap
  BY DEF FilingInv
<1> QED
  BY <1>1, FilingInvariant, PTL

(* The earnings monitor of a filing is dispatched only once its ingestion  *)
(* is over, for one ingestion is sent, and its result awaited.             *)
THEOREM MonitorComesAfter == Spec => []MonitorFollowsIngestion
<1>1. FilingInv => MonitorFollowsIngestion
  BY DEF FilingInv, IngestionsOK, MonitorFollowsIngestion
<1> QED
  BY <1>1, FilingInvariant, PTL
=============================================================================
