------------------------------ MODULE Scheduler ------------------------------
(***************************************************************************)
(* The daily sweep for new SEC filings (tasks/scheduler.py): Celery beat   *)
(* sends check_for_new_filings once a day; a worker process that runs it   *)
(* looks at EDGAR for every active coverage, adds a document row for a new *)
(* filing, sends its ingestion to the pool it runs in, blocks until that   *)
(* has ended, and dispatches the earnings monitor.                         *)
(*                                                                         *)
(* Ingestion and run_agent_task are the modules Ingestion and AgentTasks;  *)
(* here they are what a sweep sees of them.                                *)
(***************************************************************************)
EXTENDS Integers, FiniteSets

CONSTANTS
    Filings,     \* 10-Qs and 10-Ks of the covered companies
    Coverages,   \* active coverages
    CoverageOf, FormOf,   \* of each filing
    Uploading,   \* coverages to which analysts upload documents
    Workers,     \* processes of the worker pool
    MaxDays,     \* bound on days
    MaxFaults,   \* bound on I/O errors, timeouts and worker deaths
    Nil

\* The order in which the forms are listed.
Forms == <<"10-Q", "10-K">>
Days == 1 .. MaxDays

ASSUME ConstantsOK ==
    /\ MaxDays \in Nat /\ MaxFaults \in Nat
    /\ Uploading \subseteq Coverages
    /\ CoverageOf \in [Filings -> Coverages]
    /\ FormOf \in [Filings -> {Forms[i] : i \in DOMAIN Forms}]
    /\ Nil \notin Filings \X Days

VARIABLES
    today,
    filed,        \* the day a filing appears on EDGAR under, 0 before
    lastUpdated,  \* coverages.last_updated, 0 for NULL
    document,     \* ingest_status of the row a sweep adds for a filing
    queue,        \* Celery messages not yet taken
    worker,       \* what each process runs
    result,       \* what the result backend holds of an ingestion
    task,         \* the earnings_monitor row of task_queue
    abandoned,    \* documents whose sweep ended early
    overlapped,   \* two sweeps were under way at once
    left,         \* new filings left for the next sweep
    missed,       \* those among them a later sweep no longer saw
    faults

history == <<abandoned, overlapped, left, missed>>
vars == <<today, filed, lastUpdated, document, queue, worker, result, task, history, faults>>

-----------------------------------------------------------------------------

\* A sweep runs once a day, so its day names it, and the row it adds for a
\* filing is named by both.
Documents == Filings \X Days

DocStatus == {"none", "pending", "indexed", "review_needed", "failed"}
TaskRow == {"none", "queued", "completed", "failed"}
Message == [kind : {"sweep"}, day : Days] \cup [kind : {"ingest", "monitor"}, doc : Documents]

\* loaded: the last_updated values the sweep copied at its start.
WorkerRecord == [
    pc : {"idle", "check", "download", "send", "wait", "dispatch", "enqueue", "ingest", "monitor"},
    day : Days \cup {0}, todo : SUBSET Coverages, loaded : [Coverages -> 0 .. MaxDays],
    doc : Documents \cup {Nil}]

\* A sweep at a filing, an ingestion and a monitor have their document.
Worker == {x \in WorkerRecord : x.doc = Nil <=> x.pc \in {"idle", "check"}}

Never == [c \in Coverages |-> 0]
Idle == [pc |-> "idle", day |-> 0, todo |-> {}, loaded |-> Never, doc |-> Nil]

Sweeping(w) == worker[w].day # 0
At(w, pc) == worker[w].pc = pc
Fault == faults < MaxFaults /\ faults' = faults + 1

Init ==
    /\ today = 0
    /\ filed = [f \in Filings |-> 0]
    /\ lastUpdated = Never
    /\ document = [d \in Documents |-> "none"]
    /\ queue = {}
    /\ worker = [w \in Workers |-> Idle]
    /\ result = [d \in Documents |-> "none"]
    /\ task = [d \in Documents |-> "none"]
    /\ abandoned = {} /\ overlapped = FALSE /\ left = {} /\ missed = {}
    /\ faults = 0

-----------------------------------------------------------------------------
(* Days, EDGAR, and the rest of the system.                                *)

\* 6:00: beat sends the sweep whether or not the last one is over.
NewDay ==
    /\ today < MaxDays
    /\ today' = today + 1
    /\ queue' = queue \cup {[kind |-> "sweep", day |-> today']}
    /\ UNCHANGED <<filed, lastUpdated, document, worker, result, task, history, faults>>

Publish(f) ==
    /\ today > 0 /\ filed[f] = 0
    /\ filed' = [filed EXCEPT ![f] = today]
    /\ UNCHANGED <<today, lastUpdated, document, queue, worker, result, task, history, faults>>

\* Any other document of the coverage is ingested, say one an analyst uploads.
UploadIngested(c) ==
    /\ c \in Uploading /\ today > lastUpdated[c]
    /\ lastUpdated' = [lastUpdated EXCEPT ![c] = today]
    /\ UNCHANGED <<today, filed, document, queue, worker, result, task, history, faults>>

-----------------------------------------------------------------------------
(* check_for_new_filings.                                                  *)

StartSweep(w) ==
    /\ At(w, "idle")
    /\ \E m \in queue :
        /\ m.kind = "sweep"
        /\ queue' = queue \ {m}
        /\ worker' = [worker EXCEPT ![w] = [Idle EXCEPT !.pc = "check", !.day = m.day,
                                               !.todo = Coverages, !.loaded = lastUpdated]]
    /\ overlapped' = (overlapped \/ \E v \in Workers : Sweeping(v))
    /\ UNCHANGED <<today, filed, lastUpdated, document, result, task, abandoned, left, missed, faults>>

\* Mutant: the sweep still holds the last filing.
KeepDocument(w) == worker' = [worker EXCEPT ![w].pc = "check"]

NextCoverage(w) == worker' = [worker EXCEPT ![w].pc = "check", ![w].doc = Nil]

\* Mutant: only what has been ingested counts as known.
KnownIfIndexed(f) == \E day \in Days : document[<<f, day>>] = "indexed"

\* existing_urls: the filing has a document row, whatever became of it.
Known(f) == \E day \in Days : document[<<f, day>>] # "none"

\* The filings of a form that count as new, by the copied cutoff.
NewFilings(w, c, form) ==
    {f \in Filings : /\ CoverageOf[f] = c /\ FormOf[f] = form /\ filed[f] # 0
                     /\ ~Known(f) /\ filed[f] > worker[w].loaded[c]}

\* The first form that has new filings decides; the newest comes first.
Candidates(w, c, down) ==
    LET forms == {i \in DOMAIN Forms : Forms[i] \notin down /\ NewFilings(w, c, Forms[i]) # {}}
        new == IF forms = {} THEN {}
               ELSE NewFilings(w, c, Forms[CHOOSE i \in forms : \A j \in forms : i <= j])
    IN {f \in new : \A g \in new : filed[g] <= filed[f]}

\* Mutant: the row is added before the download.
FoundAndRecorded(w, f) ==
    LET d == <<f, worker[w].day>>
    IN /\ worker' = [worker EXCEPT ![w].pc = "download", ![w].doc = d,
                                   ![w].todo = @ \ {CoverageOf[f]}]
       /\ document' = [document EXCEPT ![d] = "pending"]

Found(w, f) ==
    /\ worker' = [worker EXCEPT ![w].pc = "download", ![w].doc = <<f, worker[w].day>>,
                                ![w].todo = @ \ {CoverageOf[f]}]
    /\ UNCHANGED document

AllNew(w, c) == UNION {NewFilings(w, c, Forms[i]) : i \in DOMAIN Forms}

\* _check_coverage up to its choice. A form that cannot be listed is skipped.
CheckCoverage(w, c, down) ==
    /\ At(w, "check") /\ c \in worker[w].todo
    /\ faults' = faults + Cardinality(down) /\ faults' <= MaxFaults
    /\ \/ \E f \in Candidates(w, c, down) :
            /\ Found(w, f)
            /\ left' = left \cup (AllNew(w, c) \ {f})
            /\ UNCHANGED missed
       \/ /\ Candidates(w, c, down) = {}
          /\ worker' = [worker EXCEPT ![w].todo = @ \ {c}]
          /\ missed' = missed \cup {f \in left : CoverageOf[f] = c /\ ~Known(f) /\ down = {}}
          /\ UNCHANGED <<document, left>>
    /\ UNCHANGED <<today, filed, lastUpdated, queue, result, task, abandoned, overlapped>>

\* download_to_minio reports the error, and the coverage is left as it was.
DownloadFails(w) ==
    /\ At(w, "download")
    /\ Fault
    /\ NextCoverage(w)
    /\ UNCHANGED <<today, filed, lastUpdated, document, queue, result, task, history>>

AddDocument(w) ==
    /\ At(w, "download")
    /\ document' = [document EXCEPT ![worker[w].doc] = "pending"]
    /\ worker' = [worker EXCEPT ![w].pc = "send"]
    /\ UNCHANGED <<today, filed, lastUpdated, queue, result, task, history, faults>>

\* Mutant: the monitor is dispatched without waiting for the ingestion.
SendAndGoOn(w) ==
    /\ At(w, "send")
    /\ queue' = queue \cup {[kind |-> "ingest", doc |-> worker[w].doc]}
    /\ worker' = [worker EXCEPT ![w].pc = "dispatch"]
    /\ UNCHANGED <<today, filed, lastUpdated, document, result, task, history, faults>>

SendIngestion(w) ==
    /\ At(w, "send")
    /\ queue' = queue \cup {[kind |-> "ingest", doc |-> worker[w].doc]}
    /\ worker' = [worker EXCEPT ![w].pc = "wait"]
    /\ UNCHANGED <<today, filed, lastUpdated, document, result, task, history, faults>>

Answered(w) ==
    /\ At(w, "wait") /\ result[worker[w].doc] = "ok"
    /\ worker' = [worker EXCEPT ![w].pc = "dispatch"]
    /\ UNCHANGED <<today, filed, lastUpdated, document, queue, result, task, history, faults>>

\* An exception leaves _ingest_and_monitor; the sweep goes on with the next
\* coverage.
Abandon(w) ==
    /\ abandoned' = abandoned \cup {worker[w].doc}
    /\ NextCoverage(w)
    /\ UNCHANGED <<today, filed, lastUpdated, document, queue, result, task, overlapped, left, missed>>

IngestionRaised(w) ==
    /\ At(w, "wait") /\ result[worker[w].doc] = "raised"
    /\ Abandon(w)
    /\ UNCHANGED faults

\* Mutant: get() without a timeout.
NeverTimesOut(w) == FALSE

TimesOut(w) ==
    /\ At(w, "wait") /\ result[worker[w].doc] = "none"
    /\ Abandon(w)
    /\ UNCHANGED faults

\* The broker or the database fails.
SweepStepFails(w) ==
    /\ worker[w].pc \in {"send", "dispatch", "enqueue"}
    /\ Fault
    /\ Abandon(w)

AddTask(w) ==
    /\ At(w, "dispatch")
    /\ task' = [task EXCEPT ![worker[w].doc] = "queued"]
    /\ worker' = [worker EXCEPT ![w].pc = "enqueue"]
    /\ UNCHANGED <<today, filed, lastUpdated, document, queue, result, history, faults>>

\* apply_async; the write of celery_task_id that follows changes nothing here.
SendMonitor(w) ==
    /\ At(w, "enqueue")
    /\ queue' = queue \cup {[kind |-> "monitor", doc |-> worker[w].doc]}
    /\ NextCoverage(w)
    /\ UNCHANGED <<today, filed, lastUpdated, document, result, task, history, faults>>

EndSweep(w) ==
    /\ At(w, "check") /\ worker[w].todo = {}
    /\ worker' = [worker EXCEPT ![w] = Idle]
    /\ UNCHANGED <<today, filed, lastUpdated, document, queue, result, task, history, faults>>

-----------------------------------------------------------------------------
(* The tasks a sweep sends, run by the same pool.                          *)

Run(w) ==
    /\ At(w, "idle")
    /\ \E m \in queue :
        /\ m.kind # "sweep"
        /\ queue' = queue \ {m}
        /\ worker' = [worker EXCEPT ![w] = [Idle EXCEPT !.pc = m.kind, !.doc = m.doc]]
    /\ UNCHANGED <<today, filed, lastUpdated, document, result, task, history, faults>>

\* _finalize_success moves last_updated; a duplicate or a file with too little
\* text is set aside without an exception; after the last retry the task raises.
EndIngestion(w) ==
    /\ At(w, "ingest")
    /\ LET d == worker[w].doc
       IN \/ /\ document' = [document EXCEPT ![d] = "indexed"]
             /\ lastUpdated' = [lastUpdated EXCEPT ![CoverageOf[d[1]]] = today]
             /\ result' = [result EXCEPT ![d] = "ok"]
             /\ UNCHANGED faults
          \/ /\ document' = [document EXCEPT ![d] = "review_needed"]
             /\ result' = [result EXCEPT ![d] = "ok"]
             /\ UNCHANGED <<lastUpdated, faults>>
          \/ /\ Fault
             /\ document' = [document EXCEPT ![d] = "failed"]
             /\ result' = [result EXCEPT ![d] = "raised"]
             /\ UNCHANGED lastUpdated
    /\ worker' = [worker EXCEPT ![w] = Idle]
    /\ UNCHANGED <<today, filed, queue, task, history>>

\* A document that is not indexed fails the monitor's prerequisites, and the
\* task completes; otherwise see AgentTasks. It does not raise in either case.
EndMonitor(w) ==
    /\ At(w, "monitor")
    /\ LET d == worker[w].doc
       IN \E row \in {"completed"} \cup IF document[d] = "indexed" THEN {"failed"} ELSE {} :
            task' = [task EXCEPT ![d] = row]
    /\ worker' = [worker EXCEPT ![w] = Idle]
    /\ UNCHANGED <<today, filed, lastUpdated, document, queue, result, history, faults>>

\* A killed process; its message was acknowledged when the task started.
WorkerDies(w) ==
    /\ ~At(w, "idle")
    /\ Fault
    /\ worker' = [worker EXCEPT ![w] = Idle]
    /\ abandoned' = IF Sweeping(w) /\ worker[w].doc # Nil
                    THEN abandoned \cup {worker[w].doc} ELSE abandoned
    /\ UNCHANGED <<today, filed, lastUpdated, document, queue, result, task, overlapped, left, missed>>

-----------------------------------------------------------------------------

WorkerStep(w) ==
    \/ StartSweep(w)
    \/ \E c \in Coverages : CheckCoverage(w, c, {})
    \/ AddDocument(w) \/ SendIngestion(w)
    \/ Answered(w) \/ IngestionRaised(w) \/ TimesOut(w)
    \/ AddTask(w) \/ SendMonitor(w) \/ EndSweep(w)
    \/ Run(w) \/ EndIngestion(w) \/ EndMonitor(w)

Trouble(w) ==
    \/ \E c \in Coverages, down \in SUBSET {Forms[i] : i \in DOMAIN Forms} \ {{}} :
         CheckCoverage(w, c, down)
    \/ DownloadFails(w) \/ SweepStepFails(w) \/ WorkerDies(w)

Next ==
    \/ NewDay
    \/ \E f \in Filings : Publish(f)
    \/ \E c \in Coverages : UploadIngested(c)
    \/ \E w \in Workers : WorkerStep(w) \/ Trouble(w)

Spec == Init /\ [][Next]_vars

\* A live process goes on with its task, and the pool takes messages.
FairSpec == Spec /\ \A w \in Workers : WF_vars(WorkerStep(w))

-----------------------------------------------------------------------------
(* Properties.                                                             *)

TypeOK ==
    /\ today \in 0 .. MaxDays
    /\ filed \in [Filings -> 0 .. MaxDays]
    /\ lastUpdated \in [Coverages -> 0 .. MaxDays]
    /\ document \in [Documents -> DocStatus]
    /\ queue \subseteq Message
    /\ worker \in [Workers -> Worker]
    /\ result \in [Documents -> {"none", "ok", "raised"}]
    /\ task \in [Documents -> TaskRow]
    /\ abandoned \subseteq Documents
    /\ overlapped \in BOOLEAN
    /\ left \subseteq Filings /\ missed \subseteq Filings
    /\ faults \in 0 .. MaxFaults

\* A filing with a document row is known and never looked at again. So a row
\* whose monitor was not dispatched is still in the hands of its sweep, or that
\* sweep ended early: nothing else may swallow a filing.
KnownIsMonitored ==
    \A d \in Documents :
        document[d] # "none" /\ task[d] = "none" =>
            d \in abandoned \/ \E w \in Workers : Sweeping(w) /\ worker[w].doc = d

\* source_url has no unique constraint: only two sweeps at once, say both sent
\* while the workers were down, give one filing two rows.
TwoRowsNeedOverlap ==
    \A f \in Filings, i, j \in Days :
        document[<<f, i>>] # "none" /\ document[<<f, j>>] # "none" /\ i # j => overlapped

\* The monitor needs the filing's chunks: when its task is created, the
\* ingestion is over, whichever way it ended.
MonitorFollowsIngestion ==
    \A d \in Documents : task[d] # "none" => document[d] \notin {"none", "pending", "failed"}

\* A sweep ends, although it waits for a task that needs a process of the same
\* pool, and every process may be in a sweep.
SweepsEnd == \A w \in Workers : Sweeping(w) ~> ~Sweeping(w)

\* scheduler.py:151-153: one new filing per sweep is enough, a second one "is
\* picked up on tomorrow's run".
SecondIsPickedUp == overlapped \/ missed = {}
=============================================================================
