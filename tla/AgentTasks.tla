----------------------------- MODULE AgentTasks -----------------------------
(***************************************************************************)
(* Agent tasks and their live stream: dispatch_task                        *)
(* (orchestrator/tools.py), the Celery task run_agent_task                 *)
(* (orchestrator/tasks.py) with the database session it lends to the       *)
(* agent, the Redis channel of the task (shared/streaming.py), the         *)
(* websocket handler (routers/tasks.py) and the browser's hook             *)
(* (use-task-stream.ts).                                                   *)
(*                                                                         *)
(* A browser's socket and the server's handler of it are one state.        *)
(***************************************************************************)
EXTENDS Naturals

CONSTANTS
    Tasks,      \* rows of task_queue created by dispatch_task
    Agents,     \* the agents that get dispatched
    Browsers,   \* mounted use-task-stream hooks
    MaxDrops,   \* bound on connections lost
    MaxFaults,  \* bound on I/O errors and worker deaths
    Nil

\* Agents that run the citation enforcer and insert their own research_outputs
\* row, and agents that save something else.
Authors == {"lynch_pitch", "munger_invert", "earnings_monitor"}
Savers == Authors \cup {"industry_analyst", "kpi_tracker"}

\* document_ingestion is in the registry, but its module does not exist.
Implemented == Savers
AgentNames == Savers \cup {"document_ingestion"}

ASSUME ConstantsOK ==
    /\ Agents \subseteq AgentNames
    /\ MaxDrops \in Nat
    /\ MaxFaults \in Nat
    /\ Nil \notin Tasks \cup AgentNames

VARIABLES
    row,        \* status of the task_queue row
    agent,      \* the agent the task names
    dispatch,   \* where dispatch_task stands
    queue,      \* Celery messages not yet taken
    run,        \* where the worker stands in the task
    session,    \* the session lent to the agent: "open" until its first commit
    output,     \* the AgentOutput the agent returned
    saved,      \* research_outputs rows the task inserted
    announced,  \* the last terminal event published on the task's channel
    browser,    \* each hook: its task, socket and status
    drops,      \* connections lost so far
    faults,     \* I/O errors and deaths so far
    lost        \* tasks whose execution ended without a last word

rowVars == <<row, agent>>
runVars == <<run, session, output, saved, announced>>
vars == <<rowVars, dispatch, queue, runVars, browser, drops, faults, lost>>

-----------------------------------------------------------------------------

RowStatus == {"absent", "queued", "running", "completed", "failed"}

RunPC == {"none", "load", "resolve", "begin", "agent", "returned", "announce",
          "close", "settle", "failing", "fail_row", "done"}

\* "approved": approved_by_enforcer; "unmarked": neither that nor rejected;
\* "partial": the enforcer's status is partial or failed.
Outcome == {"none", "approved", "unmarked", "partial"}

Event == {"none", "complete", "partial", "error"}

Socket == {"closed", "checking", "gap", "listening"}
View == {"idle", "streaming", "complete", "partial", "error"}

\* early: the socket was subscribed before any terminal event was published.
\* again: it is not the hook's first.
BrowserRecord == [task : Tasks \cup {Nil}, socket : Socket, view : View,
                  early : BOOLEAN, again : BOOLEAN]

\* A hook that has mounted has a task, and only a mounted one has a socket.
Browser ==
    {h \in BrowserRecord :
        /\ h.view # "idle" => h.task \in Tasks
        /\ h.view # "streaming" => h.socket = "closed"}

Closed(b, view) == [browser[b] EXCEPT !.socket = "closed", !.view = view, !.early = FALSE]

Init ==
    /\ row = [t \in Tasks |-> "absent"]
    /\ agent = [t \in Tasks |-> Nil]
    /\ dispatch = [t \in Tasks |-> "idle"]
    /\ queue = {}
    /\ run = [t \in Tasks |-> "none"]
    /\ session = [t \in Tasks |-> "none"]
    /\ output = [t \in Tasks |-> "none"]
    /\ saved = [t \in Tasks |-> 0]
    /\ announced = [t \in Tasks |-> "none"]
    /\ browser = [b \in Browsers |-> [task |-> Nil, socket |-> "closed",
                                      view |-> "idle", early |-> FALSE, again |-> FALSE]]
    /\ drops = 0
    /\ faults = 0
    /\ lost = {}

-----------------------------------------------------------------------------
(* dispatch_task.                                                          *)

\* Mutant: the message goes out with the insert, before its commit.
InsertAndSend(t) ==
    /\ dispatch[t] = "idle"
    /\ queue' = queue \cup {t}
    /\ \E a \in Agents : agent' = [agent EXCEPT ![t] = a]
    /\ dispatch' = [dispatch EXCEPT ![t] = "enqueue"]
    /\ UNCHANGED <<row, runVars, browser, drops, faults, lost>>

\* The row is committed before the message is sent, so a worker finds it.
InsertRow(t) ==
    /\ dispatch[t] = "idle"
    /\ row' = [row EXCEPT ![t] = "queued"]
    /\ \E a \in Agents : agent' = [agent EXCEPT ![t] = a]
    /\ dispatch' = [dispatch EXCEPT ![t] = "enqueue"]
    /\ UNCHANGED <<queue, runVars, browser, drops, faults, lost>>

Enqueue(t) ==
    /\ dispatch[t] = "enqueue"
    /\ queue' = queue \cup {t}
    /\ dispatch' = [dispatch EXCEPT ![t] = "record"]
    /\ UNCHANGED <<rowVars, runVars, browser, drops, faults, lost>>

\* The second commit writes celery_task_id only; then the id is returned.
RecordCeleryId(t) ==
    /\ dispatch[t] = "record"
    /\ dispatch' = [dispatch EXCEPT ![t] = "done"]
    /\ UNCHANGED <<rowVars, queue, runVars, browser, drops, faults, lost>>

\* The broker or the database fails, or the API process dies: the committed
\* row stays.
DispatchFails(t) ==
    /\ dispatch[t] \in {"enqueue", "record"}
    /\ faults < MaxFaults
    /\ faults' = faults + 1
    /\ dispatch' = [dispatch EXCEPT ![t] = "failed"]
    /\ UNCHANGED <<rowVars, queue, runVars, browser, drops, lost>>

-----------------------------------------------------------------------------
(* run_agent_task.                                                         *)

Goto(t, pc) == run' = [run EXCEPT ![t] = pc]

Take(t) ==
    /\ t \in queue
    /\ queue' = queue \ {t}
    /\ Goto(t, "load")
    /\ UNCHANGED <<rowVars, dispatch, session, output, saved, announced,
                   browser, drops, faults, lost>>

\* _load_task_context, then status "running".
MarkRunning(t) ==
    /\ run[t] = "load"
    /\ row' = [row EXCEPT ![t] = "running"]
    /\ Goto(t, "resolve")
    /\ UNCHANGED <<agent, dispatch, queue, session, output, saved, announced,
                   browser, drops, faults, lost>>

ResolveAgent(t) ==
    /\ run[t] = "resolve"
    /\ Goto(t, IF agent[t] \in Implemented THEN "begin" ELSE "failing")
    /\ UNCHANGED <<rowVars, dispatch, queue, session, output, saved, announced,
                   browser, drops, faults, lost>>

\* The "starting" event, and the session.begin() block agent.run() works in.
BeginSession(t) ==
    /\ run[t] = "begin"
    /\ session' = [session EXCEPT ![t] = "open"]
    /\ Goto(t, "agent")
    /\ UNCHANGED <<rowVars, dispatch, queue, output, saved, announced,
                   browser, drops, faults, lost>>

\* Mutant: the session may be used after a commit inside the block.
AlwaysUsable(t) == TRUE

\* SQLAlchemy: a commit closes the transaction of the surrounding begin()
\* block, and the next statement in the block raises InvalidRequestError.
Usable(t) == session[t] = "open"

Commit(t) == session' = [session EXCEPT ![t] = "committed"]

\* CitationEnforcer commits audit rows when it found hallucinated or
\* paraphrased quotes, before the agent saves.
LogFindings(t) ==
    /\ run[t] = "agent"
    /\ agent[t] \in Authors
    /\ saved[t] = 0
    /\ session[t] = "open"
    /\ Commit(t)
    /\ UNCHANGED <<rowVars, dispatch, queue, run, output, saved, announced,
                   browser, drops, faults, lost>>

\* save_bull_case, save_bear_case, save_quarterly_update: insert and commit.
SaveOwnRow(t) ==
    /\ run[t] = "agent"
    /\ agent[t] \in Authors
    /\ saved[t] = 0
    /\ Usable(t)
    /\ saved' = [saved EXCEPT ![t] = @ + 1]
    /\ Commit(t)
    /\ UNCHANGED <<rowVars, dispatch, queue, run, output, announced,
                   browser, drops, faults, lost>>

\* save_industry_primer, upsert_kpi_timeseries: commit elsewhere.
SaveElsewhere(t) ==
    /\ run[t] = "agent"
    /\ agent[t] \in Savers \ Authors
    /\ session[t] = "open"
    /\ Commit(t)
    /\ UNCHANGED <<rowVars, dispatch, queue, run, output, saved, announced,
                   browser, drops, faults, lost>>

\* What the agent's last lines return.  The authors of pitches leave
\* approved_by_enforcer at False; the earnings monitor reports the verdict, or
\* a missing prerequisite before it saved anything; the KPI tracker approves
\* itself.
Returns(t) ==
    CASE agent[t] \in {"lynch_pitch", "munger_invert"} ->
            IF saved[t] = 1 THEN {"unmarked", "partial"} ELSE {}
      [] agent[t] = "earnings_monitor" ->
            IF saved[t] = 1 THEN {"approved", "partial"} ELSE {"partial"}
      [] agent[t] = "industry_analyst" ->
            IF session[t] = "committed" THEN {"unmarked"} ELSE {}
      [] OTHER -> {"approved"}

\* The agent returns and BaseAgent.run commits its audit row.
AgentReturns(t) ==
    /\ run[t] = "agent"
    /\ Usable(t)
    /\ \E o \in Returns(t) : output' = [output EXCEPT ![t] = o]
    /\ Commit(t)
    /\ Goto(t, "returned")
    /\ UNCHANGED <<rowVars, dispatch, queue, saved, announced, browser, drops,
                   faults, lost>>

\* The LLM, the retriever or the parsing of the answer raises; or the agent
\* goes on with a session it may not use.
AgentRaises(t) ==
    /\ run[t] = "agent"
    /\ Goto(t, "failing")
    /\ UNCHANGED <<rowVars, dispatch, queue, session, output, saved, announced,
                   browser, drops, faults, lost>>

\* Mutant: the approval is not looked at.
SaveEverything(t) == TRUE

\* approved_by_enforcer is what the row is inserted for.
ToBeSaved(t) == output[t] = "approved"

\* The approved output of an agent is inserted here, in a block of its own.
SaveApproved(t) ==
    /\ run[t] = "returned"
    /\ saved' = IF ToBeSaved(t) THEN [saved EXCEPT ![t] = @ + 1] ELSE saved
    /\ Goto(t, "announce")
    /\ UNCHANGED <<rowVars, dispatch, queue, session, output, announced,
                   browser, drops, faults, lost>>

TerminalEvent(t) == IF output[t] = "partial" THEN "partial" ELSE "complete"

\* Mutant: the websocket handler goes on listening after "partial".
DeliveredUnlessPartial(t, e) ==
    browser' = [b \in Browsers |->
                    IF browser[b].task = t /\ browser[b].socket = "listening" /\ e # "partial"
                    THEN Closed(b, e) ELSE browser[b]]

\* Redis pub/sub: whoever is subscribed gets the event, and nobody later.  A
\* terminal event ends the handler and the hook's stream.
Delivered(t, e) ==
    browser' = [b \in Browsers |->
                    IF browser[b].task = t /\ browser[b].socket = "listening"
                    THEN Closed(b, e) ELSE browser[b]]

Publish(t, e) ==
    /\ Delivered(t, e)
    /\ announced' = [announced EXCEPT ![t] = e]

Announce(t) ==
    /\ run[t] = "announce"
    /\ Publish(t, TerminalEvent(t))
    /\ Goto(t, "close")
    /\ UNCHANGED <<rowVars, dispatch, queue, session, output, saved,
                   drops, faults, lost>>

\* The reply to PUBLISH, the dump of the output and the session's exit: what
\* _run_agent still does, inside the try block, after the event went out.
LeaveSession(t) ==
    /\ run[t] = "close"
    /\ Goto(t, "settle")
    /\ UNCHANGED <<rowVars, dispatch, queue, session, output, saved, announced,
                   browser, drops, faults, lost>>

MarkCompleted(t) ==
    /\ run[t] = "settle"
    /\ row' = [row EXCEPT ![t] = "completed"]
    /\ Goto(t, "done")
    /\ UNCHANGED <<agent, dispatch, queue, session, output, saved, announced,
                   browser, drops, faults, lost>>

\* Mutant: the error event is sent, the row is forgotten.
ReportErrorOnly(t) ==
    /\ run[t] = "failing"
    /\ Publish(t, "error")
    /\ Goto(t, "done")
    /\ UNCHANGED <<rowVars, dispatch, queue, session, output, saved,
                   drops, faults, lost>>

\* Mutant: a task that has sent a terminal event sends no other.
ReportFirstError(t) ==
    /\ run[t] = "failing"
    /\ IF announced[t] = "none" THEN Publish(t, "error") ELSE UNCHANGED <<announced, browser>>
    /\ Goto(t, "fail_row")
    /\ UNCHANGED <<rowVars, dispatch, queue, session, output, saved,
                   drops, faults, lost>>

ReportError(t) ==
    /\ run[t] = "failing"
    /\ Publish(t, "error")
    /\ Goto(t, "fail_row")
    /\ UNCHANGED <<rowVars, dispatch, queue, session, output, saved,
                   drops, faults, lost>>

MarkFailed(t) ==
    /\ run[t] = "fail_row"
    /\ row' = [row EXCEPT ![t] = "failed"]
    /\ Goto(t, "done")
    /\ UNCHANGED <<agent, dispatch, queue, session, output, saved, announced,
                   browser, drops, faults, lost>>

\* The steps of _run_agent around the agent, whose exceptions _execute reports.
Caught == {"begin", "returned", "announce", "close"}

\* An I/O error in _run_agent.
StepFails(t) ==
    /\ run[t] \in Caught
    /\ faults < MaxFaults
    /\ faults' = faults + 1
    /\ Goto(t, "failing")
    /\ UNCHANGED <<rowVars, dispatch, queue, session, output, saved, announced,
                   browser, drops, lost>>

\* The worker dies, or an I/O error outside the try block ends the task: the
\* message was acknowledged when the task started, nothing runs it again.
RunDies(t) ==
    /\ run[t] \notin {"none", "done"}
    /\ faults < MaxFaults
    /\ faults' = faults + 1
    /\ lost' = lost \cup {t}
    /\ Goto(t, "done")
    /\ UNCHANGED <<rowVars, dispatch, queue, session, output, saved, announced,
                   browser, drops>>

-----------------------------------------------------------------------------
(* task_websocket and useTaskStream.                                       *)

\* Mutant: the hook connects without waiting for an id.
MountUnbound(b) ==
    /\ browser[b].view = "idle"
    /\ browser' = [browser EXCEPT ![b].socket = "checking", ![b].view = "streaming"]
    /\ UNCHANGED <<rowVars, dispatch, queue, runVars, drops, faults, lost>>

\* The hook mounts with the id dispatch returned and connects.
Mount(b) ==
    /\ browser[b].view = "idle"
    /\ \E t \in Tasks :
        /\ dispatch[t] = "done"
        /\ browser' = [browser EXCEPT ![b] = [task |-> t, socket |-> "checking",
                                              view |-> "streaming", early |-> FALSE,
                                              again |-> FALSE]]
    /\ UNCHANGED <<rowVars, dispatch, queue, runVars, drops, faults, lost>>

\* The handler reads the row: a finished task is answered at once.  A task
\* that ended "partial" is answered "already_complete" as well.
CheckTask(b) ==
    LET status == row[browser[b].task] IN
    /\ browser[b].socket = "checking"
    /\ browser' = [browser EXCEPT ![b] =
                      CASE status = "completed" -> Closed(b, "complete")
                        [] status = "failed" -> Closed(b, "error")
                        [] OTHER -> [browser[b] EXCEPT !.socket = "gap"]]
    /\ UNCHANGED <<rowVars, dispatch, queue, runVars, drops, faults, lost>>

\* subscribe_events.
Subscribe(b) ==
    /\ browser[b].socket = "gap"
    /\ browser' = [browser EXCEPT ![b].socket = "listening",
                                  ![b].early = announced[browser[b].task] = "none"]
    /\ UNCHANGED <<rowVars, dispatch, queue, runVars, drops, faults, lost>>

\* The connection is lost, with or without an error event in the browser.
Drop(b) ==
    /\ browser[b].socket # "closed"
    /\ drops < MaxDrops
    /\ drops' = drops + 1
    /\ \E view \in {"streaming", "error"} :
        browser' = [browser EXCEPT ![b] = Closed(b, view)]
    /\ UNCHANGED <<rowVars, dispatch, queue, runVars, faults, lost>>

\* The tab becomes visible while the stream is unfinished and the socket gone.
Reconnect(b) ==
    /\ browser[b].socket = "closed"
    /\ browser[b].view = "streaming"
    /\ browser' = [browser EXCEPT ![b].socket = "checking", ![b].again = TRUE]
    /\ UNCHANGED <<rowVars, dispatch, queue, runVars, drops, faults, lost>>

-----------------------------------------------------------------------------

RunStep(t) ==
    \/ Take(t) \/ MarkRunning(t) \/ ResolveAgent(t) \/ BeginSession(t)
    \/ LogFindings(t) \/ SaveOwnRow(t) \/ SaveElsewhere(t)
    \/ AgentReturns(t) \/ AgentRaises(t)
    \/ SaveApproved(t) \/ Announce(t) \/ LeaveSession(t) \/ MarkCompleted(t)
    \/ ReportError(t) \/ MarkFailed(t)

TaskStep(t) ==
    \/ InsertRow(t) \/ Enqueue(t) \/ RecordCeleryId(t) \/ DispatchFails(t)
    \/ RunStep(t) \/ StepFails(t) \/ RunDies(t)

\* What the websocket handler does of itself.
HandlerStep(b) == CheckTask(b) \/ Subscribe(b)

BrowserStep(b) == Mount(b) \/ HandlerStep(b) \/ Drop(b) \/ Reconnect(b)

Next ==
    \/ \E t \in Tasks : TaskStep(t)
    \/ \E b \in Browsers : BrowserStep(b)

Spec == Init /\ [][Next]_vars

\* Workers and the API process keep running.
FairSpec ==
    /\ Spec
    /\ \A t \in Tasks : WF_vars(RunStep(t))
    /\ \A b \in Browsers : WF_vars(HandlerStep(b))

-----------------------------------------------------------------------------
(* Properties.                                                             *)

TypeOK ==
    /\ row \in [Tasks -> RowStatus]
    /\ agent \in [Tasks -> Agents \cup {Nil}]
    /\ dispatch \in [Tasks -> {"idle", "enqueue", "record", "done", "failed"}]
    /\ queue \subseteq Tasks
    /\ run \in [Tasks -> RunPC]
    /\ session \in [Tasks -> {"none", "open", "committed"}]
    /\ output \in [Tasks -> Outcome]
    /\ saved \in [Tasks -> Nat]
    /\ announced \in [Tasks -> Event]
    /\ browser \in [Browsers -> Browser]
    /\ drops \in 0..MaxDrops
    /\ faults \in 0..MaxFaults
    /\ lost \subseteq Tasks

\* A task leaves at most one row in research_outputs, whether the agent saves
\* its own or leaves it to _run_agent, and whatever fails after that.
AtMostOneOutput == \A t \in Tasks : saved[t] <= 1

\* A task that reads "completed" left exactly the rows its result claims: one
\* if the result is approved, none otherwise.
CompletedTellsWhatWasSaved ==
    \A t \in Tasks :
        row[t] = "completed" => saved[t] = IF output[t] = "approved" THEN 1 ELSE 0

Settled(t) == row[t] \in {"completed", "failed"}

Listens(b, t) == browser[b].task = t /\ browser[b].socket = "listening"

\* The event goes out before the status is written, so a browser that was
\* subscribed in time is never left waiting for a task that has ended.
EarlyListenersHear ==
    \A t \in Tasks, b \in Browsers :
        Settled(t) /\ Listens(b, t) => ~browser[b].early

\* The row never ends in another way than the last event on the channel said:
\* a result that was announced and then failed on the way out is taken back on
\* the channel before the row reads "failed".
LastEventTellsTheRow ==
    \A t \in Tasks :
        /\ row[t] = "completed" => announced[t] = TerminalEvent(t)
        /\ row[t] = "failed" => announced[t] = "error"

Lifecycle == INSTANCE TaskLifecycle

\* Every behaviour keeps the promise task_queue makes to its readers: queued,
\* perhaps running, then completed or failed for good.
TaskRowsFollowLifecycle == Lifecycle!Spec

\* A task whose message was sent ends, with its row saying how, unless the
\* worker was lost with it.
SentTaskSettles == \A t \in Tasks : t \in queue ~> Settled(t) \/ t \in lost

\* "a plain reconnect is safe even if the task finished while the tab was
\* backgrounded": no browser that reconnected listens on the channel of a task
\* that has ended.
ReconnectIsSafe ==
    \A t \in Tasks, b \in Browsers :
        browser[b].again => ~(Settled(t) /\ Listens(b, t))

\* subscribe_events: terminal events "end the task's lifecycle and have no
\* further events coming"; nothing is published after one. The code does not
\* keep this: what fails in LeaveSession is published as an error.
NothingAfterTerminalEvent ==
    [][\A t \in Tasks : announced[t] # "none" => announced'[t] = announced[t]]_vars

\* test_full_workflow.py: the task whose pitch landed in research_outputs reads
\* "completed".
SavedOutputCompletes == \A t \in Tasks : saved[t] > 0 => row[t] # "failed"
=============================================================================
