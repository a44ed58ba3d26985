-------------------------- MODULE AgentTaskProofs --------------------------
(***************************************************************************)
(* Theorems about AgentTasks, for any tasks, dispatched agents, browsers   *)
(* and bounds on what is lost.                                             *)
(***************************************************************************)
EXTENDS AgentTasks, TLAPS

(* What a task's row, message and worker have to do with each other.       *)
CarrierInv(t) ==
    /\ dispatch[t] = "idle" <=> row[t] = "absent"
    /\ dispatch[t] \in {"idle", "enqueue"} => t \notin queue /\ run[t] = "none"
    /\ t \in queue => run[t] = "none"
    /\ run[t] \in {"none", "load"} => row[t] \in {"absent", "queued"}
    /\ run[t] \notin {"none", "load", "done"} => row[t] = "running"

(* The agent cannot return after it saved: the commit took its session.    *)
OutputInv(t) ==
    /\ run[t] \in {"none", "load", "resolve", "begin", "returned"} => saved[t] = 0
    /\ run[t] = "agent" /\ session[t] = "open" => saved[t] = 0
    /\ run[t] \in {"announce", "close", "settle"} \/ row[t] = "completed"
           => saved[t] = IF output[t] = "approved" THEN 1 ELSE 0
    /\ saved[t] <= 1

(* The last terminal event of a task, in accord with the row after it: once *)
(* the run is failing, the error goes out before the row is written.       *)
AnnouncedInv(t) ==
    /\ run[t] \notin {"close", "settle", "failing", "fail_row", "done"} => announced[t] = "none"
    /\ run[t] \in {"close", "settle"} \/ row[t] = "completed"
           => announced[t] = TerminalEvent(t)
    /\ run[t] = "fail_row" \/ row[t] = "failed" => announced[t] = "error"

BrowserInv(b) ==
    browser[b].socket = "listening" /\ browser[b].early
        => announced[browser[b].task] = "none"

TaskInv ==
    /\ TypeOK
    /\ \A t \in Tasks : CarrierInv(t) /\ OutputInv(t) /\ AnnouncedInv(t)
    /\ \A b \in Browsers : BrowserInv(b)

(***************************************************************************)
(* Types.                                                                  *)
(***************************************************************************)
LEMMA ClosedType ==
  ASSUME TypeOK, NEW b \in Browsers, browser[b].task \in Tasks, NEW v \in View
  PROVE  Closed(b, v) \in Browser
<1>1. browser[b] \in BrowserRecord
  BY DEF TypeOK, Browser
<1> QED
  BY <1>1 DEF Closed, Browser, BrowserRecord, Socket

(* A hook with a socket has mounted, so it has a task.                     *)
LEMMA ConnectedHasTask ==
  ASSUME TypeOK, NEW b \in Browsers, browser[b].socket # "closed" \/ browser[b].view # "idle"
  PROVE  browser[b].task \in Tasks
  BY DEF TypeOK, Browser

LEMMA DeliveredType ==
  ASSUME TypeOK, NEW t \in Tasks, NEW e \in View, Delivered(t, e)
  PROVE  browser' \in [Browsers -> Browser]
<1>1. ASSUME NEW b \in Browsers PROVE browser'[b] \in Browser
  <2>1. browser'[b] = IF browser[b].task = t /\ browser[b].socket = "listening"
                      THEN Closed(b, e) ELSE browser[b]
    BY DEF Delivered
  <2> QED
    BY <2>1, ClosedType DEF TypeOK
<1>2. browser' = [b \in Browsers |-> browser'[b]]
  BY DEF Delivered
<1> QED
  BY <1>1, <1>2

LEMMA TypeInit == Init => TypeOK
<1> SUFFICES ASSUME Init PROVE TypeOK
  OBVIOUS
<1>1. browser \in [Browsers -> Browser]
  BY DEF Init, Browser, BrowserRecord, Socket, View
<1>2. /\ row \in [Tasks -> RowStatus] /\ agent \in [Tasks -> Agents \cup {Nil}]
      /\ dispatch \in [Tasks -> {"idle", "enqueue", "record", "done", "failed"}]
      /\ run \in [Tasks -> RunPC] /\ session \in [Tasks -> {"none", "open", "committed"}]
  BY DEF Init, RowStatus, RunPC
<1>3. /\ output \in [Tasks -> Outcome] /\ saved \in [Tasks -> Nat]
      /\ announced \in [Tasks -> Event]
  BY DEF Init, Outcome, Event
<1>4. queue \subseteq Tasks /\ drops \in 0..MaxDrops /\ faults \in 0..MaxFaults
      /\ lost \subseteq Tasks
  BY ConstantsOK DEF Init
<1> QED
  BY <1>1, <1>2, <1>3, <1>4 DEF TypeOK

LEMMA TypeTask ==
  ASSUME TypeOK, NEW t \in Tasks, TaskStep(t)
  PROVE  TypeOK'
<1> USE ConstantsOK
<1>1. CASE InsertRow(t) \/ Enqueue(t) \/ RecordCeleryId(t) \/ DispatchFails(t)
  BY <1>1 DEF TypeOK, InsertRow, Enqueue, RecordCeleryId, DispatchFails, rowVars, runVars,
     RowStatus
<1>2. CASE Take(t) \/ MarkRunning(t) \/ ResolveAgent(t) \/ BeginSession(t)
  BY <1>2 DEF TypeOK, Take, MarkRunning, ResolveAgent, BeginSession, Goto, rowVars,
     RowStatus, RunPC
<1>3. CASE LogFindings(t) \/ SaveOwnRow(t) \/ SaveElsewhere(t) \/ AgentRaises(t)
  BY <1>3 DEF TypeOK, LogFindings, SaveOwnRow, SaveElsewhere, AgentRaises, Commit, Goto,
     rowVars, RunPC
<1>4. CASE AgentReturns(t)
  <2>1. Returns(t) \subseteq Outcome
    BY DEF Returns, Outcome
  <2> QED
    BY <1>4, <2>1 DEF TypeOK, AgentReturns, Commit, Goto, rowVars, RunPC
<1>5. CASE SaveApproved(t) \/ LeaveSession(t) \/ MarkCompleted(t) \/ MarkFailed(t)
  BY <1>5 DEF TypeOK, SaveApproved, LeaveSession, MarkCompleted, MarkFailed, Goto, rowVars, RowStatus, RunPC
<1>6. CASE Announce(t) \/ ReportError(t)
  <2>1. PICK e \in {"complete", "partial", "error"} : Publish(t, e)
    BY <1>6 DEF Announce, ReportError, TerminalEvent
  <2>2. browser' \in [Browsers -> Browser]
    BY <2>1, DeliveredType DEF Publish, View
  <2>3. announced' \in [Tasks -> Event]
    BY <2>1 DEF Publish, TypeOK, Event
  <2> QED
    BY <1>6, <2>2, <2>3 DEF TypeOK, Announce, ReportError, Goto, rowVars, RunPC
<1>7. CASE StepFails(t) \/ RunDies(t)
  BY <1>7 DEF TypeOK, StepFails, RunDies, Goto, rowVars, RunPC
<1> QED
  BY <1>1, <1>2, <1>3, <1>4, <1>5, <1>6, <1>7 DEF TaskStep, RunStep

LEMMA TypeBrowser ==
  ASSUME TypeOK, NEW b \in Browsers, BrowserStep(b)
  PROVE  TypeOK'
<1>0. /\ browser \in [Browsers -> Browser] /\ browser[b] \in BrowserRecord
      /\ \A h \in Browser : browser' = [browser EXCEPT ![b] = h]
                               => browser' \in [Browsers -> Browser]
  BY DEF TypeOK, Browser
<1>1. browser' \in [Browsers -> Browser]
  <2>1. CASE Mount(b)
    <3>1. PICK t \in Tasks : browser' = [browser EXCEPT ![b] =
                                [task |-> t, socket |-> "checking", view |-> "streaming",
                                 early |-> FALSE, again |-> FALSE]]
      BY <2>1 DEF Mount
    <3>2. [task |-> t, socket |-> "checking", view |-> "streaming",
           early |-> FALSE, again |-> FALSE] \in Browser
      BY DEF Browser, BrowserRecord, Socket, View
    <3> QED
      BY <1>0, <3>1, <3>2
  <2>2. CASE CheckTask(b)
    <3>1. browser[b].task \in Tasks
      BY <2>2, ConnectedHasTask DEF CheckTask
    <3>2. Closed(b, "complete") \in Browser /\ Closed(b, "error") \in Browser
      BY <3>1, ClosedType DEF View
    <3>3. [browser[b] EXCEPT !.socket = "gap"] \in Browser
      BY <2>2, <1>0, <3>1 DEF CheckTask, TypeOK, Browser, BrowserRecord, Socket
    <3> QED
      BY <1>0, <2>2, <3>2, <3>3 DEF CheckTask
  <2>3. CASE Subscribe(b)
    <3> DEFINE e == announced[browser[b].task] = "none"
               h == [browser[b] EXCEPT !.socket = "listening", !.early = e]
    <3>1. h \in Browser
      BY <1>0, <2>3 DEF Subscribe, TypeOK, Browser, BrowserRecord, Socket
    <3>2. browser' = [browser EXCEPT ![b] = h]
      BY <1>0, <2>3 DEF Subscribe
    <3> QED
      BY <1>0, <3>1, <3>2
  <2>4. CASE Drop(b)
    <3>1. PICK v \in {"streaming", "error"} : browser' = [browser EXCEPT ![b] = Closed(b, v)]
      BY <2>4 DEF Drop
    <3>2. Closed(b, v) \in Browser
      BY <2>4, ClosedType, ConnectedHasTask DEF Drop, View
    <3> QED
      BY <1>0, <3>1, <3>2
  <2>5. CASE Reconnect(b)
    <3> DEFINE h == [browser[b] EXCEPT !.socket = "checking", !.again = TRUE]
    <3>1. h \in Browser
      BY <1>0, <2>5 DEF Reconnect, TypeOK, Browser, BrowserRecord, Socket
    <3>2. browser' = [browser EXCEPT ![b] = h]
      BY <1>0, <2>5 DEF Reconnect
    <3> QED
      BY <1>0, <3>1, <3>2
  <2> QED
    BY <2>1, <2>2, <2>3, <2>4, <2>5 DEF BrowserStep, HandlerStep
<1> QED
  BY <1>1, ConstantsOK DEF BrowserStep, HandlerStep, Mount, CheckTask, Subscribe, Drop,
     Reconnect, TypeOK, rowVars, runVars

LEMMA TypeStep == TypeOK /\ [Next]_vars => TypeOK'
<1>1. ASSUME TypeOK, UNCHANGED vars PROVE TypeOK'
  BY <1>1 DEF TypeOK, vars, rowVars, runVars
<1> QED
  BY <1>1, TypeTask, TypeBrowser DEF Next

(***************************************************************************)
(* What each step keeps.                                                   *)
(***************************************************************************)
LEMMA CarrierStep ==
  ASSUME TypeOK, \A t \in Tasks : CarrierInv(t), Next
  PROVE  \A t \in Tasks : CarrierInv(t)'
<1>1. ASSUME NEW t \in Tasks, InsertRow(t) \/ Enqueue(t) \/ RecordCeleryId(t) \/ DispatchFails(t)
      PROVE  \A u \in Tasks : CarrierInv(u)'
  BY <1>1 DEF TypeOK, CarrierInv, InsertRow, Enqueue, RecordCeleryId, DispatchFails,
     rowVars, runVars
<1>2. ASSUME NEW t \in Tasks, Take(t) \/ MarkRunning(t) \/ ResolveAgent(t) \/ BeginSession(t)
      PROVE  \A u \in Tasks : CarrierInv(u)'
  BY <1>2 DEF TypeOK, CarrierInv, Take, MarkRunning, ResolveAgent, BeginSession, Goto, rowVars
<1>3. ASSUME NEW t \in Tasks, \/ LogFindings(t) \/ SaveOwnRow(t) \/ SaveElsewhere(t)
                              \/ AgentReturns(t) \/ AgentRaises(t)
      PROVE  \A u \in Tasks : CarrierInv(u)'
  BY <1>3 DEF TypeOK, CarrierInv, LogFindings, SaveOwnRow, SaveElsewhere, AgentReturns,
     AgentRaises, Goto, rowVars
<1>4. ASSUME NEW t \in Tasks, \/ SaveApproved(t) \/ Announce(t) \/ LeaveSession(t)
                              \/ MarkCompleted(t) \/ ReportError(t) \/ MarkFailed(t)
      PROVE  \A u \in Tasks : CarrierInv(u)'
  BY <1>4 DEF TypeOK, CarrierInv, SaveApproved, Announce, LeaveSession, MarkCompleted, ReportError,
     MarkFailed, Goto, rowVars
<1>5. ASSUME NEW t \in Tasks, StepFails(t) \/ RunDies(t)
      PROVE  \A u \in Tasks : CarrierInv(u)'
  BY <1>5 DEF TypeOK, CarrierInv, StepFails, RunDies, Caught, Goto, rowVars
<1>6. ASSUME NEW b \in Browsers, BrowserStep(b)
      PROVE  \A u \in Tasks : CarrierInv(u)'
  BY <1>6 DEF CarrierInv, BrowserStep, HandlerStep, Mount, CheckTask, Subscribe, Drop,
     Reconnect, rowVars, runVars
<1> QED
  BY <1>1, <1>2, <1>3, <1>4, <1>5, <1>6 DEF Next, TaskStep, RunStep

LEMMA OutputStep ==
  ASSUME TypeOK, \A t \in Tasks : CarrierInv(t) /\ OutputInv(t), Next
  PROVE  \A t \in Tasks : OutputInv(t)'
<1>1. ASSUME NEW t \in Tasks, InsertRow(t) \/ Enqueue(t) \/ RecordCeleryId(t) \/ DispatchFails(t)
      PROVE  \A u \in Tasks : OutputInv(u)'
  BY <1>1 DEF TypeOK, OutputInv, InsertRow, Enqueue, RecordCeleryId, DispatchFails,
     rowVars, runVars
<1>2. ASSUME NEW t \in Tasks, Take(t) \/ MarkRunning(t) \/ ResolveAgent(t) \/ BeginSession(t)
      PROVE  \A u \in Tasks : OutputInv(u)'
  BY <1>2 DEF TypeOK, CarrierInv, OutputInv, Take, MarkRunning, ResolveAgent, BeginSession,
     Goto, rowVars
<1>3. ASSUME NEW t \in Tasks, LogFindings(t) \/ SaveOwnRow(t) \/ SaveElsewhere(t) \/ AgentRaises(t)
      PROVE  \A u \in Tasks : OutputInv(u)'
  BY <1>3 DEF TypeOK, CarrierInv, OutputInv, LogFindings, SaveOwnRow, SaveElsewhere,
     AgentRaises, Commit, Goto, rowVars
<1>4. ASSUME NEW t \in Tasks, AgentReturns(t)
      PROVE  \A u \in Tasks : OutputInv(u)'
  BY <1>4 DEF TypeOK, CarrierInv, OutputInv, AgentReturns, Usable, Commit, Goto, rowVars
<1>5. ASSUME NEW t \in Tasks, SaveApproved(t) \/ LeaveSession(t) \/ MarkCompleted(t) \/ MarkFailed(t)
      PROVE  \A u \in Tasks : OutputInv(u)'
  BY <1>5 DEF TypeOK, OutputInv, CarrierInv, SaveApproved, ToBeSaved, LeaveSession, MarkCompleted,
     MarkFailed, Goto, rowVars
<1>6. ASSUME NEW t \in Tasks, Announce(t) \/ ReportError(t) \/ StepFails(t) \/ RunDies(t)
      PROVE  \A u \in Tasks : OutputInv(u)'
  BY <1>6 DEF TypeOK, OutputInv, CarrierInv, Announce, ReportError, StepFails, RunDies,
     Caught, Goto, rowVars
<1>7. ASSUME NEW b \in Browsers, BrowserStep(b)
      PROVE  \A u \in Tasks : OutputInv(u)'
  BY <1>7 DEF OutputInv, BrowserStep, HandlerStep, Mount, CheckTask, Subscribe, Drop,
     Reconnect, rowVars, runVars
<1> QED
  BY <1>1, <1>2, <1>3, <1>4, <1>5, <1>6, <1>7 DEF Next, TaskStep, RunStep

LEMMA AnnouncedStep ==
  ASSUME TypeOK, \A t \in Tasks : CarrierInv(t) /\ AnnouncedInv(t), Next
  PROVE  \A t \in Tasks : AnnouncedInv(t)'
<1>1. ASSUME NEW t \in Tasks, InsertRow(t) \/ Enqueue(t) \/ RecordCeleryId(t) \/ DispatchFails(t)
      PROVE  \A u \in Tasks : AnnouncedInv(u)'
  BY <1>1 DEF TypeOK, AnnouncedInv, InsertRow, Enqueue, RecordCeleryId, DispatchFails,
     TerminalEvent, rowVars, runVars
<1>2. ASSUME NEW t \in Tasks, Take(t) \/ MarkRunning(t) \/ ResolveAgent(t) \/ BeginSession(t)
      PROVE  \A u \in Tasks : AnnouncedInv(u)'
  BY <1>2 DEF TypeOK, CarrierInv, AnnouncedInv, TerminalEvent, Take, MarkRunning, ResolveAgent, BeginSession,
     Goto, rowVars
<1>3. ASSUME NEW t \in Tasks, \/ LogFindings(t) \/ SaveOwnRow(t) \/ SaveElsewhere(t)
                              \/ AgentReturns(t) \/ AgentRaises(t)
      PROVE  \A u \in Tasks : AnnouncedInv(u)'
  BY <1>3 DEF TypeOK, CarrierInv, AnnouncedInv, TerminalEvent, LogFindings, SaveOwnRow,
     SaveElsewhere, AgentReturns, AgentRaises, Goto, rowVars
<1>4. ASSUME NEW t \in Tasks, \/ SaveApproved(t) \/ LeaveSession(t)
                              \/ MarkCompleted(t) \/ MarkFailed(t)
      PROVE  \A u \in Tasks : AnnouncedInv(u)'
  BY <1>4 DEF TypeOK, CarrierInv, AnnouncedInv, TerminalEvent, SaveApproved, LeaveSession,
     MarkCompleted, MarkFailed, Goto, rowVars
<1>5. ASSUME NEW t \in Tasks, Announce(t) \/ ReportError(t)
      PROVE  \A u \in Tasks : AnnouncedInv(u)'
  BY <1>5 DEF TypeOK, CarrierInv, AnnouncedInv, Announce, ReportError, Publish,
     TerminalEvent, Goto, rowVars
<1>6. ASSUME NEW t \in Tasks, StepFails(t) \/ RunDies(t)
      PROVE  \A u \in Tasks : AnnouncedInv(u)'
  BY <1>6 DEF TypeOK, CarrierInv, AnnouncedInv, TerminalEvent, StepFails, RunDies, Caught,
     Goto, rowVars
<1>7. ASSUME NEW b \in Browsers, BrowserStep(b)
      PROVE  \A u \in Tasks : AnnouncedInv(u)'
  BY <1>7 DEF AnnouncedInv, TerminalEvent, BrowserStep, HandlerStep, Mount, CheckTask, Subscribe, Drop,
     Reconnect, rowVars, runVars
<1> QED
  BY <1>1, <1>2, <1>3, <1>4, <1>5, <1>6, <1>7 DEF Next, TaskStep, RunStep

LEMMA PublishKeeps ==
  ASSUME TypeOK, \A b \in Browsers : BrowserInv(b),
         NEW t \in Tasks, NEW e \in {"complete", "partial", "error"}, Publish(t, e)
  PROVE  \A b \in Browsers : BrowserInv(b)'
<1> SUFFICES ASSUME NEW b \in Browsers PROVE BrowserInv(b)'
  OBVIOUS
<1>1. /\ announced \in [Tasks -> Event]
      /\ announced' = [announced EXCEPT ![t] = e]
      /\ browser'[b] = IF browser[b].task = t /\ browser[b].socket = "listening"
                       THEN Closed(b, e) ELSE browser[b]
  BY DEF TypeOK, Publish, Delivered
<1>2. CASE browser[b].task = t /\ browser[b].socket = "listening"
  <2>1. browser[b] \in BrowserRecord /\ browser'[b] = Closed(b, e)
    BY <1>1, <1>2 DEF TypeOK, Browser
  <2>2. browser'[b].socket = "closed"
    BY <2>1 DEF Closed, BrowserRecord
  <2> QED
    BY <2>2 DEF BrowserInv
<1>3. CASE ~(browser[b].task = t /\ browser[b].socket = "listening")
  <2>1. browser'[b] = browser[b]
    BY <1>1, <1>3
  <2>2. CASE browser[b].socket = "listening"
    <3>1. browser[b].task \in Tasks
      BY <2>2, ConnectedHasTask
    <3> QED
      BY <1>1, <1>3, <2>1, <2>2, <3>1 DEF BrowserInv
  <2> QED
    BY <2>1, <2>2 DEF BrowserInv
<1> QED
  BY <1>2, <1>3

LEMMA BrowserMoves ==
  ASSUME TypeOK, NEW b \in Browsers, BrowserInv(b), BrowserStep(b)
  PROVE  /\ BrowserInv(b)' /\ announced' = announced
         /\ \A c \in Browsers \ {b} : browser'[c] = browser[c]
<1>0. browser \in [Browsers -> Browser] /\ browser[b] \in BrowserRecord
  BY DEF TypeOK, Browser
<1>1. /\ announced' = announced
      /\ \A c \in Browsers \ {b} : browser'[c] = browser[c]
  <2>1. CASE CheckTask(b)
    <3> DEFINE h == CASE row[browser[b].task] = "completed" -> Closed(b, "complete")
                      [] row[browser[b].task] = "failed" -> Closed(b, "error")
                      [] OTHER -> [browser[b] EXCEPT !.socket = "gap"]
    <3>1. browser' = [browser EXCEPT ![b] = h] /\ announced' = announced
      BY <2>1 DEF CheckTask, runVars
    <3> HIDE DEF h
    <3> QED
      BY <1>0, <3>1
  <2>2. CASE Mount(b)
    BY <1>0, <2>2 DEF Mount, runVars
  <2>3. CASE Subscribe(b) \/ Drop(b) \/ Reconnect(b)
    BY <1>0, <2>3 DEF Subscribe, Drop, Reconnect, runVars
  <2> QED
    BY <2>1, <2>2, <2>3 DEF BrowserStep, HandlerStep
<1>2. CASE Mount(b) \/ CheckTask(b) \/ Drop(b) \/ Reconnect(b)
  <2>1. browser'[b].socket # "listening"
    <3>1. CASE CheckTask(b)
      <4>1. browser'[b] \in {Closed(b, "complete"), Closed(b, "error"),
                            [browser[b] EXCEPT !.socket = "gap"]}
        BY <1>0, <3>1 DEF CheckTask
      <4> QED
        BY <1>0, <4>1 DEF Closed, BrowserRecord
    <3>2. CASE Drop(b)
      <4>1. PICK v \in {"streaming", "error"} : browser' = [browser EXCEPT ![b] = Closed(b, v)]
        BY <3>2 DEF Drop
      <4> QED
        BY <1>0, <4>1 DEF Closed, BrowserRecord
    <3>3. CASE Mount(b) \/ Reconnect(b)
      BY <1>0, <3>3 DEF Mount, Reconnect, BrowserRecord
    <3> QED
      BY <1>2, <3>1, <3>2, <3>3
  <2> QED
    BY <1>1, <2>1 DEF BrowserInv
<1>3. CASE Subscribe(b)
  <2> DEFINE e == announced[browser[b].task] = "none"
  <2>1. browser' = [browser EXCEPT ![b].socket = "listening", ![b].early = e]
    BY <1>3 DEF Subscribe
  <2> HIDE DEF e
  <2>2. browser'[b].early = e /\ browser'[b].task = browser[b].task
    BY <1>0, <2>1 DEF BrowserRecord
  <2> QED
    BY <1>1, <2>2 DEF BrowserInv, e
<1> QED
  BY <1>1, <1>2, <1>3 DEF BrowserStep, HandlerStep

LEMMA BrowsersStep ==
  ASSUME TypeOK, \A b \in Browsers : BrowserInv(b), Next
  PROVE  \A b \in Browsers : BrowserInv(b)'
<1>1. ASSUME NEW t \in Tasks, Announce(t) \/ ReportError(t)
      PROVE  \A b \in Browsers : BrowserInv(b)'
  <2>1. PICK e \in {"complete", "partial", "error"} : Publish(t, e)
    BY <1>1 DEF Announce, ReportError, TerminalEvent
  <2> QED
    BY <2>1, PublishKeeps
<1>2. ASSUME NEW t \in Tasks, TaskStep(t), ~Announce(t), ~ReportError(t)
      PROVE  \A b \in Browsers : BrowserInv(b)'
  <2>1. announced' = announced /\ browser' = browser
    BY <1>2 DEF TaskStep, RunStep, InsertRow, Enqueue, RecordCeleryId, DispatchFails, Take,
       MarkRunning, ResolveAgent, BeginSession, LogFindings, SaveOwnRow, SaveElsewhere,
       AgentReturns, AgentRaises, SaveApproved, LeaveSession, MarkCompleted, MarkFailed,
       StepFails, RunDies, runVars
  <2> QED
    BY <2>1 DEF BrowserInv
<1>3. ASSUME NEW b \in Browsers, BrowserStep(b)
      PROVE  \A c \in Browsers : BrowserInv(c)'
  <2>1. /\ BrowserInv(b)' /\ announced' = announced
        /\ \A c \in Browsers \ {b} : browser'[c] = browser[c]
    BY <1>3, BrowserMoves
  <2>2. ASSUME NEW c \in Browsers \ {b} PROVE BrowserInv(c)'
    BY <2>1 DEF BrowserInv
  <2> QED
    BY <2>1, <2>2
<1> QED
  BY <1>1, <1>2, <1>3 DEF Next

LEMMA TaskInvariant == Spec => []TaskInv
<1>1. Init => TaskInv
  <2>1. ASSUME Init, NEW t \in Tasks PROVE CarrierInv(t) /\ OutputInv(t) /\ AnnouncedInv(t)
    <3>1. /\ dispatch[t] = "idle" /\ row[t] = "absent" /\ queue = {} /\ run[t] = "none"
          /\ saved[t] = 0 /\ announced[t] = "none"
      BY <2>1 DEF Init
    <3> QED
      BY <3>1 DEF CarrierInv, OutputInv, AnnouncedInv
  <2>2. ASSUME Init PROVE \A b \in Browsers : BrowserInv(b)
    BY <2>2 DEF Init, BrowserInv
  <2> QED
    BY <2>1, <2>2, TypeInit DEF TaskInv
<1>2. TaskInv /\ [Next]_vars => TaskInv'
  <2>1. ASSUME TaskInv, Next PROVE TaskInv'
    BY <2>1, TypeStep, CarrierStep, OutputStep, AnnouncedStep, BrowsersStep DEF TaskInv
  <2>2. ASSUME TaskInv, UNCHANGED vars PROVE TaskInv'
    BY <2>2, TypeStep DEF TaskInv, CarrierInv, OutputInv, AnnouncedInv, BrowserInv,
       TerminalEvent, vars, rowVars, runVars
  <2> QED
    BY <2>1, <2>2
<1> QED
  BY <1>1, <1>2, PTL DEF Spec

(***************************************************************************)
(* The theorems.                                                           *)
(***************************************************************************)

(* Every variable keeps its type: a hook with a socket knows its task, and *)
(* only a streaming hook has a socket.                                     *)
THEOREM TypeCorrect == Spec => []TypeOK
<1>1. TaskInv => TypeOK
  BY DEF TaskInv
<1> QED
  BY <1>1, TaskInvariant, PTL

(* A task leaves at most one row in research_outputs, whoever saves it and *)
(* whatever fails after that.                                              *)
THEOREM SavedOnce == Spec => []AtMostOneOutput
<1>1. TaskInv => AtMostOneOutput
  BY DEF TaskInv, OutputInv, AtMostOneOutput
<1> QED
  BY <1>1, TaskInvariant, PTL

(* A completed task left exactly the rows its result claims: an agent that *)
(* saved for itself cannot return, for its commit took the session.        *)
THEOREM CompletedIsHonest == Spec => []CompletedTellsWhatWasSaved
<1>1. TaskInv => CompletedTellsWhatWasSaved
  BY DEF TaskInv, OutputInv, CompletedTellsWhatWasSaved
<1> QED
  BY <1>1, TaskInvariant, PTL

(* No browser that subscribed before the terminal event still listens when *)
(* the row says how the task ended.                                        *)
THEOREM ListenersHear == Spec => []EarlyListenersHear
<1>1. TaskInv => EarlyListenersHear
  <2> SUFFICES ASSUME TaskInv, NEW t \in Tasks, NEW b \in Browsers, Settled(t),
                      Listens(b, t), browser[b].early
               PROVE  FALSE
    BY DEF EarlyListenersHear
  <2>1. announced[t] = "none"
    BY DEF TaskInv, BrowserInv, Listens
  <2>2. announced[t] \in {"complete", "partial", "error"}
    BY DEF TaskInv, AnnouncedInv, Settled, TerminalEvent
  <2> QED
    BY <2>1, <2>2
<1> QED
  BY <1>1, TaskInvariant, PTL

(* The row ends as the last event on the channel said: whatever fails      *)
(* after a result was announced, inside the try block, is announced as an  *)
(* error before the row reads "failed", and a completed row follows the    *)
(* event of its own output.                                                *)
THEOREM RowFollowsLastEvent == Spec => []LastEventTellsTheRow
<1>1. TaskInv => LastEventTellsTheRow
  BY DEF TaskInv, AnnouncedInv, LastEventTellsTheRow
<1> QED
  BY <1>1, TaskInvariant, PTL

(* AgentTasks implements the lifecycle task_queue promises: a row is       *)
(* inserted once, as queued, and never changed after the task ended.       *)
THEOREM RefinesLifecycle == Spec => TaskRowsFollowLifecycle
<1>1. Init => Lifecycle!Init
  BY DEF Init, Lifecycle!Init
<1>2. TaskInv /\ [Next]_vars => [Lifecycle!Next]_row
  <2> SUFFICES ASSUME TaskInv, Next, row' # row PROVE Lifecycle!Next
    BY DEF vars, rowVars
  <2>1. PICK t \in Tasks : \/ InsertRow(t) \/ MarkRunning(t) \/ MarkCompleted(t)
                            \/ MarkFailed(t)
    BY DEF Next, TaskStep, RunStep, BrowserStep, HandlerStep, Enqueue, RecordCeleryId,
       DispatchFails, Take, ResolveAgent, BeginSession, LogFindings, SaveOwnRow,
       SaveElsewhere, AgentReturns, AgentRaises, SaveApproved, Announce, LeaveSession,
       ReportError, StepFails, RunDies, Mount, CheckTask, Subscribe, Drop, Reconnect, rowVars
  <2>2. CarrierInv(t)
    BY DEF TaskInv
  <2>3. CASE InsertRow(t)
    BY <2>2, <2>3 DEF InsertRow, CarrierInv, Lifecycle!Next, Lifecycle!Create
  <2>4. CASE MarkRunning(t)
    BY <2>2, <2>4 DEF MarkRunning, CarrierInv, Lifecycle!Next, Lifecycle!Start
  <2>5. CASE MarkCompleted(t) \/ MarkFailed(t)
    BY <2>2, <2>5 DEF MarkCompleted, MarkFailed, CarrierInv, Lifecycle!Next,
       Lifecycle!Settle, Lifecycle!Terminal
  <2> QED
    BY <2>1, <2>3, <2>4, <2>5
<1> QED
  BY <1>1, <1>2, TaskInvariant, PTL DEF Spec, TaskRowsFollowLifecycle, Lifecycle!Spec
=============================================================================
