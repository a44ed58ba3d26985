------------------------------ MODULE AgentRun ------------------------------
(***************************************************************************)
(* BaseAgent.run and what the Lynch, Munger and earnings agents and the    *)
(* orchestrator do in it: read, ask an LLM, parse, have the citation       *)
(* enforcer judge, save or dispatch, and leave an audit row.               *)
(*                                                                         *)
(* The first three run on the session _run_agent lends, which their first  *)
(* commit closes (module AgentTasks); the orchestrator runs on a session   *)
(* of its own request (coverages.orchestrate).                             *)
(***************************************************************************)
EXTENDS Naturals, FiniteSets

CONSTANTS
    Runs,         \* runs of the agents
    MaxDbErrors   \* bound on database errors

ASSUME RunAssumption == MaxDbErrors \in Nat

VARIABLES
    at,          \* each run
    filings,     \* the new filing and the prior ones that are indexed
    written,     \* of each run, what it committed
    dbErrors     \* so far

runVars == <<at, filings, written, dbErrors>>

-----------------------------------------------------------------------------

Authors == {"lynch_pitch", "munger_invert", "earnings_monitor"}
Kinds == Authors \cup {"orchestrator"}
Filings == {"new", "prior"}

\* return, raise: the run's last lines, the audit row.
RunPC == {"idle", "gather", "ask", "repair", "validate", "save", "dispatch",
          "return", "raise", "ended"}

\* lent: in the session.begin() block of _run_agent, usable until a commit.
RunSession == {"lent", "committed", "own", "broken"}

\* Rows: a research output, the enforcer's findings, a task, an audit row.
RowKinds == {"output", "findings", "task", "audit"}

RunRecord == [kind : Kinds, pc : RunPC, session : RunSession]

RunInit ==
    /\ \E kind \in [Runs -> Kinds] :
         at = [r \in Runs |-> [kind |-> kind[r], pc |-> "idle",
                               session |-> IF kind[r] \in Authors THEN "lent" ELSE "own"]]
    /\ filings \in SUBSET Filings
    /\ written = [r \in Runs |-> [w \in RowKinds |-> 0]]
    /\ dbErrors = 0

\* Ingestion, which may take a filing back too (module Ingestion).
FilingChanges ==
    /\ filings' \in SUBSET Filings
    /\ filings' # filings
    /\ UNCHANGED <<at, written, dbErrors>>

Goto(r, pc) == at' = [at EXCEPT ![r].pc = pc]

Usable(r) == at[r].session \in {"lent", "own"}

AfterCommit(r) == IF at[r].session = "lent" THEN "committed" ELSE at[r].session

CommitAndGoto(r, pc) ==
    at' = [at EXCEPT ![r].pc = pc, ![r].session = AfterCommit(r)]

Adds(r, row) == written' = [written EXCEPT ![r][row] = @ + 1]

StartRun(r) ==
    /\ at[r].pc = "idle"
    /\ Goto(r, "gather")
    /\ UNCHANGED <<filings, written, dbErrors>>

\* Searches and reads; the orchestrator's three checks only go into its prompt.
\* The earnings monitor returns PREREQUISITE_MISSING without asking.
Gather(r) ==
    /\ at[r].pc = "gather"
    /\ Goto(r, IF at[r].kind = "earnings_monitor" /\ filings # Filings THEN "return" ELSE "ask")
    /\ UNCHANGED <<filings, written, dbErrors>>

\* The answer parses: into 8 answers, 3 sections and a summary, or a plan, and
\* the plan goes on with a first step or not.
Parsed(r) ==
    /\ at[r].pc \in {"ask", "repair"}
    /\ IF at[r].kind \in Authors THEN Goto(r, "validate")
       ELSE \E pc \in {"dispatch", "return"} : Goto(r, pc)
    /\ UNCHANGED <<filings, written, dbErrors>>

\* A missing question, section or verdict, too few citations; the
\* orchestrator asks for a repair, once.
Unparsable(r) ==
    /\ at[r].pc \in {"ask", "repair"}
    /\ Goto(r, IF at[r].kind = "orchestrator" /\ at[r].pc = "ask" THEN "repair" ELSE "raise")
    /\ UNCHANGED <<filings, written, dbErrors>>

\* CitationEnforcer.validate. Quotes that are hallucinated, or close to a
\* passage only, are logged and committed.
Validate(r) ==
    /\ at[r].pc = "validate"
    /\ \/ Goto(r, "save") /\ UNCHANGED written
       \/ Usable(r) /\ Adds(r, "findings") /\ CommitAndGoto(r, "save")
    /\ UNCHANGED <<filings, dbErrors>>

\* save_bull_case, save_bear_case, save_quarterly_update: the refresh after
\* the commit raises, and with it all that would follow.
Save(r) ==
    /\ at[r].pc = "save" /\ Usable(r)
    /\ Adds(r, "output")
    /\ CommitAndGoto(r, "raise")
    /\ UNCHANGED <<filings, dbErrors>>

SaveRefused(r) ==
    /\ at[r].pc = "save" /\ ~Usable(r)
    /\ Goto(r, "raise")
    /\ UNCHANGED <<filings, written, dbErrors>>

\* dispatch_task (module AgentTasks): it commits before it sends the message.
Dispatch(r) ==
    /\ at[r].pc = "dispatch"
    /\ Adds(r, "task")
    /\ \E pc \in {"return", "raise"} : CommitAndGoto(r, pc)
    /\ UNCHANGED <<filings, dbErrors>>

\* The search, the LLM, or a plan that is no object or names no agent.
RunRaises(r) ==
    /\ at[r].pc \in {"gather", "ask", "repair", "validate", "dispatch"}
    /\ Goto(r, "raise")
    /\ UNCHANGED <<filings, written, dbErrors>>

\* The transaction is lost, and the session with it.
DbFails(r) ==
    /\ at[r].pc \in {"gather", "validate", "save", "dispatch", "return"}
    /\ dbErrors < MaxDbErrors
    /\ dbErrors' = dbErrors + 1
    /\ at' = [at EXCEPT ![r].pc = "raise", ![r].session = "broken"]
    /\ UNCHANGED <<filings, written>>

\* Mutant: an audit row for what returned only.
AuditSuccess(r) ==
    /\ at[r].pc \in {"return", "raise"}
    /\ IF at[r].pc = "return" THEN Adds(r, "audit") ELSE UNCHANGED written
    /\ CommitAndGoto(r, "ended")
    /\ UNCHANGED <<filings, dbErrors>>

\* _log_audit, with the action success or error; on a session that cannot be
\* used it raises in its turn.
LogAudit(r) ==
    /\ at[r].pc \in {"return", "raise"}
    /\ IF Usable(r) THEN Adds(r, "audit") /\ CommitAndGoto(r, "ended")
       ELSE Goto(r, "ended") /\ UNCHANGED written
    /\ UNCHANGED <<filings, dbErrors>>

RunNext ==
    \/ FilingChanges
    \/ \E r \in Runs :
        \/ StartRun(r) \/ Gather(r) \/ Parsed(r) \/ Unparsable(r) \/ Validate(r)
        \/ Save(r) \/ SaveRefused(r) \/ Dispatch(r)
        \/ RunRaises(r) \/ DbFails(r) \/ LogAudit(r)

RunSpec == RunInit /\ [][RunNext]_runVars

-----------------------------------------------------------------------------
(* Properties.                                                             *)

RunTypeOK ==
    /\ at \in [Runs -> RunRecord]
    /\ filings \subseteq Filings
    /\ written \in [Runs -> [RowKinds -> 0 .. 1]]
    /\ dbErrors \in 0 .. MaxDbErrors

\* No run ends without a trace, if the database held: an orchestrator's leaves
\* its audit row, and an agent's that row or else, its session closed by its
\* own commit, the output or the findings it committed.
EveryRunLeavesATrace ==
    \A r \in Runs : at[r].pc = "ended" /\ at[r].session # "broken" =>
        \/ written[r]["audit"] = 1
        \/ at[r].kind \in Authors /\ written[r]["output"] + written[r]["findings"] = 1

\* src/README.md: "every agent call ... writes to an append-only audit log".
EveryCallIsLogged ==
    \A r \in Runs :
        at[r].pc = "ended" /\ at[r].session # "broken" => written[r]["audit"] = 1
=============================================================================
