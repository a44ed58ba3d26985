---------------------------- MODULE AgentProofs ----------------------------
(***************************************************************************)
(* Theorems about the agents: what a run leaves in the database, for any   *)
(* number of runs and errors; how the graph of a coverage ends, for any    *)
(* intents and drafts; one row per industry name, and the primer in it,    *)
(* for any number of requests, coverages and analyses; the series of a     *)
(* KPI, for any documents, answers and trackers; and all of these of the   *)
(* specification that composes the agents.                                 *)
(***************************************************************************)
EXTENDS Agents, FiniteSetTheorems, SequenceTheorems, TLAPS

-----------------------------------------------------------------------------
(* The runs.                                                               *)

Records(r) == written[r]["output"] + written[r]["findings"] + written[r]["audit"]

Working == {"idle", "gather", "ask", "repair", "validate", "dispatch"}

\* Which sessions a run may have where it stands.
SessionInv(r) ==
    /\ at[r].kind \in Authors => at[r].session # "own"
    /\ at[r].kind = "orchestrator" => at[r].session \in {"own", "broken"}
    /\ at[r].session = "committed" => at[r].pc \in {"save", "raise", "ended"}
    /\ at[r].session = "broken" => at[r].pc \in {"raise", "ended"}
    /\ at[r].pc \in {"validate", "save"} => at[r].kind \in Authors
    /\ at[r].pc = "dispatch" => at[r].kind = "orchestrator"

\* A run that can still write has nothing written that is a record of it; one
\* that no longer can has one.
RecordInv(r) ==
    /\ at[r].pc \in Working => Records(r) = 0 /\ written[r]["task"] = 0
    /\ at[r].pc # "ended" /\ Usable(r) => Records(r) = 0
    /\ at[r].session = "committed" => Records(r) = 1
    /\ at[r].pc = "save" => written[r]["output"] = 0
    /\ at[r].pc = "ended" /\ at[r].session # "broken" => Records(r) = 1
    /\ at[r].kind = "orchestrator" => written[r]["output"] + written[r]["findings"] = 0

RunInv == RunTypeOK /\ \A r \in Runs : SessionInv(r) /\ RecordInv(r)

(* What a step of r makes of it.                                           *)
RunBecomes(r, pc, session) ==
    /\ at'[r] = [kind |-> at[r].kind, pc |-> pc, session |-> session]
    /\ at' \in [Runs -> RunRecord]
    /\ \A s \in Runs \ {r} : at'[s] = at[s]

RowsBecome(r, records) ==
    /\ written'[r] = records
    /\ written' \in [Runs -> [RowKinds -> Nat]]
    /\ \A s \in Runs \ {r} : written'[s] = written[s]

LEMMA GotoEffect ==
    ASSUME RunTypeOK, NEW r \in Runs, NEW pc \in RunPC, Goto(r, pc)
    PROVE  RunBecomes(r, pc, at[r].session)
BY DEF RunTypeOK, RunRecord, Goto, RunBecomes

LEMMA CommitEffect ==
    ASSUME RunTypeOK, NEW r \in Runs, NEW pc \in RunPC, CommitAndGoto(r, pc)
    PROVE  RunBecomes(r, pc, AfterCommit(r))
<1>1. AfterCommit(r) \in RunSession
    BY DEF RunTypeOK, RunRecord, RunSession, AfterCommit
<1> QED BY <1>1 DEF RunTypeOK, RunRecord, CommitAndGoto, RunBecomes

LEMMA AddsEffect ==
    ASSUME RunTypeOK, NEW r \in Runs, NEW row \in RowKinds, Adds(r, row)
    PROVE  RowsBecome(r, [written[r] EXCEPT ![row] = @ + 1])
<1>1. written[r] \in [RowKinds -> Nat] /\ written \in [Runs -> [RowKinds -> Nat]]
    BY DEF RunTypeOK
<1> QED BY <1>1 DEF Adds, RowsBecome

LEMMA RowAdded ==
    ASSUME RunTypeOK, NEW r \in Runs, NEW row \in RowKinds, Adds(r, row)
    PROVE  /\ written'[r][row] = written[r][row] + 1
           /\ \A k \in RowKinds \ {row} : written'[r][k] = written[r][k]
<1>1. written[r] \in [RowKinds -> Nat]
    BY DEF RunTypeOK
<1>2. written'[r] = [written[r] EXCEPT ![row] = @ + 1]
    BY AddsEffect DEF RowsBecome
<1> QED BY <1>1, <1>2

\* The invariant is of one run at a time.
LEMMA RunKept ==
    ASSUME RunInv, NEW r \in Runs, NEW pc, NEW session, RunBecomes(r, pc, session),
           NEW records \in [RowKinds -> 0 .. 1], RowsBecome(r, records),
           SessionInv(r)', RecordInv(r)',
           filings' \subseteq Filings, dbErrors' \in 0 .. MaxDbErrors
    PROVE  RunInv'
<1>1. \A s \in Runs \ {r} : SessionInv(s)' /\ RecordInv(s)'
    BY DEF RunInv, RunBecomes, RowsBecome, SessionInv, RecordInv, Records, Usable, RowKinds
<1>2. written' \in [Runs -> [RowKinds -> 0 .. 1]]
    <2>1. ASSUME NEW s \in Runs PROVE written'[s] \in [RowKinds -> 0 .. 1]
        <3>1. CASE s = r
            BY <3>1 DEF RowsBecome
        <3>2. CASE s # r
            BY <3>2 DEF RowsBecome, RunInv, RunTypeOK
        <3> QED BY <3>1, <3>2
    <2>2. written' = [s \in Runs |-> written'[s]]
        BY DEF RowsBecome
    <2> QED BY <2>1, <2>2
<1> QED BY <1>1, <1>2 DEF RunInv, RunTypeOK, RunBecomes

\* A step that writes nothing.
LEMMA RunMoves ==
    ASSUME RunInv, NEW r \in Runs, NEW pc, NEW session, RunBecomes(r, pc, session),
           written' = written, SessionInv(r)', RecordInv(r)',
           filings' = filings, dbErrors' \in 0 .. MaxDbErrors
    PROVE  RunInv'
<1>1. \A s \in Runs \ {r} : SessionInv(s)' /\ RecordInv(s)'
    BY DEF RunInv, RunBecomes, SessionInv, RecordInv, Records, Usable
<1> QED BY <1>1 DEF RunInv, RunTypeOK, RunBecomes

LEMMA RunInit0 == RunInit => RunInv
<1> SUFFICES ASSUME RunInit PROVE RunInv
    OBVIOUS
<1>1. PICK kind \in [Runs -> Kinds] :
        at = [r \in Runs |-> [kind |-> kind[r], pc |-> "idle",
                              session |-> IF kind[r] \in Authors THEN "lent" ELSE "own"]]
    BY DEF RunInit
<1>2. written = [r \in Runs |-> [w \in RowKinds |-> 0]]
    BY DEF RunInit
<1>3. RunTypeOK
    BY <1>1, <1>2, RunAssumption DEF RunInit, RunTypeOK, RunRecord, RunPC, RunSession
<1>4. \A r \in Runs : SessionInv(r)
    BY <1>1 DEF SessionInv, Kinds, Authors
<1>5. \A r \in Runs : RecordInv(r)
    BY <1>1, <1>2 DEF RecordInv, Records, RowKinds, Working
<1> QED BY <1>3, <1>4, <1>5 DEF RunInv

LEMMA RunStep == RunInv /\ [RunNext]_runVars => RunInv'
<1> SUFFICES ASSUME RunInv, [RunNext]_runVars PROVE RunInv'
    OBVIOUS
<1>0. RunTypeOK /\ \A r \in Runs : SessionInv(r) /\ RecordInv(r)
    BY DEF RunInv
<1>t. /\ \A r \in Runs : at[r] \in RunRecord /\ written[r] \in [RowKinds -> 0 .. 1]
      /\ dbErrors \in 0 .. MaxDbErrors /\ filings \subseteq Filings
    BY <1>0 DEF RunTypeOK
<1>n. \A r \in Runs : /\ written[r]["output"] \in 0 .. 1 /\ written[r]["findings"] \in 0 .. 1
                      /\ written[r]["audit"] \in 0 .. 1 /\ written[r]["task"] \in 0 .. 1
    BY <1>t DEF RowKinds
<1>1. CASE FilingChanges \/ UNCHANGED runVars
    BY <1>1 DEF FilingChanges, runVars, RunInv, RunTypeOK, SessionInv, RecordInv, Records, Usable
<1>2. ASSUME NEW r \in Runs, NEW pc \in RunPC, Goto(r, pc),
             UNCHANGED <<filings, written, dbErrors>>,
             \/ at[r].pc \in Working /\ pc \in Working \cup {"return", "raise"}
             \/ at[r].pc = "validate" /\ pc \in {"save", "raise"}
             \/ at[r].pc = "ask" /\ pc = "validate"
             \/ at[r].pc = "save" /\ ~Usable(r) /\ pc = "raise"
             \/ at[r].pc \in {"return", "raise"} /\ ~Usable(r) /\ pc = "ended",
             pc \in {"validate", "save"} => at[r].kind \in Authors,
             pc = "dispatch" => at[r].kind = "orchestrator"
      PROVE  RunInv'
    <2>1. RunBecomes(r, pc, at[r].session)
        BY <1>0, <1>2, GotoEffect
    <2>2. SessionInv(r) /\ RecordInv(r)
        BY <1>0
    <2>3. SessionInv(r)'
        BY <1>2, <2>1, <2>2, <1>t DEF SessionInv, RunBecomes, Working
    <2>4. RecordInv(r)'
        BY <1>2, <2>1, <2>2, <1>t, <1>n
        DEF RecordInv, SessionInv, RunBecomes, Working, Records, Usable, RunRecord, RunSession
    <2> QED BY <1>2, <1>t, <2>1, <2>3, <2>4, RunMoves
<1>3. ASSUME NEW r \in Runs, NEW row \in RowKinds, NEW pc \in RunPC, NEW session,
             Adds(r, row), RunBecomes(r, pc, session), UNCHANGED filings,
             dbErrors' = dbErrors, written[r][row] = 0,
             SessionInv(r)', RecordInv(r)'
      PROVE  RunInv'
    <2> DEFINE records == [written[r] EXCEPT ![row] = @ + 1]
    <2>1. RowsBecome(r, records)
        BY <1>0, <1>3, AddsEffect
    <2>2. records \in [RowKinds -> 0 .. 1]
        BY <1>3, <1>t
    <2> HIDE DEF records
    <2> QED BY <1>3, <1>t, <2>1, <2>2, RunKept
<1>4. ASSUME NEW r \in Runs,
             StartRun(r) \/ Gather(r) \/ Parsed(r) \/ Unparsable(r) \/ RunRaises(r)
      PROVE  RunInv'
    <2>1. SessionInv(r)
        BY <1>0
    <2>2. UNCHANGED <<filings, written, dbErrors>>
        BY <1>4 DEF StartRun, Gather, Parsed, Unparsable, RunRaises
    <2>3. CASE StartRun(r)
        BY <1>2, <2>2, <2>3 DEF StartRun, Working, RunPC
    <2>4. CASE Gather(r)
        BY <1>2, <2>2, <2>4 DEF Gather, Working, RunPC
    <2>5. CASE Parsed(r)
        <3>1. at[r].kind \in Kinds
            BY <1>t DEF RunRecord
        <3>2. CASE at[r].kind \in Authors
            <4>1. Goto(r, "validate")
                BY <2>5, <3>2 DEF Parsed
            <4> QED BY <1>2, <2>2, <2>5, <3>2, <4>1 DEF Parsed, Working, RunPC
        <3>3. CASE at[r].kind = "orchestrator"
            <4>1. PICK pc \in {"dispatch", "return"} : Goto(r, pc)
                BY <2>5, <3>3 DEF Parsed, Authors
            <4> QED BY <1>2, <2>2, <2>5, <3>3, <4>1 DEF Parsed, Working, RunPC
        <3> QED BY <3>1, <3>2, <3>3 DEF Kinds
    <2>6. CASE Unparsable(r)
        BY <1>2, <2>2, <2>6 DEF Unparsable, Working, RunPC
    <2>7. CASE RunRaises(r)
        BY <1>2, <2>2, <2>7 DEF RunRaises, Working, RunPC
    <2> QED BY <1>4, <2>3, <2>4, <2>5, <2>6, <2>7
<1>5. ASSUME NEW r \in Runs, Validate(r) PROVE RunInv'
    <2>1. at[r].pc = "validate" /\ at[r].kind \in Authors /\ UNCHANGED <<filings, dbErrors>>
        BY <1>0, <1>5 DEF Validate, SessionInv
    <2>2. CASE Goto(r, "save") /\ UNCHANGED written
        BY <1>2, <2>1, <2>2 DEF Working, RunPC
    <2>3. CASE Usable(r) /\ Adds(r, "findings") /\ CommitAndGoto(r, "save")
        <3>1. RunBecomes(r, "save", AfterCommit(r))
            BY <1>0, <2>3, CommitEffect DEF RunPC
        <3>2. AfterCommit(r) = "committed"
            BY <1>0, <2>1, <2>3 DEF SessionInv, Usable, AfterCommit
        <3>3. Records(r) = 0
            BY <1>0, <2>1 DEF RecordInv, Working
        <3>4. /\ written'[r]["findings"] = written[r]["findings"] + 1
              /\ written'[r]["output"] = written[r]["output"]
              /\ written'[r]["audit"] = written[r]["audit"]
            BY <1>0, <2>3, RowAdded DEF RowKinds
        <3>5. SessionInv(r)'
            BY <2>1, <3>1, <3>2 DEF RunBecomes, SessionInv, Authors
        <3>6. RecordInv(r)'
            BY <1>n, <2>1, <3>1, <3>2, <3>3, <3>4
               DEF RunBecomes, RecordInv, Records, Usable, Working, Authors
        <3> QED BY <1>3, <1>n, <2>1, <2>3, <3>1, <3>2, <3>3, <3>5, <3>6 DEF Records, RowKinds, RunPC
    <2> QED BY <1>5, <2>2, <2>3 DEF Validate
<1>6. ASSUME NEW r \in Runs, Save(r) PROVE RunInv'
    <2>1. /\ at[r].pc = "save" /\ at[r].kind \in Authors /\ Usable(r)
          /\ Adds(r, "output") /\ CommitAndGoto(r, "raise") /\ UNCHANGED <<filings, dbErrors>>
        BY <1>0, <1>6 DEF Save, SessionInv
    <2>2. RunBecomes(r, "raise", "committed")
        <3>1. RunBecomes(r, "raise", AfterCommit(r))
            BY <1>0, <2>1, CommitEffect DEF RunPC
        <3>2. AfterCommit(r) = "committed"
            BY <1>0, <2>1 DEF SessionInv, Usable, AfterCommit
        <3> QED BY <3>1, <3>2
    <2>3. Records(r) = 0
        BY <1>0, <2>1 DEF RecordInv
    <2>4. /\ written'[r]["output"] = written[r]["output"] + 1
          /\ written'[r]["findings"] = written[r]["findings"]
          /\ written'[r]["audit"] = written[r]["audit"]
        BY <1>0, <2>1, RowAdded DEF RowKinds
    <2>5. SessionInv(r)'
        BY <2>1, <2>2 DEF RunBecomes, SessionInv, Authors
    <2>6. RecordInv(r)'
        BY <1>n, <2>1, <2>2, <2>3, <2>4
           DEF RunBecomes, RecordInv, Records, Usable, Working, Authors
    <2> QED BY <1>3, <1>n, <2>1, <2>2, <2>3, <2>5, <2>6 DEF Records, RowKinds, RunPC
<1>7. ASSUME NEW r \in Runs, SaveRefused(r) PROVE RunInv'
    BY <1>2, <1>7 DEF SaveRefused, RunPC
<1>8. ASSUME NEW r \in Runs, Dispatch(r) PROVE RunInv'
    <2>1. /\ at[r].pc = "dispatch" /\ at[r].kind = "orchestrator" /\ at[r].session = "own"
          /\ Adds(r, "task") /\ UNCHANGED <<filings, dbErrors>>
        BY <1>0, <1>8 DEF Dispatch, SessionInv
    <2>2. PICK pc \in {"return", "raise"} : CommitAndGoto(r, pc)
        BY <1>8 DEF Dispatch
    <2>3. RunBecomes(r, pc, "own")
        <3>1. RunBecomes(r, pc, AfterCommit(r))
            BY <1>0, <2>2, CommitEffect DEF RunPC
        <3> QED BY <2>1, <3>1 DEF AfterCommit
    <2>4. Records(r) = 0 /\ written[r]["task"] = 0
        BY <1>0, <2>1 DEF RecordInv, Working
    <2>5. \A k \in RowKinds \ {"task"} : written'[r][k] = written[r][k]
        BY <1>0, <2>1, RowAdded DEF RowKinds
    <2>6. SessionInv(r)'
        BY <2>1, <2>3 DEF RunBecomes, SessionInv, Authors
    <2>7. RecordInv(r)'
        BY <1>0, <2>1, <2>3, <2>4, <2>5
           DEF RunBecomes, RecordInv, Records, Usable, Working, RowKinds
    <2> QED BY <1>3, <2>1, <2>3, <2>4, <2>6, <2>7 DEF RowKinds, RunPC
<1>9. ASSUME NEW r \in Runs, DbFails(r) PROVE RunInv'
    <2>1. RunBecomes(r, "raise", "broken")
        BY <1>0, <1>9 DEF DbFails, RunTypeOK, RunRecord, RunPC, RunSession, RunBecomes
    <2>2. SessionInv(r)'
        BY <2>1 DEF RunBecomes, SessionInv, Authors
    <2>3. RecordInv(r)'
        BY <1>0, <1>9, <2>1 DEF DbFails, RunBecomes, RecordInv, Usable, Working
    <2>4. dbErrors' \in 0 .. MaxDbErrors /\ UNCHANGED <<filings, written>>
        BY <1>9, <1>t, RunAssumption DEF DbFails
    <2> QED BY <2>1, <2>2, <2>3, <2>4, RunMoves
<1>10. ASSUME NEW r \in Runs, LogAudit(r) PROVE RunInv'
    <2>1. at[r].pc \in {"return", "raise"} /\ UNCHANGED <<filings, dbErrors>>
        BY <1>10 DEF LogAudit
    <2>2. CASE ~Usable(r)
        BY <1>2, <1>10, <2>1, <2>2 DEF LogAudit, RunPC
    <2>3. CASE Usable(r)
        <3>1. Adds(r, "audit") /\ CommitAndGoto(r, "ended")
            BY <1>10, <2>3 DEF LogAudit
        <3>2. RunBecomes(r, "ended", AfterCommit(r))
            BY <1>0, <3>1, CommitEffect DEF RunPC
        <3>3. Records(r) = 0
            BY <1>0, <2>1, <2>3 DEF RecordInv
        <3>4. /\ written'[r]["audit"] = written[r]["audit"] + 1
              /\ written'[r]["output"] = written[r]["output"]
              /\ written'[r]["findings"] = written[r]["findings"]
            BY <1>0, <3>1, RowAdded DEF RowKinds
        <3>5. SessionInv(r)'
            BY <1>0, <2>3, <3>2 DEF RunBecomes, SessionInv, Authors, Usable, AfterCommit
        <3>6. RecordInv(r)'
            BY <1>n, <3>2, <3>3, <3>4 DEF RunBecomes, RecordInv, Records, Usable, Working
        <3>7. written[r]["audit"] = 0
            BY <1>n, <3>3 DEF Records
        <3> QED BY <1>3, <2>1, <3>1, <3>2, <3>5, <3>6, <3>7 DEF RowKinds, RunPC
    <2> QED BY <2>2, <2>3
<1> QED BY <1>1, <1>4, <1>5, <1>6, <1>7, <1>8, <1>9, <1>10 DEF RunNext

LEMMA RunInvLeavesTraces == RunInv => EveryRunLeavesATrace
<1> SUFFICES ASSUME RunInv, NEW r \in Runs, at[r].pc = "ended", at[r].session # "broken"
             PROVE  \/ written[r]["audit"] = 1
                    \/ /\ at[r].kind \in Authors
                       /\ written[r]["output"] + written[r]["findings"] = 1
    BY DEF EveryRunLeavesATrace
<1>1. /\ at[r].kind \in Kinds /\ written[r]["audit"] \in 0 .. 1
      /\ written[r]["output"] \in 0 .. 1 /\ written[r]["findings"] \in 0 .. 1
    BY DEF RunInv, RunTypeOK, RunRecord, RowKinds
<1>2. Records(r) = 1 /\ (at[r].kind = "orchestrator"
                            => written[r]["output"] + written[r]["findings"] = 0)
    BY DEF RunInv, RecordInv
<1> QED BY <1>1, <1>2 DEF Records, Kinds

\* Whatever a run meets - a refused answer, findings against it, a session
\* closed by its own commit - it leaves its audit row or, an agent's, what it
\* committed instead, if the database held.
THEOREM RunsLeaveTraces == RunSpec => []EveryRunLeavesATrace
BY RunInit0, RunStep, RunInvLeavesTraces, PTL DEF RunSpec

-----------------------------------------------------------------------------
(* The graph.                                                              *)

\* A run on another branch has no draft, and one that ended with a draft ended
\* at the edge out of its judgement.
GraphInv ==
    /\ GraphTypeOK
    /\ node \in Branches \cup {"coverage_init"} => author = NoAuthor
    /\ PitchesEndJudged

LEMMA GraphInit0 == GraphInit => GraphInv
<1> SUFFICES ASSUME GraphInit PROVE GraphInv
    OBVIOUS
<1>1. draft \in [status : Statuses, retries : Nat]
    BY DEF GraphInit, Statuses
<1>2. judged \in BOOLEAN /\ author \in Pitches \cup {NoAuthor} /\ node \in Nodes
    BY DEF GraphInit, Nodes
<1> QED BY <1>1, <1>2 DEF GraphInit, GraphInv, GraphTypeOK, PitchesEndJudged

LEMMA GraphStep == GraphInv /\ [GraphNext]_graphVars => GraphInv'
<1> SUFFICES ASSUME GraphInv, [GraphNext]_graphVars PROVE GraphInv'
    OBVIOUS
<1> USE DEF GraphInv, GraphTypeOK, PitchesEndJudged, Nodes, Branches, Pitches
<1>1. ASSUME LeaveInit PROVE GraphInv'
    <2>1. RouteFromInit \in Pitches \cup Branches
        BY DEF RouteFromInit, IntentMap
    <2> QED BY <1>1, <2>1 DEF LeaveInit
<1>2. ASSUME Draft PROVE GraphInv'
    <2>1. PICK status \in Statuses, retries \in RetryCounts \cup {draft.retries} :
              draft' = [status |-> status, retries |-> retries]
        BY <1>2 DEF Draft
    <2>2. draft' \in [status : Statuses, retries : Nat]
        BY <2>1, GraphAssumption
    <2> QED BY <1>2, <2>2 DEF Draft, NoAuthor
<1>3. ASSUME EndBranch PROVE GraphInv'
    BY <1>3 DEF EndBranch
<1>4. ASSUME ValidateDraft PROVE GraphInv'
    <2>1. draft' \in [status : Statuses, retries : Nat]
        BY <1>4 DEF ValidateDraft
    <2>2. node' = IF draft'.status # "approved" /\ draft'.retries < 3 THEN "lynch_pitch" ELSE "END"
        BY <1>4 DEF ValidateDraft, RouteCitationResult
    <2>3. judged' /\ judged' \in BOOLEAN /\ UNCHANGED <<intent, prerequisitesMet, author>>
        BY <1>4 DEF ValidateDraft
    <2> QED BY <2>1, <2>2, <2>3
<1>5. ASSUME NodeRaises PROVE GraphInv'
    BY <1>5 DEF NodeRaises
<1>6. ASSUME UNCHANGED graphVars PROVE GraphInv'
    BY <1>6 DEF graphVars
<1> QED BY <1>1, <1>2, <1>3, <1>4, <1>5, <1>6 DEF GraphNext

\* Whatever the nodes hand over, the run of a pitch ends with a draft that was
\* judged as it stands, approved or rejected a third time by its own count.
THEOREM EndedJudged == GraphSpec => []PitchesEndJudged
<1>1. GraphInv => PitchesEndJudged
    BY DEF GraphInv
<1> QED BY GraphInit0, GraphStep, <1>1, PTL DEF GraphSpec

-----------------------------------------------------------------------------
(* The row of an industry.                                                 *)

Dispatched == {"dispatched", "write", "saved", "failed"}

\* The unique constraint: rows and uncommitted rows of the name are one.
AtMostOneRow == \A i, j \in rows \cup inserting : i = j

InsertIsOwn == \A a \in inserting : analysis[a].pc = "commit" /\ analysis[a].industry = a

\* A request that is about to commit has a row, and another's only if that is
\* committed.
CommitHasRow ==
    \A a \in Analyses : analysis[a].pc = "commit" =>
        analysis[a].industry \in rows \/ (analysis[a].industry = a /\ a \in inserting)

ResultsHaveRow ==
    /\ \A a \in Analyses : analysis[a].pc \in Dispatched => analysis[a].industry \in rows
    /\ \A c \in LinkedCoverages : linked[c] # NoIndustry => linked[c] \in rows

RowInv ==
    /\ IndustryTypeOK
    /\ AtMostOneRow /\ InsertIsOwn /\ CommitHasRow /\ ResultsHaveRow

USE DEF Dispatched

LEMMA RowInit == IndustryInit => RowInv
<1> SUFFICES ASSUME IndustryInit PROVE RowInv
    OBVIOUS
<1>1. EmptyPrimer \in Primer
    BY DEF EmptyPrimer, Primer
<1>2. [pc |-> "idle", industry |-> NoIndustry, link |-> FALSE,
       loaded |-> EmptyPrimer, answer |-> EmptyPrimer] \in AnalysisRecord
    BY <1>1 DEF AnalysisRecord, AnalysisPC
<1>3. IndustryTypeOK
    BY <1>1, <1>2 DEF IndustryInit, IndustryTypeOK
<1>4. AtMostOneRow /\ InsertIsOwn /\ CommitHasRow /\ ResultsHaveRow
    BY DEF IndustryInit, AtMostOneRow, InsertIsOwn, CommitHasRow, ResultsHaveRow
<1> QED BY <1>3, <1>4 DEF RowInv

\* The types of the record's fields.
LEMMA Fields ==
    ASSUME IndustryTypeOK, NEW a \in Analyses
    PROVE  /\ analysis[a].pc \in AnalysisPC
           /\ analysis[a].industry \in Analyses \cup {NoIndustry}
           /\ analysis[a].answer \in Primer /\ analysis[a].loaded \in Primer
BY DEF IndustryTypeOK, AnalysisRecord

LEMMA TypeStep == IndustryTypeOK /\ [IndustryNext]_industryVars => IndustryTypeOK'
<1> SUFFICES ASSUME IndustryTypeOK, [IndustryNext]_industryVars PROVE IndustryTypeOK'
    OBVIOUS
<1> USE DEF IndustryTypeOK, AnalysisRecord, AnalysisPC
<1>1. ASSUME NEW a \in Analyses, FindIndustry(a) PROVE IndustryTypeOK'
    <2> DEFINE found == IF rows = {} THEN NoIndustry ELSE CHOOSE i \in rows : TRUE
    <2>1. found \in Analyses \cup {NoIndustry}
        OBVIOUS
    <2> HIDE DEF found
    <2>2. analysis' = [analysis EXCEPT ![a].pc = IF found = NoIndustry THEN "create" ELSE "commit",
                                       ![a].industry = found,
                                       ![a].link = (linked[CoverageOfAnalysis[a]] = NoIndustry)]
        BY <1>1 DEF FindIndustry, found
    <2>3. (linked[CoverageOfAnalysis[a]] = NoIndustry) \in BOOLEAN
        OBVIOUS
    <2>4. [analysis[a] EXCEPT !.pc = IF found = NoIndustry THEN "create" ELSE "commit",
              !.industry = found, !.link = (linked[CoverageOfAnalysis[a]] = NoIndustry)]
                \in AnalysisRecord
        BY <2>1, <2>3
    <2>5. analysis' \in [Analyses -> AnalysisRecord]
        BY <2>2, <2>4
    <2> QED BY <1>1, <2>5 DEF FindIndustry
<1>2. ASSUME NEW a \in Analyses, InsertIndustry(a) PROVE IndustryTypeOK'
    BY <1>2 DEF InsertIndustry
<1>3. ASSUME NEW a \in Analyses, NameTaken(a) PROVE IndustryTypeOK'
    BY <1>3 DEF NameTaken
<1>4. ASSUME NEW a \in Analyses, CommitIndustry(a) PROVE IndustryTypeOK'
    <2>1. linked' \in [LinkedCoverages -> Analyses \cup {NoIndustry}]
        BY <1>4, Fields DEF CommitIndustry
    <2> QED BY <1>4, <2>1 DEF CommitIndustry
<1>5. ASSUME NEW a \in Analyses, AnalysisFails(a) PROVE IndustryTypeOK'
    BY <1>5 DEF AnalysisFails
<1>6. ASSUME NEW a \in Analyses, LoadPrimer(a) PROVE IndustryTypeOK'
    <2>1. PICK w \in Words, m \in Models :
            analysis' = [analysis EXCEPT ![a].pc = "write", ![a].loaded = primer,
                             ![a].answer = [content |-> a, words |-> w, llm |-> m]]
        BY <1>6 DEF LoadPrimer
    <2>2. [content |-> a, words |-> w, llm |-> m] \in Primer
        BY DEF Primer
    <2>3. [analysis[a] EXCEPT !.pc = "write", !.loaded = primer,
              !.answer = [content |-> a, words |-> w, llm |-> m]] \in AnalysisRecord
        BY <2>2
    <2>4. analysis' \in [Analyses -> AnalysisRecord]
        BY <2>1, <2>3
    <2> QED BY <1>6, <2>4 DEF LoadPrimer
<1>7. ASSUME NEW a \in Analyses, CommitPrimer(a) PROVE IndustryTypeOK'
    <2>1. Written(a) \in Primer
        BY Fields DEF Written, Primer
    <2>2. (raced \/ primer # analysis[a].loaded) \in BOOLEAN
        BY ZenonT(20)
    <2> QED BY <1>7, <2>1, <2>2 DEF CommitPrimer
<1>8. ASSUME UNCHANGED industryVars PROVE IndustryTypeOK'
    BY <1>8 DEF industryVars
<1> QED BY <1>1, <1>2, <1>3, <1>4, <1>5, <1>6, <1>7, <1>8 DEF IndustryNext

LEMMA RowStep == RowInv /\ [IndustryNext]_industryVars => RowInv'
<1> SUFFICES ASSUME RowInv, [IndustryNext]_industryVars PROVE RowInv'
    OBVIOUS
<1>0. IndustryTypeOK /\ IndustryTypeOK'
    BY TypeStep DEF RowInv
<1> USE <1>0 DEF RowInv, AtMostOneRow, InsertIsOwn, CommitHasRow, ResultsHaveRow
<1> USE DEF IndustryTypeOK, AnalysisRecord
<1>1. ASSUME NEW a \in Analyses, FindIndustry(a) PROVE RowInv'
    <2> DEFINE found == IF rows = {} THEN NoIndustry ELSE CHOOSE i \in rows : TRUE
    <2>1. found # NoIndustry => found \in rows
        OBVIOUS
    <2> HIDE DEF found
    <2>2. /\ analysis' = [analysis EXCEPT ![a].pc = IF found = NoIndustry THEN "create" ELSE "commit",
                                          ![a].industry = found,
                                          ![a].link = (linked[CoverageOfAnalysis[a]] = NoIndustry)]
          /\ analysis[a].pc = "idle"
          /\ UNCHANGED <<rows, inserting, linked, primer, raced>>
        BY <1>1 DEF FindIndustry, found
    <2>3. /\ analysis'[a].pc = IF found = NoIndustry THEN "create" ELSE "commit"
          /\ analysis'[a].industry = found
          /\ \A b \in Analyses \ {a} : analysis'[b] = analysis[b]
        BY <2>2
    <2> QED BY <2>1, <2>2, <2>3
<1>2. ASSUME NEW a \in Analyses, InsertIndustry(a) PROVE RowInv'
    BY <1>2 DEF InsertIndustry, NameIsFree
<1>3. ASSUME NEW a \in Analyses, NameTaken(a) PROVE RowInv'
    BY <1>3 DEF NameTaken
<1>4. ASSUME NEW a \in Analyses, CommitIndustry(a) PROVE RowInv'
    <2>1. /\ analysis[a].pc = "commit"
          /\ rows' = rows \cup (inserting \cap {a}) /\ inserting' = inserting \ {a}
          /\ linked' = IF analysis[a].link
                       THEN [linked EXCEPT ![CoverageOfAnalysis[a]] = analysis[a].industry]
                       ELSE linked
        BY <1>4 DEF CommitIndustry
    <2>2. /\ analysis'[a].pc = "dispatched" /\ analysis'[a].industry = analysis[a].industry
          /\ \A b \in Analyses \ {a} : analysis'[b] = analysis[b]
        BY <1>4 DEF CommitIndustry
    <2>3. analysis[a].industry \in rows'
        BY <2>1
    <2>4. \A c \in LinkedCoverages : linked'[c] # NoIndustry => linked'[c] \in rows'
        BY <2>1, <2>3
    <2> QED BY <2>1, <2>2, <2>3, <2>4
<1>5. ASSUME NEW a \in Analyses, AnalysisFails(a) PROVE RowInv'
    BY <1>5 DEF AnalysisFails
<1>6. ASSUME NEW a \in Analyses, LoadPrimer(a) PROVE RowInv'
    <2>1. /\ analysis[a].pc = "dispatched" /\ UNCHANGED <<rows, inserting, linked>>
          /\ analysis'[a].pc = "write" /\ analysis'[a].industry = analysis[a].industry
          /\ \A b \in Analyses \ {a} : analysis'[b] = analysis[b]
        BY <1>6 DEF LoadPrimer
    <2> QED BY <2>1
<1>7. ASSUME NEW a \in Analyses, CommitPrimer(a) PROVE RowInv'
    <2>1. /\ analysis[a].pc = "write" /\ UNCHANGED <<rows, inserting, linked>>
          /\ analysis'[a].pc = "saved" /\ analysis'[a].industry = analysis[a].industry
          /\ \A b \in Analyses \ {a} : analysis'[b] = analysis[b]
        BY <1>7 DEF CommitPrimer
    <2> QED BY <2>1
<1>8. ASSUME UNCHANGED industryVars PROVE RowInv'
    BY <1>8 DEF industryVars
<1> QED BY <1>1, <1>2, <1>3, <1>4, <1>5, <1>6, <1>7, <1>8 DEF IndustryNext

\* Two requests for one name share one committed row, in what they dispatch
\* and in the coverages they link.
THEOREM SharedIndustry == IndustrySpec => []OneIndustry
<1>1. RowInv => OneIndustry
    BY DEF RowInv, OneIndustry, AtMostOneRow, ResultsHaveRow
<1> QED BY RowInit, RowStep, <1>1, PTL DEF IndustrySpec

-----------------------------------------------------------------------------
(* The primer.                                                             *)

AnswersOwn == \A a \in Analyses : analysis[a].pc = "write" => analysis[a].answer.content = a

\* Who wrote the primer has ended, so that its answer stays what it is.
PrimerSaved ==
    raced \/ primer.content = NoIndustry \/
        (analysis[primer.content].pc = "saved" /\ primer = analysis[primer.content].answer)

PrimerInv == IndustryTypeOK /\ AnswersOwn /\ PrimerSaved

LEMMA PrimerInit == IndustryInit => PrimerInv
<1>1. IndustryInit => IndustryTypeOK
    BY RowInit DEF RowInv
<1> QED BY <1>1 DEF IndustryInit, EmptyPrimer, PrimerInv, AnswersOwn, PrimerSaved

\* A step of a that leaves the primer alone.
LEMMA PrimerLeft ==
    ASSUME PrimerInv, IndustryTypeOK', NEW a \in Analyses, analysis[a].pc # "saved",
           \A b \in Analyses \ {a} : analysis'[b] = analysis[b],
           analysis'[a].pc = "write" => analysis'[a].answer.content = a,
           UNCHANGED <<primer, raced>>
    PROVE  PrimerInv'
<1>1. primer.content \in Analyses \cup {NoIndustry}
    BY DEF PrimerInv, IndustryTypeOK, Primer
<1>2. AnswersOwn'
    BY DEF PrimerInv, AnswersOwn
<1>3. PrimerSaved'
    BY <1>1 DEF PrimerInv, PrimerSaved
<1> QED BY <1>2, <1>3 DEF PrimerInv

\* Without a race all fields are the answer's: one that is not written has the
\* loaded value, which is the answer's own.
LEMMA WrittenIsAnswer ==
    ASSUME IndustryTypeOK, NEW a \in Analyses, primer = analysis[a].loaded
    PROVE  Written(a) = analysis[a].answer
<1>1. analysis[a].answer \in Primer /\ analysis[a].loaded \in Primer
    BY Fields
<1>2. Written(a) = [content |-> analysis[a].answer.content, words |-> analysis[a].answer.words,
                    llm |-> analysis[a].answer.llm]
    BY DEF Written
<1> QED BY <1>1, <1>2 DEF Primer

LEMMA PrimerStep == PrimerInv /\ [IndustryNext]_industryVars => PrimerInv'
<1> SUFFICES ASSUME PrimerInv, [IndustryNext]_industryVars PROVE PrimerInv'
    OBVIOUS
<1>0. IndustryTypeOK /\ IndustryTypeOK'
    BY TypeStep DEF PrimerInv
<1>1. ASSUME NEW a \in Analyses,
             FindIndustry(a) \/ InsertIndustry(a) \/ NameTaken(a) \/ CommitIndustry(a)
                 \/ AnalysisFails(a) \/ LoadPrimer(a)
      PROVE  PrimerInv'
    <2>1. /\ analysis[a].pc \in {"idle", "create", "commit", "dispatched"}
          /\ UNCHANGED <<primer, raced>>
        BY <1>1 DEF FindIndustry, InsertIndustry, NameTaken, CommitIndustry, AnalysisFails,
           LoadPrimer
    <2>2. /\ \A b \in Analyses \ {a} : analysis'[b] = analysis[b]
          /\ analysis'[a].pc = "write" => analysis'[a].answer.content = a
        <3>1. CASE FindIndustry(a)
            BY <1>0, <3>1 DEF FindIndustry, IndustryTypeOK, AnalysisRecord
        <3>2. CASE InsertIndustry(a) \/ NameTaken(a) \/ CommitIndustry(a) \/ AnalysisFails(a)
            BY <1>0, <3>2 DEF InsertIndustry, NameTaken, CommitIndustry, AnalysisFails,
               IndustryTypeOK, AnalysisRecord
        <3>3. CASE LoadPrimer(a)
            BY <1>0, <3>3 DEF LoadPrimer, IndustryTypeOK, AnalysisRecord
        <3> QED BY <1>1, <3>1, <3>2, <3>3
    <2> QED BY <1>0, <2>1, <2>2, PrimerLeft
<1>2. ASSUME NEW a \in Analyses, CommitPrimer(a) PROVE PrimerInv'
    <2>1. /\ analysis[a].pc = "write" /\ primer' = Written(a)
          /\ raced' = (raced \/ primer # analysis[a].loaded)
          /\ analysis' = [analysis EXCEPT ![a].pc = "saved"]
        BY <1>2 DEF CommitPrimer
    <2>2. /\ analysis'[a].pc = "saved" /\ analysis'[a].answer = analysis[a].answer
          /\ \A b \in Analyses \ {a} : analysis'[b] = analysis[b]
        BY <1>0, <2>1 DEF IndustryTypeOK, AnalysisRecord
    <2>3. AnswersOwn'
        BY <2>2 DEF PrimerInv, AnswersOwn
    <2>4. CASE raced \/ primer # analysis[a].loaded
        BY <1>0, <2>1, <2>3, <2>4 DEF PrimerInv, PrimerSaved
    <2>5. CASE primer = analysis[a].loaded
        <3>1. primer' = analysis[a].answer /\ primer'.content = a
            BY <1>0, <2>1, <2>5, WrittenIsAnswer DEF PrimerInv, AnswersOwn
        <3>2. PrimerSaved'
            BY <2>2, <3>1 DEF PrimerSaved
        <3> QED BY <1>0, <2>3, <3>2 DEF PrimerInv
    <2> QED BY <2>4, <2>5
<1>3. CASE UNCHANGED industryVars
    BY <1>0, <1>3 DEF industryVars, PrimerInv, AnswersOwn, PrimerSaved
<1> QED BY <1>1, <1>2, <1>3 DEF IndustryNext

\* The fields of a primer come from one analysis, although only those that
\* differ from what it loaded are written, unless two analyses saved at once.
THEOREM OneAnswer == IndustrySpec => []PrimerIsOneAnswer
<1>1. PrimerInv => PrimerIsOneAnswer
    BY DEF PrimerInv, PrimerSaved, PrimerIsOneAnswer
<1> QED BY PrimerInit, PrimerStep, <1>1, PTL DEF IndustrySpec

-----------------------------------------------------------------------------
(* The series of a KPI.                                                    *)

Told(entries) == \A j \in DOMAIN entries : Accounted(entries, j)

LEMMA RowsAssociate ==
    \A s, t, u \in Seq(RowRecord) : (s \o t) \o u = s \o (t \o u)
BY ConcatAssociative

LEMMA RowIsTimed == \A row \in RowRecord : row.at \in Int /\ row.base \in Nat
<1>1. Cardinality(Trackers) \in Nat
    BY FS_CardinalityType, KpiAssumption DEF KpiAssumption
<1> QED BY <1>1 DEF RowRecord

\* Whether a row is accounted for is a matter of the rows before it.
LEMMA PrefixAccounted ==
    ASSUME NEW entries \in Seq(RowRecord), NEW more \in Seq(RowRecord),
           NEW j \in DOMAIN entries, Accounted(entries, j)
    PROVE  Accounted(entries \o more, j)
<1> DEFINE longer == entries \o more
<1>1. /\ Len(entries) \in Nat /\ Len(more) \in Nat /\ DOMAIN entries = 1 .. Len(entries)
      /\ DOMAIN longer = 1 .. Len(entries) + Len(more)
      /\ \A i \in DOMAIN entries : longer[i] = entries[i]
    OBVIOUS
<1> HIDE DEF longer
<1>2. \A i : i \in OfKey(longer, entries[j].key) /\ i < j <=> i \in OfKey(entries, entries[j].key) /\ i < j
    BY <1>1 DEF OfKey
<1>3. longer[j] = entries[j] /\ \A i \in OfKey(entries, entries[j].key) : longer[i] = entries[i]
    BY <1>1 DEF OfKey
<1>4. Known(longer, j) = Known(entries, j)
    BY <1>2, <1>3 DEF Known
<1>5. \A i \in Known(entries, j) : longer[i] = entries[i]
    BY <1>3 DEF Known
<1>6. CASE entries[j].restated
    <2>1. PICK i \in OfKey(entries, entries[j].key) :
              /\ i < j /\ entries[i].value # entries[j].value
              /\ \A k \in Known(entries, j) : entries[k].at <= entries[i].at
        BY <1>6 DEF Accounted
    <2>2. i \in OfKey(longer, longer[j].key) /\ longer[i] = entries[i]
        BY <1>2, <1>3, <2>1
    <2> QED BY <1>3, <1>4, <1>5, <1>6, <2>1, <2>2 DEF Accounted, longer
<1>7. CASE ~entries[j].restated
    BY <1>3, <1>4, <1>7 DEF Accounted, longer
<1> QED BY <1>6, <1>7

\* A row that is the first of its key, or differs from one of the latest, is
\* accounted for after the rows a tracker has seen.
LEMMA AddedRowTold ==
    ASSUME NEW entries \in Seq(RowRecord), NEW x \in RowRecord, Told(entries),
           \/ OfKey(entries, x.key) = {} /\ ~x.restated
           \/ x.restated /\ \E e \in Latest(entries, x.key) : e.value # x.value
    PROVE  Told(entries \o <<x>>)
<1> DEFINE longer == entries \o <<x>>
           last == Len(entries) + 1
<1>1. /\ Len(entries) \in Nat /\ DOMAIN entries = 1 .. Len(entries) /\ DOMAIN longer = 1 .. last
      /\ longer[last] = x
      /\ \A i \in DOMAIN entries : longer[i] = entries[i] /\ entries[i] \in RowRecord
    OBVIOUS
<1>2. <<x>> \in Seq(RowRecord)
    OBVIOUS
<1>3. \A j \in DOMAIN entries : Accounted(longer, j)
    BY <1>2, PrefixAccounted DEF Told
<1> HIDE DEF longer
<1>4. \A i \in OfKey(longer, x.key) : i < last => i \in OfKey(entries, x.key)
    BY <1>1 DEF OfKey
<1>5. \A i \in OfKey(entries, x.key) :
        i \in OfKey(longer, x.key) /\ i < last /\ longer[i] = entries[i]
    BY <1>1 DEF OfKey
<1>6. Known(longer, last) \subseteq OfKey(entries, x.key)
    BY <1>1, <1>4 DEF Known
<1> HIDE DEF last
<1>7. Accounted(longer, last)
    <2>1. CASE OfKey(entries, x.key) = {} /\ ~x.restated
        BY <1>1, <1>6, <2>1 DEF Accounted
    <2>2. CASE x.restated /\ \E e \in Latest(entries, x.key) : e.value # x.value
        <3>1. PICK i \in OfKey(entries, x.key) :
                  /\ entries[i].value # x.value
                  /\ \A k \in OfKey(entries, x.key) : entries[k].at <= entries[i].at
            BY <2>2 DEF Latest
        <3>2. \A k \in Known(longer, last) : longer[k].at <= longer[i].at
            BY <1>5, <1>6, <3>1
        <3> QED BY <1>1, <1>5, <2>2, <3>1, <3>2 DEF Accounted
    <2> QED BY <2>1, <2>2
<1>8. DOMAIN longer = DOMAIN entries \cup {last}
    BY <1>1 DEF last
<1> QED BY <1>3, <1>7, <1>8 DEF Told, longer

\* Rows of another run, committed between what a run saw and what it adds,
\* leave its rows accounted for: it was not bound to see them.
LEMMA InsertedTold ==
    ASSUME NEW s \in Seq(RowRecord), NEW n \in Seq(RowRecord), NEW b \in Seq(RowRecord),
           Told(s \o n), Told(s \o b),
           \A j \in DOMAIN b : b[j].base <= Len(s) /\ \A i \in DOMAIN n : n[i].at # b[j].at
    PROVE  Told((s \o n) \o b)
<1> DEFINE old == s \o b
           new == (s \o n) \o b
           place(i) == IF i <= Len(s) THEN i ELSE i + Len(n)
<1>1. /\ Len(s) \in Nat /\ Len(n) \in Nat /\ Len(b) \in Nat /\ s \o n \in Seq(RowRecord)
      /\ DOMAIN (s \o n) = 1 .. Len(s) + Len(n) /\ DOMAIN old = 1 .. Len(s) + Len(b)
      /\ DOMAIN new = 1 .. Len(s) + Len(n) + Len(b)
      /\ DOMAIN n = 1 .. Len(n) /\ DOMAIN b = 1 .. Len(b)
    OBVIOUS
<1>2. /\ \A i \in DOMAIN old : place(i) \in DOMAIN new /\ new[place(i)] = old[i]
      /\ \A i \in DOMAIN new :
           i <= Len(s) \/ i > Len(s) + Len(n) \/ \E k \in DOMAIN n : new[i] = n[k]
    <2>1. ASSUME NEW i \in DOMAIN old PROVE place(i) \in DOMAIN new /\ new[place(i)] = old[i]
        <3>1. CASE i <= Len(s)
            <4>1. (s \o n)[i] = s[i] /\ old[i] = s[i]
                BY <1>1, <3>1
            <4>2. i \in DOMAIN (s \o n) /\ new[i] = (s \o n)[i]
                BY <1>1, <3>1
            <4> QED BY <1>1, <3>1, <4>1, <4>2
        <3>2. CASE i > Len(s)
            BY <1>1, <2>1, <3>2
        <3> QED BY <1>1, <2>1, <3>1, <3>2
    <2>2. ASSUME NEW i \in DOMAIN new, Len(s) < i, i <= Len(s) + Len(n)
          PROVE  \E k \in DOMAIN n : new[i] = n[k]
        <3>1. i - Len(s) \in DOMAIN n /\ new[i] = n[i - Len(s)]
            BY <1>1, <2>2
        <3> QED BY <3>1
    <2> HIDE DEF old, new, place
    <2>3. DOMAIN new = 1 .. Len(s) + Len(n) + Len(b)
        BY <1>1
    <2> QED BY <1>1, <2>1, <2>2, <2>3
<1>3. \A j \in 1 .. Len(b) : old[Len(s) + j] = b[j]
    BY <1>1
<1>4. \A j \in DOMAIN (s \o n) : Accounted(new, j)
    BY <1>1, PrefixAccounted DEF Told
<1> HIDE DEF old, new
<1>5. ASSUME NEW j \in DOMAIN new, j > Len(s) + Len(n)
      PROVE  Accounted(new, j)
    <2> DEFINE m == j - Len(n)
    <2>1. m \in DOMAIN old /\ m > Len(s) /\ place(m) = j /\ j \in Int /\ m \in Int
        BY <1>1, <1>5
    <2>2. new[j] = old[m]
        BY <1>2, <2>1
    <2>3. old[m].base <= Len(s) /\ \A k \in DOMAIN n : n[k].at # old[m].at
        <3>1. m - Len(s) \in 1 .. Len(b) /\ old[Len(s) + (m - Len(s))] = old[m]
            BY <1>1, <2>1
        <3>2. old[m] = b[m - Len(s)]
            BY <1>3, <3>1
        <3> QED BY <1>1, <3>1, <3>2
    <2>4. Accounted(old, m)
        BY <2>1 DEF Told, old
    <2> HIDE DEF m
    <2>5. ASSUME NEW k \in Known(new, j)
          PROVE  \E i \in Known(old, m) : k = place(i) /\ new[k] = old[i]
        <3>1. k \in DOMAIN new /\ k < j /\ new[k].key = new[j].key
              /\ (k <= new[j].base \/ new[k].at = new[j].at)
            BY DEF Known, OfKey
        <3>2. k <= Len(s) \/ k > Len(s) + Len(n)
            <4>1. CASE k <= new[j].base
                <5>1. new[j].base \in Nat
                    BY <1>1, <1>5, RowIsTimed DEF new
                <5> QED BY <1>1, <2>2, <2>3, <3>1, <4>1, <5>1
            <4>2. CASE new[k].at = new[j].at
                BY <1>2, <2>2, <2>3, <3>1, <4>2
            <4> QED BY <3>1, <4>1, <4>2
        <3> DEFINE i == IF k <= Len(s) THEN k ELSE k - Len(n)
        <3>3. i \in DOMAIN old /\ place(i) = k /\ i < m
            BY <1>1, <2>1, <3>1, <3>2 DEF m
        <3>4. new[k] = old[i]
            BY <1>2, <3>3
        <3>5. i <= old[m].base \/ old[i].at = old[m].at
            <4>1. CASE k <= new[j].base
                <5>1. new[j].base \in Nat
                    BY <1>1, <1>5, RowIsTimed DEF new
                <5> QED BY <1>1, <2>2, <2>3, <3>1, <4>1, <5>1
            <4>2. CASE new[k].at = new[j].at
                BY <2>2, <3>4, <4>2
            <4> QED BY <3>1, <4>1, <4>2
        <3> HIDE DEF i
        <3>6. i \in Known(old, m)
            BY <2>2, <3>1, <3>3, <3>4, <3>5 DEF Known, OfKey
        <3> QED BY <3>3, <3>4, <3>6
    <2>6. CASE old[m].restated
        <3>1. PICK i \in OfKey(old, old[m].key) :
                  /\ i < m /\ old[i].value # old[m].value
                  /\ \A k \in Known(old, m) : old[k].at <= old[i].at
            BY <2>4, <2>6 DEF Accounted
        <3>2. place(i) \in DOMAIN new /\ new[place(i)] = old[i] /\ place(i) < j
            <4>1. i \in DOMAIN old
                BY DEF OfKey
            <4> QED BY <1>1, <1>2, <2>1, <3>1, <4>1
        <3>3. place(i) \in OfKey(new, new[j].key)
            BY <2>2, <3>2 DEF OfKey
        <3>4. \A k \in Known(new, j) : new[k].at <= new[place(i)].at
            BY <2>5, <3>1, <3>2
        <3> HIDE DEF place
        <3> QED BY <2>2, <2>6, <3>1, <3>2, <3>3, <3>4 DEF Accounted
    <2>7. CASE ~old[m].restated
        BY <2>2, <2>4, <2>5, <2>7 DEF Accounted
    <2> QED BY <2>6, <2>7
<1>6. \A j \in DOMAIN new : j \in DOMAIN (s \o n) \/ j > Len(s) + Len(n)
    BY <1>1 DEF new
<1> QED BY <1>4, <1>5, <1>6 DEF Told, new

\* Runs of the tracker that have begun a transaction.
Begun == {r \in Trackers : tracker[r].pc # "idle"}

\* The rows a run has added carry its transaction.
Own(w, entries) ==
    \A i \in DOMAIN entries : entries[i].at = w.at /\ entries[i].base = w.base

\* Every transaction has a time of its own, and what a run has read and will
\* commit is accounted for after whatever was committed meanwhile.
KpiInv ==
    /\ KpiTypeOK
    /\ clock = Cardinality(Begun)
    /\ \A r \in Trackers :
        /\ tracker[r].pc = "upsert" => tracker[r].doc \in Docs
        /\ tracker[r].pc # "upsert" => tracker[r].batch = <<>>
        /\ tracker[r].at <= clock /\ tracker[r].base <= Len(series)
        /\ Own(tracker[r], tracker[r].batch)
    /\ \A r \in Begun, s \in Begun : tracker[r].at = tracker[s].at => r = s
    /\ Told(series)
    /\ \A r \in Trackers : Told(Seen(r))

LEMMA NothingTold == Told(<<>>)
BY DEF Told

LEMMA KpiInitInv == KpiInit => KpiInv
<1> SUFFICES ASSUME KpiInit PROVE KpiInv
    OBVIOUS
<1>1. Cardinality(Trackers) \in Nat
    BY FS_CardinalityType, KpiAssumption DEF KpiAssumption
<1>2. NotStarted \in TrackerRecord
    BY <1>1 DEF NotStarted, TrackerRecord, TrackerPC, NoDoc
<1>3. \A r \in Trackers : tracker[r] = NotStarted
    BY DEF KpiInit
<1>4. NotStarted.pc = "idle" /\ NotStarted.at = 0 /\ NotStarted.base = 0 /\ NotStarted.batch = <<>>
    BY DEF NotStarted
<1>5. KpiTypeOK
    <2>1. series \in Seq(RowRecord)
        BY DEF KpiInit
    <2>2. tracker \in [Trackers -> TrackerRecord]
        BY <1>2 DEF KpiInit
    <2>3. indexed \subseteq Docs /\ clock \in 0 .. Cardinality(Trackers)
        BY <1>1 DEF KpiInit
    <2> QED BY <1>3, <1>4, <2>1, <2>2, <2>3 DEF KpiTypeOK
<1>6. Begun = {}
    BY <1>3, <1>4 DEF Begun
<1>7. series = <<>> /\ clock = 0 /\ \A r \in Trackers : Seen(r) = <<>>
    BY <1>3, <1>4 DEF KpiInit, Seen
<1>8. \A r \in Trackers : Own(tracker[r], tracker[r].batch)
    BY <1>3, <1>4 DEF Own
<1> QED BY <1>3, <1>4, <1>5, <1>6, <1>7, <1>8, FS_EmptySet, NothingTold DEF KpiInv

(* What a step of r makes of it.                                           *)
Becomes(r, w) ==
    /\ tracker'[r] = w
    /\ tracker' \in [Trackers -> TrackerRecord]
    /\ \A s \in Trackers \ {r} : tracker'[s] = tracker[s]

(* What is known of a run between its steps.                               *)
LEMMA Underway ==
    ASSUME KpiInv, NEW r \in Trackers
    PROVE  /\ tracker[r] \in TrackerRecord
           /\ tracker[r].batch \in Seq(RowRecord)
           /\ tracker[r].pc # "upsert" => tracker[r].batch = <<>>
           /\ series \in Seq(RowRecord) /\ indexed \subseteq Docs
           /\ Seen(r) \in Seq(RowRecord) /\ Seen(r) = series \o tracker[r].batch
           /\ tracker[r].pc # "upsert" => Seen(r) = series
           /\ Own(tracker[r], tracker[r].batch)
           /\ Told(series) /\ Told(Seen(r))
<1>1. tracker[r] \in TrackerRecord /\ series \in Seq(RowRecord) /\ indexed \subseteq Docs
    BY DEF KpiInv, KpiTypeOK
<1>2. tracker[r].batch \in Seq(RowRecord)
    BY <1>1 DEF TrackerRecord
<1>3. Seen(r) \in Seq(RowRecord) /\ series \o <<>> = series
    BY <1>1, <1>2, ConcatProperties, ConcatEmptySeq DEF Seen
<1>4. /\ tracker[r].pc # "upsert" => tracker[r].batch = <<>>
      /\ Own(tracker[r], tracker[r].batch) /\ Told(series) /\ Told(Seen(r))
    BY DEF KpiInv
<1>5. tracker[r].pc # "upsert" => Seen(r) = series
    BY <1>3, <1>4 DEF Seen
<1> QED BY <1>1, <1>2, <1>3, <1>4, <1>5 DEF Seen

(* Rows a run commits leave what the others have seen and added accounted  *)
(* for.                                                                    *)
LEMMA OthersTold ==
    ASSUME KpiInv, NEW r \in Trackers, tracker[r].pc # "idle", NEW n \in Seq(RowRecord),
           Own(tracker[r], n), Told(series \o n), NEW s \in Trackers \ {r}
    PROVE  Told((series \o n) \o tracker[s].batch)
<1>1. /\ series \in Seq(RowRecord) /\ tracker[s].batch \in Seq(RowRecord)
      /\ Told(series \o tracker[s].batch) /\ Own(tracker[s], tracker[s].batch)
    BY Underway DEF Seen
<1>2. CASE tracker[s].pc = "upsert"
    <2>1. tracker[s].at # tracker[r].at /\ tracker[s].base <= Len(series)
        BY <1>2 DEF KpiInv, Begun
    <2>2. \A j \in DOMAIN tracker[s].batch :
            /\ tracker[s].batch[j].base <= Len(series)
            /\ \A i \in DOMAIN n : n[i].at # tracker[s].batch[j].at
        BY <1>1, <2>1 DEF Own
    <2> QED BY <1>1, <2>2, InsertedTold
<1>3. CASE tracker[s].pc # "upsert"
    <2>1. tracker[s].batch = <<>>
        BY <1>3 DEF KpiInv
    <2>2. series \o n \in Seq(RowRecord)
        BY <1>1, ConcatProperties
    <2> QED BY <2>1, <2>2, ConcatEmptySeq
<1> QED BY <1>2, <1>3

\* A step of a run that is under way, which commits the rows n or none.
LEMMA KeepsInv ==
    ASSUME KpiInv, NEW r \in Trackers, NEW w \in TrackerRecord, Becomes(r, w), UnderWay(r),
           clock' = clock, indexed' \subseteq Docs,
           NEW n \in Seq(RowRecord), series' = series \o n, Own(tracker[r], n),
           w.pc # "idle", w.at = tracker[r].at, w.base = tracker[r].base,
           w.pc = "upsert" => w.doc \in Docs, w.pc # "upsert" => w.batch = <<>>,
           Own(w, w.batch), Told(series'), Told(series' \o w.batch)
    PROVE  KpiInv'
<1>1. /\ tracker[r].pc # "idle" /\ series \in Seq(RowRecord) /\ series' \in Seq(RowRecord)
      /\ Len(series') \in Nat /\ Len(series) \in Nat /\ Len(series) <= Len(series')
    <2>1. series \in Seq(RowRecord)
        BY DEF KpiInv, KpiTypeOK
    <2>2. series' \in Seq(RowRecord) /\ Len(series') = Len(series) + Len(n)
        BY <2>1, ConcatProperties
    <2> QED BY <2>1, <2>2 DEF UnderWay
<1>2. KpiTypeOK'
    BY <1>1 DEF KpiInv, KpiTypeOK, Becomes
<1>3. Begun' = Begun
    BY <1>1 DEF Begun, Becomes
<1>4. (clock = Cardinality(Begun))'
    BY <1>3 DEF KpiInv
<1>5. \A s \in Trackers : tracker'[s].at = tracker[s].at /\ tracker'[s].base = tracker[s].base
    BY DEF Becomes
<1>6. ASSUME NEW s \in Trackers
      PROVE  /\ tracker'[s].pc = "upsert" => tracker'[s].doc \in Docs
             /\ tracker'[s].pc # "upsert" => tracker'[s].batch = <<>>
             /\ tracker'[s].at <= clock' /\ tracker'[s].base <= Len(series')
             /\ Own(tracker'[s], tracker'[s].batch)
             /\ Told(series' \o tracker'[s].batch)
    <2>1. tracker'[s].at <= clock' /\ tracker'[s].base <= Len(series')
        <3>1. tracker[s] \in TrackerRecord /\ tracker[s].at <= clock /\ tracker[s].base <= Len(series)
            BY DEF KpiInv, KpiTypeOK
        <3>2. tracker[s].base \in Nat
            BY <3>1 DEF TrackerRecord
        <3> QED BY <1>1, <1>5, <3>1, <3>2
    <2>2. CASE s = r
        BY <2>1, <2>2 DEF Becomes
    <2>3. CASE s # r
        <3>1. tracker'[s] = tracker[s]
            BY <2>3 DEF Becomes
        <3>2. Told(series' \o tracker[s].batch)
            BY <1>1, <2>3, OthersTold
        <3> QED BY <2>1, <3>1, <3>2 DEF KpiInv
    <2> QED BY <2>2, <2>3
<1>7. \A s \in Begun', t \in Begun' : tracker'[s].at = tracker'[t].at => s = t
    BY <1>3, <1>5 DEF KpiInv, Begun
<1>8. Told(series)' /\ \A s \in Trackers : Told(Seen(s))'
    BY <1>6 DEF Told, Accounted, Known, OfKey, Seen
<1> QED BY <1>2, <1>4, <1>6, <1>7, <1>8 DEF KpiInv, Own

\* The steps that commit nothing.
LEMMA KeepsRows ==
    ASSUME KpiInv, NEW r \in Trackers, NEW w \in TrackerRecord, Becomes(r, w), UnderWay(r),
           UNCHANGED <<indexed, series, clock>>,
           w.pc # "idle", w.at = tracker[r].at, w.base = tracker[r].base,
           w.pc = "upsert" => w.doc \in Docs, w.pc # "upsert" => w.batch = <<>>,
           Own(w, w.batch), Told(series \o w.batch)
    PROVE  KpiInv'
<1>1. series \in Seq(RowRecord) /\ Told(series) /\ indexed \subseteq Docs
    BY Underway
<1>2. <<>> \in Seq(RowRecord) /\ series \o <<>> = series /\ Own(tracker[r], <<>>)
    BY <1>1, ConcatEmptySeq DEF Own
<1>3. series' = series \o <<>> /\ Told(series') /\ Told(series' \o w.batch)
    BY <1>1, <1>2
<1> QED BY <1>1, <1>2, <1>3, KeepsInv

LEMMA OnlyIndexedChanges ==
    ASSUME KpiInv, indexed' \subseteq Docs, UNCHANGED <<series, tracker, clock>>
    PROVE  KpiInv'
<1>1. KpiTypeOK' /\ Begun' = Begun
    BY DEF KpiInv, KpiTypeOK, Begun
<1>2. Told(series)' /\ \A r \in Trackers : Told(Seen(r))'
    <2>1. Told(series') /\ \A r \in Trackers : Told(series' \o tracker'[r].batch)
        BY DEF KpiInv, Seen
    <2> QED BY <2>1 DEF Told, Accounted, Known, OfKey, Seen
<1>3. (clock = Cardinality(Begun))'
    BY <1>1 DEF KpiInv
<1> QED BY <1>1, <1>2, <1>3 DEF KpiInv, Own

LEMMA IndexKeepsInv == ASSUME KpiInv, NEW d \in Docs, IndexDocument(d) PROVE KpiInv'
<1>1. UNCHANGED <<series, tracker, clock>> /\ indexed' \subseteq Docs
    BY DEF IndexDocument, KpiInv, KpiTypeOK
<1> QED BY <1>1, OnlyIndexedChanges

LEMMA StutterKeepsInv == ASSUME KpiInv, UNCHANGED kpiVars PROVE KpiInv'
<1>1. UNCHANGED <<series, tracker, clock>> /\ indexed' \subseteq Docs
    BY DEF kpiVars, KpiInv, KpiTypeOK
<1> QED BY <1>1, OnlyIndexedChanges

(* What the steps make of a record.                                        *)
LEMMA UpsertOfDocument ==
    ASSUME NEW w \in TrackerRecord, NEW d \in w.docs
    PROVE  [w EXCEPT !.pc = "upsert", !.docs = @ \ {d}, !.doc = d, !.item = 1] \in TrackerRecord
<1>1. w.docs \in SUBSET Docs /\ w.docs \ {d} \in SUBSET Docs /\ d \in Docs \cup {NoDoc}
    BY DEF TrackerRecord
<1>2. 1 \in Nat \ {0} /\ "upsert" \in TrackerPC
    BY DEF TrackerPC
<1> QED BY <1>1, <1>2 DEF TrackerRecord

LEMMA ItemAdded ==
    ASSUME NEW w \in TrackerRecord, NEW entries \in Seq(RowRecord)
    PROVE  [w EXCEPT !.item = @ + 1, !.batch = @ \o entries] \in TrackerRecord
<1>1. w.batch \o entries \in Seq(RowRecord)
    BY ConcatProperties DEF TrackerRecord
<1>2. w.item + 1 \in Nat \ {0}
    BY DEF TrackerRecord
<1> QED BY <1>1, <1>2 DEF TrackerRecord

LEMMA BatchDropped ==
    ASSUME NEW w \in TrackerRecord
    PROVE  /\ [w EXCEPT !.pc = "extract", !.session = "closed", !.batch = <<>>] \in TrackerRecord
           /\ [w EXCEPT !.pc = "failed", !.batch = <<>>] \in TrackerRecord
<1>1. <<>> \in Seq(RowRecord)
    OBVIOUS
<1>2. [w EXCEPT !.pc = "extract", !.session = "closed", !.batch = <<>>] \in TrackerRecord
    BY <1>1 DEF TrackerRecord, TrackerPC
<1>3. [w EXCEPT !.pc = "failed", !.batch = <<>>] \in TrackerRecord
    BY <1>1 DEF TrackerRecord, TrackerPC
<1> QED BY <1>2, <1>3

\* A run with no rows of its own.
LEMMA EmptyBatch ==
    ASSUME KpiInv, NEW w, w.batch = <<>>
    PROVE  Own(w, w.batch) /\ series \o w.batch = series /\ Told(series \o w.batch)
<1>1. series \in Seq(RowRecord) /\ Told(series)
    BY DEF KpiInv, KpiTypeOK
<1>2. series \o <<>> = series
    BY <1>1, ConcatEmptySeq
<1> QED BY <1>1, <1>2 DEF Own

LEMMA SkipKeepsInv == ASSUME KpiInv, NEW r \in Trackers, SkipDocument(r) PROVE KpiInv'
<1>1. PICK d \in tracker[r].docs : tracker' = [tracker EXCEPT ![r].docs = @ \ {d}]
    BY DEF SkipDocument
<1> DEFINE w == [tracker[r] EXCEPT !.docs = @ \ {d}]
<1>2. /\ w \in TrackerRecord /\ w.pc = tracker[r].pc /\ w.at = tracker[r].at
      /\ w.base = tracker[r].base /\ w.batch = tracker[r].batch
    BY Underway DEF TrackerRecord
<1>3. Becomes(r, w)
    BY <1>1, <1>2 DEF Becomes, KpiInv, KpiTypeOK
<1>4. UnderWay(r) /\ tracker[r].pc = "extract" /\ UNCHANGED <<indexed, series, clock>>
    BY DEF SkipDocument, UnderWay
<1>5. w.batch = <<>>
    BY <1>2, <1>4, Underway
<1> HIDE DEF w
<1> QED BY <1>2, <1>3, <1>4, <1>5, EmptyBatch, KeepsRows

LEMMA StartUpsertKeepsInv == ASSUME KpiInv, NEW r \in Trackers, StartUpsert(r) PROVE KpiInv'
<1>1. PICK d \in tracker[r].docs :
        tracker' = [tracker EXCEPT ![r].pc = "upsert", ![r].docs = @ \ {d}, ![r].doc = d, ![r].item = 1]
    BY DEF StartUpsert
<1> DEFINE w == [tracker[r] EXCEPT !.pc = "upsert", !.docs = @ \ {d}, !.doc = d, !.item = 1]
<1>2. /\ w \in TrackerRecord /\ w.pc = "upsert" /\ w.at = tracker[r].at
      /\ w.base = tracker[r].base /\ w.batch = tracker[r].batch /\ w.doc \in Docs
    <2>1. tracker[r] \in TrackerRecord
        BY Underway
    <2>2. w \in TrackerRecord
        BY <2>1, UpsertOfDocument
    <2> QED BY <2>1, <2>2 DEF TrackerRecord
<1>3. Becomes(r, w)
    BY <1>1, <1>2 DEF Becomes, KpiInv, KpiTypeOK
<1>4. UnderWay(r) /\ tracker[r].pc = "extract" /\ UNCHANGED <<indexed, series, clock>>
    BY DEF StartUpsert, UnderWay
<1>5. w.batch = <<>>
    BY <1>2, <1>4, Underway
<1> HIDE DEF w
<1> QED BY <1>2, <1>3, <1>4, <1>5, EmptyBatch, KeepsRows

LEMMA CommitKeepsInv == ASSUME KpiInv, NEW r \in Trackers, CommitRows(r) PROVE KpiInv'
<1> DEFINE w == [tracker[r] EXCEPT !.pc = "extract", !.session = "closed", !.batch = <<>>]
<1>1. /\ w \in TrackerRecord /\ w.pc = "extract" /\ w.at = tracker[r].at
      /\ w.base = tracker[r].base /\ w.batch = <<>>
    <2>1. tracker[r] \in TrackerRecord
        BY Underway
    <2>2. w \in TrackerRecord
        BY <2>1, BatchDropped
    <2> QED BY <2>1, <2>2 DEF TrackerRecord
<1>2. Becomes(r, w)
    BY <1>1 DEF Becomes, KpiInv, KpiTypeOK, CommitRows
<1>3. UnderWay(r) /\ series' = Seen(r) /\ UNCHANGED <<indexed, clock>>
    BY DEF CommitRows, UnderWay
<1>4. /\ tracker[r].batch \in Seq(RowRecord) /\ Own(tracker[r], tracker[r].batch)
      /\ series' = series \o tracker[r].batch /\ Told(series') /\ indexed' \subseteq Docs
      /\ series' \in Seq(RowRecord)
    BY <1>3, Underway
<1>5. series' \o w.batch = series' /\ Own(w, w.batch)
    BY <1>1, <1>4, ConcatEmptySeq DEF Own
<1>6. Told(series' \o w.batch)
    BY <1>4, <1>5
<1> HIDE DEF w
<1> QED BY <1>1, <1>2, <1>3, <1>4, <1>5, <1>6, KeepsInv

LEMMA RaisesKeepsInv == ASSUME KpiInv, NEW r \in Trackers, TrackerRaises(r) PROVE KpiInv'
<1> DEFINE w == [tracker[r] EXCEPT !.pc = "failed", !.batch = <<>>]
<1>1. /\ w \in TrackerRecord /\ w.pc = "failed" /\ w.at = tracker[r].at
      /\ w.base = tracker[r].base /\ w.batch = <<>>
    <2>1. tracker[r] \in TrackerRecord
        BY Underway
    <2>2. w \in TrackerRecord
        BY <2>1, BatchDropped
    <2> QED BY <2>1, <2>2 DEF TrackerRecord
<1>2. Becomes(r, w)
    BY <1>1 DEF Becomes, KpiInv, KpiTypeOK, TrackerRaises
<1>3. UnderWay(r) /\ UNCHANGED <<indexed, series, clock>>
    BY DEF TrackerRaises, UnderWay
<1> HIDE DEF w
<1> QED BY <1>1, <1>2, <1>3, EmptyBatch, KeepsRows

LEMMA ReturnsKeepsInv == ASSUME KpiInv, NEW r \in Trackers, TrackerReturns(r) PROVE KpiInv'
<1> DEFINE w == [tracker[r] EXCEPT !.pc = "completed"]
<1>1. /\ w \in TrackerRecord /\ w.pc = "completed" /\ w.at = tracker[r].at
      /\ w.base = tracker[r].base /\ w.batch = tracker[r].batch
    BY Underway DEF TrackerRecord, TrackerPC
<1>2. Becomes(r, w)
    BY <1>1 DEF Becomes, KpiInv, KpiTypeOK, TrackerReturns
<1>3. UnderWay(r) /\ tracker[r].pc = "extract" /\ UNCHANGED <<indexed, series, clock>>
    BY DEF TrackerReturns, UnderWay
<1>4. w.batch = <<>>
    BY <1>1, <1>3, Underway
<1> HIDE DEF w
<1> QED BY <1>1, <1>2, <1>3, <1>4, EmptyBatch, KeepsRows

LEMMA RowOwned ==
    ASSUME NEW w \in TrackerRecord, NEW x \in RowRecord, x.at = w.at, x.base = w.base
    PROVE  <<x>> \in Seq(RowRecord) /\ Own(w, <<x>>)
BY DEF Own

LEMMA ItemKeepsInv == ASSUME KpiInv, NEW r \in Trackers, UpsertItem(r) PROVE KpiInv'
<1> DEFINE item == Answer[tracker[r].doc][tracker[r].item]
           Row(restated) == [key |-> item[1], value |-> item[2], restated |-> restated,
                             name |-> Cited[tracker[r].doc], at |-> tracker[r].at,
                             base |-> tracker[r].base]
           Grows(entries) == tracker' = [tracker EXCEPT ![r].item = @ + 1, ![r].batch = @ \o entries]
<1>1. /\ UnderWay(r) /\ tracker[r].pc = "upsert" /\ tracker[r].doc \in Docs
      /\ tracker[r].item \in DOMAIN Answer[tracker[r].doc]
      /\ UNCHANGED <<indexed, series, clock>>
    BY DEF UpsertItem, UnderWay, KpiInv
<1>2. item \in Items
    BY <1>1 DEF Items
<1>3. item[1] \in Keys /\ item[2] \in Values
    BY <1>2 DEF Keys, Values
<1>4. tracker[r].at \in 1 .. Cardinality(Trackers) /\ tracker[r].base \in Nat
    <2>1. tracker[r] \in TrackerRecord /\ tracker[r].at # 0
        BY <1>1 DEF KpiInv, KpiTypeOK
    <2> QED BY <2>1, FS_CardinalityType, KpiAssumption DEF TrackerRecord, KpiAssumption
<1>5. \A restated \in BOOLEAN : Row(restated) \in RowRecord
    BY <1>1, <1>3, <1>4 DEF RowRecord
<1>6. /\ Seen(r) \in Seq(RowRecord) /\ tracker[r] \in TrackerRecord
      /\ tracker[r].batch \in Seq(RowRecord) /\ Own(tracker[r], tracker[r].batch)
      /\ series \in Seq(RowRecord) /\ Told(Seen(r)) /\ Seen(r) = series \o tracker[r].batch
    BY Underway
<1>7. \E entries \in Seq(RowRecord) :
        Grows(entries) /\ Told(Seen(r) \o entries) /\ Own(tracker[r], entries)
    <2>1. CASE OfKey(Seen(r), item[1]) = {}
        <3>1. Grows(<<Row(FALSE)>>)
            BY <2>1 DEF UpsertItem
        <3>2. Row(FALSE) \in RowRecord /\ Row(FALSE).key = item[1] /\ ~Row(FALSE).restated
            BY <1>5
        <3>3. Told(Seen(r) \o <<Row(FALSE)>>)
            BY <1>6, <2>1, <3>2, AddedRowTold
        <3>4. <<Row(FALSE)>> \in Seq(RowRecord) /\ Own(tracker[r], <<Row(FALSE)>>)
            <4>1. Row(FALSE).at = tracker[r].at /\ Row(FALSE).base = tracker[r].base
                OBVIOUS
            <4> HIDE DEF Row
            <4> QED BY <1>6, <3>2, <4>1, RowOwned
        <3> QED BY <3>1, <3>3, <3>4, Zenon
    <2>2. CASE OfKey(Seen(r), item[1]) # {}
        <3>1. PICK existing \in Latest(Seen(r), item[1]) :
                Grows(IF existing.value = item[2] THEN <<>> ELSE <<Row(TRUE)>>)
            BY <2>2 DEF UpsertItem
        <3>2. CASE existing.value = item[2]
            <4>1. Grows(<<>>) /\ <<>> \in Seq(RowRecord) /\ Own(tracker[r], <<>>)
                BY <3>1, <3>2 DEF Own
            <4>2. Seen(r) \o <<>> = Seen(r)
                BY <1>6, ConcatEmptySeq
            <4> QED BY <1>6, <4>1, <4>2
        <3>3. CASE existing.value # item[2]
            <4>1. Grows(<<Row(TRUE)>>)
                BY <3>1, <3>3
            <4>2. Row(TRUE) \in RowRecord /\ Row(TRUE).key = item[1] /\ Row(TRUE).restated
                  /\ Row(TRUE).value = item[2]
                BY <1>5
            <4>3. Told(Seen(r) \o <<Row(TRUE)>>)
                BY <1>6, <3>3, <4>2, AddedRowTold
            <4>4. <<Row(TRUE)>> \in Seq(RowRecord) /\ Own(tracker[r], <<Row(TRUE)>>)
                <5>1. Row(TRUE).at = tracker[r].at /\ Row(TRUE).base = tracker[r].base
                    OBVIOUS
                <5> HIDE DEF Row
                <5> QED BY <1>6, <4>2, <5>1, RowOwned
            <4> QED BY <4>1, <4>3, <4>4, Zenon
        <3> QED BY <3>2, <3>3
    <2> QED BY <2>1, <2>2
<1>8. PICK entries \in Seq(RowRecord) :
        Grows(entries) /\ Told(Seen(r) \o entries) /\ Own(tracker[r], entries)
    BY <1>7
<1> DEFINE w == [tracker[r] EXCEPT !.item = @ + 1, !.batch = @ \o entries]
<1>9. w \in TrackerRecord
    BY <1>6, ItemAdded
<1>10. /\ w.pc = "upsert" /\ w.at = tracker[r].at /\ w.base = tracker[r].base
       /\ w.doc = tracker[r].doc /\ w.batch = tracker[r].batch \o entries
    BY <1>1, <1>6 DEF TrackerRecord
<1>11. Becomes(r, w)
    BY <1>8, <1>9 DEF Becomes, KpiInv, KpiTypeOK
<1>12. series \o w.batch = Seen(r) \o entries
    <2>1. entries \in Seq(RowRecord)
        BY <1>8
    <2>2. (series \o tracker[r].batch) \o entries = series \o (tracker[r].batch \o entries)
        BY <1>6, <2>1, RowsAssociate, Zenon
    <2> QED BY <1>6, <1>10, <2>2
<1> HIDE DEF w, item, Row, Grows
<1>13. Own(w, w.batch)
    <2>1. \A i \in DOMAIN (tracker[r].batch \o entries) :
            \/ \E j \in DOMAIN tracker[r].batch :
                 (tracker[r].batch \o entries)[i] = tracker[r].batch[j]
            \/ \E j \in DOMAIN entries : (tracker[r].batch \o entries)[i] = entries[j]
        <3> DEFINE b == tracker[r].batch
        <3>1. b \in Seq(RowRecord) /\ entries \in Seq(RowRecord)
            BY <1>6, <1>8
        <3> HIDE DEF b
        <3>2. ASSUME NEW i \in DOMAIN (b \o entries)
              PROVE  \/ \E j \in DOMAIN b : (b \o entries)[i] = b[j]
                     \/ \E j \in DOMAIN entries : (b \o entries)[i] = entries[j]
            <4>1. CASE i <= Len(b)
                <5>1. i \in DOMAIN b /\ (b \o entries)[i] = b[i]
                    BY <3>1, <4>1
                <5> QED BY <5>1
            <4>2. CASE ~(i <= Len(b))
                <5>1. i - Len(b) \in DOMAIN entries /\ (b \o entries)[i] = entries[i - Len(b)]
                    BY <3>1, <4>2
                <5> QED BY <5>1
            <4> QED BY <4>1, <4>2
        <3> QED BY <3>2 DEF b
    <2> QED BY <1>6, <1>8, <1>10, <2>1 DEF Own
<1>14. Told(series \o w.batch)
    BY <1>8, <1>12
<1> QED BY <1>1, <1>9, <1>10, <1>11, <1>13, <1>14, KeepsRows

LEMMA StartKeepsInv == ASSUME KpiInv, NEW r \in Trackers, StartTracker(r) PROVE KpiInv'
<1> DEFINE w == [tracker[r] EXCEPT !.pc = "extract", !.docs = Unextracted, !.at = clock',
                                   !.base = Len(series)]
<1>1. tracker[r] \in TrackerRecord /\ tracker[r].pc = "idle" /\ tracker[r].batch = <<>>
      /\ series \in Seq(RowRecord) /\ clock' = clock + 1 /\ UNCHANGED <<indexed, series>>
    BY Underway DEF StartTracker
<1>2. IsFiniteSet(Trackers) /\ IsFiniteSet(Begun) /\ Cardinality(Trackers) \in Nat
      /\ clock = Cardinality(Begun) /\ clock \in Nat
    <2>1. IsFiniteSet(Trackers) /\ Begun \subseteq Trackers
        BY KpiAssumption DEF KpiAssumption, Begun
    <2> QED BY <2>1, FS_Subset, FS_CardinalityType DEF KpiInv
<1>3. r \notin Begun
    BY <1>1 DEF Begun
<1>4. Cardinality(Begun \cup {r}) = clock + 1 /\ clock + 1 <= Cardinality(Trackers)
    <2>1. Cardinality(Begun \cup {r}) = clock + 1
        BY <1>2, <1>3, FS_AddElement
    <2>2. Begun \cup {r} \subseteq Trackers
        BY DEF Begun
    <2> QED BY <1>2, <2>1, <2>2, FS_Subset
<1>5. clock' \in 0 .. Cardinality(Trackers) /\ clock' # 0
    BY <1>1, <1>2, <1>4
<1>6. w \in TrackerRecord
    <2>1. Unextracted \in SUBSET Docs /\ Len(series) \in Nat
        BY <1>1 DEF Unextracted, KpiInv, KpiTypeOK
    <2>2. "extract" \in TrackerPC
        BY DEF TrackerPC
    <2> QED BY <1>1, <1>5, <2>1, <2>2 DEF TrackerRecord
<1>7. w.pc = "extract" /\ w.at = clock' /\ w.batch = <<>> /\ w.base = Len(series)
    BY <1>1 DEF TrackerRecord
<1>8. tracker' = [tracker EXCEPT ![r] = w]
    BY DEF StartTracker, KpiInv, KpiTypeOK
<1> HIDE DEF w
<1>9. Becomes(r, w)
    BY <1>6, <1>8 DEF Becomes, KpiInv, KpiTypeOK
<1>10. Begun' = Begun \cup {r}
    BY <1>7, <1>9 DEF Becomes, Begun
<1>11. (clock = Cardinality(Begun))'
    BY <1>1, <1>4, <1>10
<1>12. KpiTypeOK'
    BY <1>1, <1>5, <1>7, <1>9 DEF Becomes, KpiInv, KpiTypeOK
<1>13. ASSUME NEW s \in Trackers
       PROVE  /\ tracker'[s].pc = "upsert" => tracker'[s].doc \in Docs
              /\ tracker'[s].pc # "upsert" => tracker'[s].batch = <<>>
              /\ tracker'[s].at <= clock' /\ tracker'[s].base <= Len(series')
              /\ Own(tracker'[s], tracker'[s].batch)
              /\ Told(series \o tracker'[s].batch)
    <2>1. CASE s = r
        BY <1>1, <1>2, <1>7, <1>9, <2>1, EmptyBatch DEF Becomes
    <2>2. CASE s # r
        <3>1. tracker'[s] = tracker[s]
            BY <1>9, <2>2 DEF Becomes
        <3>2. tracker[s].at <= clock + 1
            <4>1. tracker[s] \in TrackerRecord /\ tracker[s].at <= clock
                BY DEF KpiInv, KpiTypeOK
            <4>2. tracker[s].at \in Int
                BY <1>2, <4>1 DEF TrackerRecord
            <4> QED BY <1>2, <4>1, <4>2
        <3> QED BY <1>1, <3>1, <3>2 DEF KpiInv, Seen
    <2> QED BY <2>1, <2>2
<1>14. ASSUME NEW s \in Begun', NEW t \in Begun', tracker'[s].at = tracker'[t].at
       PROVE  s = t
    <2>1. \A u \in Begun : tracker'[u] = tracker[u] /\ tracker[u].at # clock'
        <3>1. \A u \in Begun : tracker[u].at \in Int /\ tracker[u].at <= clock
            BY <1>2 DEF KpiInv, KpiTypeOK, Begun, TrackerRecord
        <3> QED BY <1>1, <1>2, <1>3, <1>9, <3>1 DEF Becomes, Begun
    <2>2. tracker'[r].at = clock'
        BY <1>7, <1>9 DEF Becomes
    <2>3. s \in Begun \cup {r} /\ t \in Begun \cup {r}
        BY <1>10
    <2>4. CASE s \in Begun /\ t \in Begun
        BY <1>14, <2>1, <2>4 DEF KpiInv
    <2>5. CASE s = r \/ t = r
        BY <1>14, <2>1, <2>2, <2>3, <2>5
    <2> QED BY <2>3, <2>4, <2>5
<1>15. Told(series)' /\ \A s \in Trackers : Told(Seen(s))'
    <2>1. Told(series') /\ \A s \in Trackers : Told(series' \o tracker'[s].batch)
        BY <1>1, <1>13 DEF KpiInv
    <2> QED BY <2>1 DEF Told, Accounted, Known, OfKey, Seen
<1> QED BY <1>11, <1>12, <1>13, <1>14, <1>15 DEF KpiInv, Own

LEMMA KpiStepInv == KpiInv /\ [KpiNext]_kpiVars => KpiInv'
<1> SUFFICES ASSUME KpiInv, [KpiNext]_kpiVars PROVE KpiInv'
    OBVIOUS
<1>1. CASE UNCHANGED kpiVars
    BY <1>1, StutterKeepsInv
<1>2. ASSUME NEW d \in Docs, IndexDocument(d) PROVE KpiInv'
    BY <1>2, IndexKeepsInv
<1>3. ASSUME NEW r \in Trackers, StartTracker(r) PROVE KpiInv'
    BY <1>3, StartKeepsInv
<1>4. ASSUME NEW r \in Trackers, SkipDocument(r) PROVE KpiInv'
    BY <1>4, SkipKeepsInv
<1>5. ASSUME NEW r \in Trackers, StartUpsert(r) PROVE KpiInv'
    BY <1>5, StartUpsertKeepsInv
<1>6. ASSUME NEW r \in Trackers, UpsertItem(r) PROVE KpiInv'
    BY <1>6, ItemKeepsInv
<1>7. ASSUME NEW r \in Trackers, CommitRows(r) PROVE KpiInv'
    BY <1>7, CommitKeepsInv
<1>8. ASSUME NEW r \in Trackers, TrackerRaises(r) PROVE KpiInv'
    BY <1>8, RaisesKeepsInv
<1>9. ASSUME NEW r \in Trackers, TrackerReturns(r) PROVE KpiInv'
    BY <1>9, ReturnsKeepsInv
<1> QED BY <1>1, <1>2, <1>3, <1>4, <1>5, <1>6, <1>7, <1>8, <1>9 DEF KpiNext

\* However runs overlap and rows tie, a row of the series that is marked
\* restated is a change of a row before it, no older than any its run was bound
\* to see, and a row not marked is the first its run was bound to see: for any
\* documents, answers and runs.
THEOREM RestatementsAccounted == KpiSpec => []RestatedMeansChanged
<1>1. KpiInv => RestatedMeansChanged
    BY DEF KpiInv, Told, RestatedMeansChanged
<1> QED BY <1>1, KpiInitInv, KpiStepInv, PTL DEF KpiSpec

-----------------------------------------------------------------------------
(* The agents together, as they are checked.                               *)

AgentsInv == KpiInv /\ RowInv /\ PrimerInv /\ RunInv /\ GraphInv

LEMMA AgentsStep == AgentsInv /\ [Next]_vars => AgentsInv'
<1> SUFFICES ASSUME AgentsInv, [Next]_vars PROVE AgentsInv'
    OBVIOUS
<1>1. /\ [KpiNext]_kpiVars /\ [IndustryNext]_industryVars
      /\ [RunNext]_runVars /\ [GraphNext]_graphVars
    BY DEF Next, vars
<1> QED BY <1>1, KpiStepInv, RowStep, PrimerStep, RunStep, GraphStep DEF AgentsInv

\* What is proved of each agent holds of the specification that composes them,
\* and every variable has its type.
THEOREM AgentsTogether ==
    Spec => [](/\ TypeOK /\ RestatedMeansChanged /\ OneIndustry /\ PrimerIsOneAnswer
               /\ EveryRunLeavesATrace /\ PitchesEndJudged)
<1>1. Init => AgentsInv
    BY KpiInitInv, RowInit, PrimerInit, RunInit0, GraphInit0 DEF Init, AgentsInv
<1>2. AgentsInv => TypeOK
    BY DEF AgentsInv, TypeOK, KpiInv, RowInv, RunInv, GraphInv
<1>3. AgentsInv => RestatedMeansChanged /\ OneIndustry /\ PrimerIsOneAnswer
    BY DEF AgentsInv, KpiInv, Told, RestatedMeansChanged, RowInv, OneIndustry, AtMostOneRow,
       ResultsHaveRow, PrimerInv, PrimerSaved, PrimerIsOneAnswer
<1>4. AgentsInv => EveryRunLeavesATrace /\ PitchesEndJudged
    BY RunInvLeavesTraces DEF AgentsInv, GraphInv
<1> QED BY <1>1, <1>2, <1>3, <1>4, AgentsStep, PTL DEF Spec
=============================================================================
