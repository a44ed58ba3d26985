------------------------------- MODULE Agents -------------------------------
(* The agents, which run apart from one another: each behaviour is one     *)
(* scene, the runs of one of them, and the others stay as they were.       *)
EXTENDS KpiTracker, IndustryPrimer, AgentRun, CoverageGraph

VARIABLE scene

vars == <<scene, kpiVars, industryVars, runVars, graphVars>>

RunAtRest == filings = {} /\ \A r \in Runs : at[r].kind = "orchestrator"
GraphAtRest == intent = "other" /\ prerequisitesMet

Init ==
    /\ scene \in {"kpi", "industry", "run", "graph"}
    /\ KpiInit /\ IndustryInit
    /\ RunInit /\ (scene = "run" \/ RunAtRest)
    /\ GraphInit /\ (scene = "graph" \/ GraphAtRest)

Next ==
    \/ scene = "kpi" /\ KpiNext /\ UNCHANGED <<scene, industryVars, runVars, graphVars>>
    \/ scene = "industry" /\ IndustryNext /\ UNCHANGED <<scene, kpiVars, runVars, graphVars>>
    \/ scene = "run" /\ RunNext /\ UNCHANGED <<scene, kpiVars, industryVars, graphVars>>
    \/ scene = "graph" /\ GraphNext /\ UNCHANGED <<scene, kpiVars, industryVars, runVars>>

Spec == Init /\ [][Next]_vars

-----------------------------------------------------------------------------

\* Every variable of the four modules has its type.
TypeOK == KpiTypeOK /\ IndustryTypeOK /\ RunTypeOK /\ GraphTypeOK
=============================================================================
