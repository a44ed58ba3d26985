------------------------------ MODULE MCAgents ------------------------------
(* Three trackers of two documents, two analyses and two runs.             *)
EXTENDS Agents, TLC

\* a gives l twice; b restates k, and is cited by another name.
KpiAnswer == [d \in {"a", "b"} |->
    IF d = "a" THEN <<<<"k", 1>>, <<"l", 1>>, <<"l", 2>>>> ELSE <<<<"k", 2>>>>]
KpiCited == [d \in {"a", "b"} |-> IF d = "b" THEN "filing" ELSE d]

\* No property tells one run of the tracker from another.
TrackerSymmetry == Permutations(Trackers)

MCAnalyses == {"p", "q"}
MCCoverage == [a \in MCAnalyses |-> IF a = "p" THEN "c1" ELSE "c2"]
=============================================================================
