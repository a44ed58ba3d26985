----------------------------- MODULE MCScheduler -----------------------------
(* Scheduler on small instances; the cfgs give the other constants.        *)
EXTENDS Scheduler, TLC

CONSTANTS c1, q1, k1

\* Two filings of one coverage, of different forms.
MCCoverageOf == (q1 :> c1) @@ (k1 :> c1)
MCFormOf == (q1 :> "10-Q") @@ (k1 :> "10-K")
=============================================================================
