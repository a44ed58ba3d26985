---------------------------- MODULE MCIngestion ----------------------------
(* Ingestion on a small instance; the cfg gives the constants.  Documents, *)
(* tasks and workers are interchangeable, and no property of the run is a  *)
(* liveness property, so their permutations are a sound symmetry.          *)
EXTENDS Ingestion, TLC

Symmetry == Permutations(Requests) \cup Permutations(Workers)
=============================================================================
