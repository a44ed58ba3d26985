-------------------------- MODULE MCIngestionLive --------------------------
(* Ingestion with fair workers, two requests, documents of two batches and *)
(* more retries and faults.  No symmetry: the run checks liveness.         *)
EXTENDS Ingestion
=============================================================================
