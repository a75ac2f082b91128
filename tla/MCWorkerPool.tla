--------------------------- MODULE MCWorkerPool ---------------------------
(* Instances of WorkerPool for TLC; the constants are in the .cfg files.      *)
EXTENDS WorkerPool
=============================================================================
