-------------------------- MODULE MCWorkerManager --------------------------
(* Instances of WorkerManager for TLC. *)
EXTENDS WorkerManager
=============================================================================
