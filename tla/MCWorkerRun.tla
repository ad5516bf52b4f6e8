---------------------------- MODULE MCWorkerRun ----------------------------
(* Instances of WorkerRun for TLC. *)
EXTENDS WorkerRun, TLC
=============================================================================
