---------------------------- MODULE MCWorkerLoop ----------------------------
(* WorkerLoop for TLC. *)
EXTENDS WorkerLoop
=============================================================================
