------------------------- MODULE MCWorkerSupervisor -------------------------
(* The TLC instance of WorkerSupervisor. *)
EXTENDS WorkerSupervisor
=============================================================================
