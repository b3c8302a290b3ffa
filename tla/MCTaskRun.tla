------------------------------ MODULE MCTaskRun ------------------------------
(* TLC instances of TaskRun: see the .cfg files whose runs name this module. *)
EXTENDS TaskRun
=============================================================================
