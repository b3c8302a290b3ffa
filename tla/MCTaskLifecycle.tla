--------------------------- MODULE MCTaskLifecycle ---------------------------
(* TLC instance of TaskLifecycle: see MCTaskLifecycle.cfg. *)
EXTENDS TaskLifecycle
=============================================================================
