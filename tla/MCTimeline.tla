----------------------------- MODULE MCTimeline -----------------------------
(* The TLC instance of Timeline. *)
EXTENDS Timeline
=============================================================================
