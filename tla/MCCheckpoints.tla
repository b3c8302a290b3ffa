---------------------------- MODULE MCCheckpoints ----------------------------
(***************************************************************************)
(* Checkpoints for TLC: two calls in flight, two keys and two ids.         *)
(***************************************************************************)
EXTENDS Checkpoints, TLC

\* Calls, keys and ids are interchangeable; sound for the safety run only.
Symmetric == Permutations(Calls) \cup Permutations(Keys) \cup Permutations(Ids)
=============================================================================
