-------------------------- MODULE MCProviderProcess --------------------------
(* Model values for ProviderProcess. *)
EXTENDS ProviderProcess, TLC

CONSTANTS c1
MCCancels == {c1}
=============================================================================
