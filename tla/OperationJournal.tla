--------------------------- MODULE OperationJournal ---------------------------
(***************************************************************************)
(* One row of operation_journal, as OperationJournal                       *)
(* (operation-journal.ts), JournaledOperationRunner                        *)
(* (journaled-operation-runner.ts) and the recovery of the next worker     *)
(* read and write it.  The components that journal what they do to a       *)
(* repository keep a function from idempotency keys to such rows.          *)
(*                                                                         *)
(* recordIntent and markExecuting are two statements of the same run of    *)
(* the event loop, and every reader treats the two statuses alike: the row *)
(* is born executing.                                                      *)
(***************************************************************************)
CONSTANT Null

Outcomes == {"applied", "not_applied", "conflict", "uncertain"}

\* A row that exists has intended what expected says.
Executing(expected) ==
  [status |-> "executing", expected |-> expected, outcome |-> Null, result |-> Null]

\* recordObservation: result is what an applied observation carries.
Observed(row, outcome, result) ==
  [row EXCEPT !.status = "observed", !.outcome = outcome, !.result = result]

\* Mutant: every observation completes its row.
SettledCompleted(row, outcome, result) ==
  [Observed(row, outcome, result) EXCEPT !.status = "completed"]

\* complete of an applied observation; needsAttention of any other.
Settled(row, outcome, result) ==
  [Observed(row, outcome, result) EXCEPT
     !.status = IF outcome = "applied" THEN "completed" ELSE "needs_attention"]

\* reconcile: the observation is rewritten without the result of the call.
Reconciled(row, outcome) ==
  IF row.status = "completed" THEN row ELSE Settled(row, outcome, Null)

\* recordIntent finds the key free: the operation executes.
IsNew(row) == row = Null

\* run: the same intent, completed as applied, answers its result again; any
\* other row refuses, as a reused key or OPERATION_REQUIRES_RECONCILIATION.
Replays(row, expected) ==
  /\ row # Null /\ row.expected = expected
  /\ row.status = "completed" /\ row.outcome = "applied" /\ row.result # Null

\* What GitOperationReconciler.observe makes of a row no code of its own
\* inspects the repository for: the recorded outcome, else uncertain.
ObservedByRecovery(row) == IF row.outcome = Null THEN "uncertain" ELSE row.outcome
=============================================================================
