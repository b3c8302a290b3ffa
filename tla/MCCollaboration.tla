--------------------------- MODULE MCCollaboration ---------------------------
(* TLC instances of Collaboration: see the MCCollaboration*.cfg files.      *)
EXTENDS Collaboration, TLC

\* Calls, keys and checkpoints are interchangeable: Init treats them alike and
\* no action compares them.
Symmetric == Permutations(Calls) \cup Permutations(Keys) \cup Permutations(Picks)

\* A view of what later steps and the properties read.  A version is compared
\* only with that of a pending command, and only for being equal (a task never
\* has the version of an earlier state again); the checkpoint a round reviews is
\* recorded but not read; a call that has ended its picks goes by its result.
Compared(command) ==
  IF command = Null THEN Null
  ELSE [command EXCEPT !.version =
          IF command.status = "pending" /\ VersionHolds(command) THEN 1 ELSE 0]
Remembered(c) ==
  IF call[c].kind = "round" \/ pc[c] = "observe"
    THEN [call[c] EXCEPT !.before = Null, !.at = 1] ELSE call[c]
LiveState ==
  << [task EXCEPT !.version = 0], [i \in DOMAIN rounds |-> rounds[i].state], engine,
     [k \in Keys |-> Compared(commands[k])], journal, row, worktree,
     up, lock, pc, [c \in Calls |-> Remembered(c)], bounds >>
=============================================================================
