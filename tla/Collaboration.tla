---------------------------- MODULE Collaboration ----------------------------
(***************************************************************************)
(* The review cycle of one task: rounds (CollaborationCoordinator.         *)
(* requestRound), their findings (completeReview), and the cherry-picks of *)
(* collaborator checkpoints onto the lead's branch (IntegrationService.    *)
(* integrateSelectedCheckpoints, GitManager.integrateCheckpoint and        *)
(* continueIntegration), which reserve the task with a durable command     *)
(* while they run.                                                         *)
(*                                                                         *)
(* A step is the code between two awaits.  The worker can die at any of    *)
(* them; the next one marks the task interrupted, if it may.  The user's   *)
(* git and the lead's own provider work in the lead's worktree beside the  *)
(* calls.  What a revision or a checkpoint does in detail is in TaskRun    *)
(* and Checkpoints; here each is one step.  The cycle ends with the        *)
(* candidate built of it: what the human then decides is in TaskLifecycle. *)
(***************************************************************************)
EXTENDS TaskStateMachine, OperationJournal, SequencesExt, FiniteSets

CONSTANTS
  Calls,       \* calls in flight together
  Keys,        \* idempotency keys of the callers
  Picks,       \* checkpoints of the collaborator
  MaxPicks,    \* bound: checkpoints selected for one integration
  Budget,      \* the rounds the task's scope allows
  MaxStarts,   \* bound: calls
  MaxCommits,  \* bound: commits on the lead's branch
  MaxCrashes,  \* bound: workers that die
  MaxDrift     \* bound: what the user's git and the lead do to the worktree

\* A commit is the history of the branch up to it, of the lead's own
\* checkpoints, cherry-picks and the user's commits.
Commits == Seq(Picks \cup {"own", "user"})

\* The rows of task_service_commands and of the journal, and their results.
Results == [outcome : {"integrated", "conflict"}, head : Commits]
Commands == [type : {"review", "integrate"}, selection : Seq(Picks), version : Nat,
             status : {"pending", "completed", "failed"}, result : Results \cup {Null}]
Rows == [status : {"executing", "observed", "completed", "needs_attention"},
         expected : [op : {"integrate", "continue"}, selection : Seq(Picks), before : Commits],
         outcome : Outcomes \cup {Null}, result : Results \cup {Null}]

ASSUME ConstantsAssumption ==
  /\ Null \notin Calls /\ Null \notin Picks /\ {"own", "user"} \cap Picks = {}
  /\ Null \notin Results /\ Null \notin Commands /\ Null \notin Rows
  /\ Budget \in 0 .. 2
  /\ MaxPicks \in Nat /\ MaxStarts \in Nat /\ MaxCommits \in Nat
  /\ MaxCrashes \in Nat /\ MaxDrift \in Nat

\* selectedCheckpointIds: in the order declared, none twice.
Selections ==
  {s \in UNION {[1 .. n -> Picks] : n \in 0 .. MaxPicks} :
     \A i, j \in DOMAIN s : i # j => s[i] # s[j]}

VARIABLES
  \* SQLite
  task,      \* the record of the task
  rounds,    \* collaboration_rounds: the state and the reviewed checkpoint
  engine,    \* idempotency_records: the keys requestRound has begun under
  commands,  \* task_service_commands
  journal,   \* operation_journal
  row,       \* the lead worktree's current_checkpoint_oid
  \* the lead's worktree: HEAD, the cherry-pick in progress, other changes
  head, picking, dirty,
  \* the worker
  up, lock, pc, call,
  starts, crashes, drift

database == <<task, rounds, engine, commands, journal, row>>
worktree == <<head, picking, dirty>>
worker == <<up, lock, pc, call>>
bounds == <<starts, crashes, drift>>
vars == <<database, worktree, worker, bounds>>

\* What a call remembers: its arguments, the checkpoint it read or picked on
\* top of, the next pick, and the result its execution came to.
NoCall == [kind |-> Null, key |-> Null, selection |-> <<>>, before |-> Null,
           at |-> 1, result |-> Null]

Init ==
  /\ task = [state |-> "Checkpoint", interruptedFromState |-> NoPhase,
             collaborationRoundsUsed |-> 0, collaborationRoundBudget |-> Budget,
             revisionKind |-> "null", activeCandidateId |-> "null", version |-> 1]
  /\ rounds = <<>>
  /\ engine = {} /\ commands = [k \in Keys |-> Null]
  /\ journal = [k \in Keys |-> Null]
  /\ head = <<"own">> /\ row = head /\ picking = Null /\ dirty = FALSE
  /\ up = TRUE /\ lock = Null
  /\ pc = [c \in Calls |-> "idle"] /\ call = [c \in Calls |-> NoCall]
  /\ starts = 0 /\ crashes = 0 /\ drift = 0

At(c, label) == up /\ pc[c] = label
Goto(c, label) == pc' = [pc EXCEPT ![c] = label]
Key(c) == call[c].key
InReview == task.state \in {"Review1", "Review2"}
Clean == ~dirty /\ picking = Null
\* current_checkpoint_oid has a checkpoint record: it is not a cherry-pick.
HasRecord(commit) == Last(commit) = "own"

\* The call returns or throws; its lock, if it holds it, is released.
Leave(c) ==
  /\ Goto(c, "idle") /\ call' = [call EXCEPT ![c] = NoCall]
  /\ lock' = IF lock = c THEN Null ELSE lock
  /\ UNCHANGED <<up, bounds>>

\* It does so and nothing else changes.
End(c) == Leave(c) /\ UNCHANGED <<database, worktree>>

Begin(c, kind, key, selection, before, label) ==
  /\ At(c, "idle") /\ starts < MaxStarts /\ starts' = starts + 1
  /\ call' = [call EXCEPT ![c] =
       [kind |-> kind, key |-> key, selection |-> selection, before |-> before,
        at |-> 1, result |-> Null]]
  /\ Goto(c, label)
  /\ UNCHANGED <<worktree, up, lock, crashes, drift>>

\* inFlightRounds: a second call with the key joins the first, or is refused
\* if it asks for something else.
RoundInFlight(key) == \E c \in Calls : call[c].kind = "round" /\ call[c].key = key

-----------------------------------------------------------------------------
(* The durable commands and the transitions of the task.                   *)

\* Mutant: transitions do not look at the commands.
HasPendingIntegrationIgnored(cmds) == FALSE

HasPendingIntegration(cmds) ==
  \E k \in Keys : cmds[k] # Null /\ cmds[k].type = "integrate" /\ cmds[k].status = "pending"

\* applyTransition, on behalf of the engine, the supervisor and recovery.
ApplyTransition(action) ==
  /\ ~HasPendingIntegration(commands)
  /\ Legal(task, action)
  /\ task' = After(task, action)

\* insertServiceCommand
Command(type, selection) ==
  [type |-> type, selection |-> selection, version |-> task.version,
   status |-> "pending", result |-> Null]

\* completeServiceCommandUnchecked
CommandDone(command, result) == [command EXCEPT !.status = "completed", !.result = result]

-----------------------------------------------------------------------------
(* requestRound                                                            *)

\* Up to verifyCheckpointRef; the checkpoint is read here.  A key that began a
\* round is answered or refused.
StartRound(c) ==
  /\ \E key \in Keys :
       /\ ~RoundInFlight(key) /\ key \notin engine
       /\ Begin(c, "round", key, <<>>, row, "worktree")
  /\ task.collaborationRoundsUsed < task.collaborationRoundBudget
  /\ HasRecord(row)
  /\ UNCHANGED database

\* ensureAgentWorktree of the collaborator, under the lock.
EnsureCollaborator(c) ==
  /\ At(c, "worktree") /\ lock = Null
  /\ \/ Goto(c, "begin") /\ UNCHANGED <<database, worktree, up, lock, call, bounds>>
     \/ End(c)

\* Mutant: the durable record of the round is left to the provider's run.
RoundStarted(c) == rounds

RecordedRound(c) == Append(rounds, [state |-> "started", checkpoint |-> call[c].before])

\* startCollaborationRound, one transaction: engine command, transition and
\* round.  The task is read again, the checkpoint is not; a pending
\* integration is not looked for.  The provider's run that follows is in
\* TaskRun.
BeginRound(c) ==
  /\ At(c, "begin")
  /\ \/ /\ Key(c) \notin engine /\ Legal(task, [type |-> "beginReview"])
        /\ engine' = engine \cup {Key(c)}
        /\ task' = After(task, [type |-> "beginReview"])
        /\ rounds' = RecordedRound(c)
        /\ Leave(c)
        /\ UNCHANGED <<commands, journal, row, worktree>>
     \/ (Key(c) \in engine \/ ~Legal(task, [type |-> "beginReview"])) /\ End(c)

-----------------------------------------------------------------------------
(* completeReview: one transaction, whoever is reserved.                   *)

\* The first review asks for a revision, later ones leave the task in Review2.
Reviewed(t) ==
  IF t.state = "Review1" THEN After(t, [type |-> "requestAgentRevision"]) ELSE t

CompleteReview ==
  /\ up /\ InReview
  /\ rounds # <<>> /\ rounds[Len(rounds)].state = "started"
  /\ \E key \in Keys :
       /\ commands[key] = Null
       /\ commands' = [commands EXCEPT
            ![key] = CommandDone(Command("review", <<>>), Null)]
  /\ task' = Reviewed(task)
  /\ rounds' = [rounds EXCEPT ![Len(rounds)].state = "completed"]
  /\ UNCHANGED <<engine, journal, row, worktree, worker, bounds>>

-----------------------------------------------------------------------------
(* integrateSelectedCheckpoints                                            *)

\* reserveIntegrationCommand, in one transaction.  What comes before it only
\* verifies; a key that has a command, or a task that is not in review, is
\* answered or refused.
StartIntegrate(c) ==
  /\ InReview
  /\ \E key \in Keys, selection \in Selections :
       /\ commands[key] = Null
       /\ commands' = [commands EXCEPT ![key] = Command("integrate", selection)]
       /\ Begin(c, "integrate", key, selection, Null, "lock")
  /\ UNCHANGED <<task, rounds, engine, journal, row>>

\* withLock
EnterLock(c) ==
  /\ At(c, "lock") /\ lock = Null
  /\ lock' = c
  /\ Goto(c, IF call[c].kind = "integrate" THEN "status" ELSE "resume")
  /\ UNCHANGED <<database, worktree, up, call, bounds>>

\* Mutant: any failure releases the task.
AnyFailureIsSafe(entry) == TRUE

\* safe_to_fail_service_command: the journal shows that nothing was intended.
SafeToFail(entry) == entry = Null

\* integrateCheckpoint throws: the command fails, or stays pending.
Throw(c) ==
  /\ commands' = IF SafeToFail(journal'[Key(c)])
                   THEN [commands EXCEPT ![Key(c)].status = "failed"]
                   ELSE commands
  /\ Leave(c)
  /\ UNCHANGED <<task, rounds, engine, row, worktree>>

\* The refs, the journal and the status of the worktree: any of them can
\* refuse.  A key the journal knows is of another operation.
CheckStatus(c) ==
  /\ At(c, "status")
  /\ \/ /\ journal[Key(c)] = Null /\ Clean
        /\ Goto(c, "intend")
        /\ UNCHANGED <<database, worktree, up, lock, call, bounds>>
     \/ UNCHANGED journal /\ Throw(c)

\* headAtStart, recordIntent, markExecuting.
Intend(c) ==
  /\ At(c, "intend")
  /\ journal' = [journal EXCEPT ![Key(c)] =
       Executing([op |-> "integrate", selection |-> call[c].selection, before |-> head])]
  /\ call' = [call EXCEPT ![c].before = head]
  /\ Goto(c, "pick")
  /\ UNCHANGED <<task, rounds, engine, commands, row, worktree, up, lock, bounds>>

\* What execute comes to; Null if an error ended it.
Executed(c, result) ==
  /\ call' = [call EXCEPT ![c].result = result]
  /\ Goto(c, "observe")

Integrated(commit) == [outcome |-> "integrated", head |-> commit]
Conflict(commit) == [outcome |-> "conflict", head |-> commit]

\* Mutant: the loop ends one checkpoint early.
AllButOnePicked(c) == call[c].at >= Len(call[c].selection)

AllPicked(c) == call[c].at > Len(call[c].selection)

\* The next checkpoint on top of beforePick, or the end of the selection; the
\* worktree must be clean, but for an empty selection nothing is looked at.
NextPick(c) ==
  /\ At(c, "pick")
  /\ LET empty == call[c].selection = <<>>
     IN  \/ empty /\ Executed(c, Integrated(call[c].before))
         \/ ~empty /\ ~Clean /\ Executed(c, Null)
         \/ /\ ~empty /\ Clean /\ ~AllPicked(c)
            /\ call' = [call EXCEPT ![c].before = head] /\ Goto(c, "cherryPick")
         \/ ~empty /\ Clean /\ AllPicked(c) /\ Executed(c, Integrated(head))
  /\ UNCHANGED <<database, worktree, up, lock, bounds>>

Picked(c) == call[c].selection[call[c].at]

\* git cherry-pick: the new commit; a pick stopped in the worktree, with a
\* conflict or, if nothing of it is new to the branch, without one; or an error
\* before or after its work.  The worker sees success or an error.
GitPick(c, label) ==
  /\ picking = Null /\ Len(head) < MaxCommits
  /\ \/ /\ head' = Append(head, Picked(c)) /\ UNCHANGED <<picking, dirty>>
        /\ label \in {"picked", "stopped"}
     \/ /\ picking' = Picked(c) /\ dirty' \in {dirty, TRUE} /\ UNCHANGED head
        /\ label = "stopped"

CherryPick(c) ==
  /\ At(c, "cherryPick")
  /\ \E label \in {"picked", "stopped"} :
       /\ GitPick(c, label) \/ (label = "stopped" /\ UNCHANGED worktree)
       /\ Goto(c, label)
  /\ UNCHANGED <<database, up, lock, call, bounds>>

\* After an error: a conflict is a result, at the commit this pick was to go on
\* top of.  A pick that stopped without unmerged files, another pick, or none,
\* is an error.
Stopped(c) ==
  /\ At(c, "stopped")
  /\ \/ picking = Picked(c) /\ dirty /\ Executed(c, Conflict(call[c].before))
     \/ ~(picking = Picked(c) /\ dirty) /\ Executed(c, Null)
  /\ UNCHANGED <<database, worktree, up, lock, bounds>>

\* afterPick is a child of beforePick.
LandedOn(c) == Front(head) = call[c].before

CheckPick(c) ==
  /\ At(c, "picked")
  /\ \/ /\ LandedOn(c)
        /\ call' = [call EXCEPT ![c].at = @ + 1] /\ Goto(c, "pick")
     \/ ~LandedOn(c) /\ Executed(c, Null)
  /\ UNCHANGED <<database, worktree, up, lock, bounds>>

\* observe; reading CHERRY_PICK_HEAD throws when there is none.
Outcome(c) ==
  LET result == call[c].result
      conflicted == result # Null /\ result.outcome = "conflict"
  IN  IF result = Null \/ (conflicted /\ picking = Null) THEN "uncertain"
      ELSE IF (conflicted /\ picking \notin Range(call[c].selection)) \/ head # result.head
        THEN "conflict"
      ELSE "applied"

JournalSettled(c) ==
  journal' = [journal EXCEPT ![Key(c)] =
    Settled(@, Outcome(c), IF Outcome(c) = "applied" THEN call[c].result ELSE Null)]

\* completeIntegrationCommand refuses a task that moved since the reservation.
VersionHolds(command) == command.version = task.version

\* completeIntegrationCommand: a conflict asks for a revision.
CompleteIntegration(c) ==
  \/ /\ VersionHolds(commands[Key(c)])
     /\ commands' = [commands EXCEPT ![Key(c)] = CommandDone(@, call[c].result)]
     /\ task' = IF call[c].result.outcome = "conflict"
                  THEN After(task, [type |-> "requestAgentRevision"]) ELSE task
  \/ ~VersionHolds(commands[Key(c)]) /\ UNCHANGED <<commands, task>>

\* Mutant: after a conflict the record stays where the integration began.
RecordedAtStart(c) ==
  IF call[c].result.outcome = "conflict" THEN journal[Key(c)].expected.before
  ELSE call[c].result.head

\* What updateCheckpoint records: the checkpoints picked before a conflict stay.
RecordedHead(c) == call[c].result.head

\* The journal is settled, the record moved, the lock released and the
\* command completed without an await that waits for anything.
Finish(c) ==
  /\ At(c, "observe") /\ JournalSettled(c)
  /\ \/ /\ Outcome(c) = "applied"
        /\ row' = RecordedHead(c)
        /\ CompleteIntegration(c)
        /\ Leave(c)
        /\ UNCHANGED <<rounds, engine, worktree>>
     \/ Outcome(c) # "applied" /\ Throw(c)

-----------------------------------------------------------------------------
(* continueIntegration                                                     *)

StartContinue(c) ==
  /\ \E key \in Keys, source \in Picks :
       Begin(c, "continue", key, <<source>>, Null, "lock")
  /\ UNCHANGED database

ContinueIntent(c) == [op |-> "continue", selection |-> call[c].selection, before |-> head]

\* Under the lock: a cherry-pick of the source is in progress; or the same
\* operation completed before and answers again, which moves the record again.
Resume(c) ==
  /\ At(c, "resume")
  /\ LET prior == journal[Key(c)]
         again == prior # Null /\
           Replays(prior, [op |-> "continue", selection |-> call[c].selection,
                           before |-> prior.expected.before])
     IN  \/ /\ IsNew(prior) /\ picking = call[c].selection[1]
            /\ journal' = [journal EXCEPT ![Key(c)] = Executing(ContinueIntent(c))]
            /\ call' = [call EXCEPT ![c].before = head]
            /\ Goto(c, "continue")
            /\ UNCHANGED <<task, rounds, engine, commands, row, worktree, up, lock, bounds>>
         \/ /\ again /\ row' = prior.result.head
            /\ Leave(c)
            /\ UNCHANGED <<task, rounds, engine, commands, journal, worktree>>
         \/ ~again /\ (prior # Null \/ picking # call[c].selection[1]) /\ End(c)

\* git add --all and git cherry-pick --continue, which refuses an empty pick.
GitContinue ==
  /\ picking # Null /\ dirty /\ Len(head) < MaxCommits
  /\ head' = Append(head, picking) /\ picking' = Null /\ dirty' = FALSE

Continue(c) ==
  /\ At(c, "continue")
  /\ \E label \in {"continued", "continueFailed"} :
       /\ GitContinue \/ (label = "continueFailed" /\ UNCHANGED worktree)
       /\ Goto(c, label)
  /\ UNCHANGED <<database, up, lock, call, bounds>>

\* continuedHead, read before the worktree is looked at.
ReadContinued(c) ==
  /\ At(c, "continued")
  /\ call' = [call EXCEPT ![c].result = Integrated(head)]
  /\ Goto(c, "check")
  /\ UNCHANGED <<database, worktree, up, lock, bounds>>

\* The commit read is a child of the one continued from.
Continued(c) ==
  /\ At(c, "check") /\ Clean
  /\ Front(call[c].result.head) = call[c].before

ContinueSettled(c) ==
  /\ At(c, "check") \/ At(c, "continueFailed")
  /\ journal' = [journal EXCEPT ![Key(c)] =
       IF Continued(c) THEN Settled(@, "applied", call[c].result)
                       ELSE Settled(@, "uncertain", Null)]

ContinueFinish(c) ==
  /\ ContinueSettled(c)
  /\ row' = IF Continued(c) THEN call[c].result.head ELSE row
  /\ Leave(c)
  /\ UNCHANGED <<task, rounds, engine, commands, worktree>>

-----------------------------------------------------------------------------
(* Beside the calls.                                                       *)

\* runLeadRevision's createCheckpoint: HEAD must be the recorded commit; git
\* commit ends a cherry-pick that is in progress.
LeadCheckpoint ==
  /\ up /\ task.state = "Revision" /\ lock = Null
  /\ head = row /\ Len(head) < MaxCommits
  /\ head' = Append(head, "own") /\ row' = head'
  /\ picking' = Null /\ dirty' = FALSE
  /\ UNCHANGED <<task, rounds, engine, commands, journal, worker, bounds>>

\* A transition another component makes.
EngineMoves(action) ==
  /\ up /\ ApplyTransition(action)
  /\ UNCHANGED <<rounds, engine, commands, journal, row, worktree, worker, bounds>>

\* TaskEngine.cancel, once; its settlement is in TaskRun.
Cancel == task.state # "CancelRequested" /\ EngineMoves([type |-> "cancel"])

\* buildVerifiedCandidate: what it tested becomes the candidate of a task that has
\* not moved meanwhile, and the human is asked in the same breath.
CandidateReady == [type |-> "candidateReady", candidateId |-> "candidate"]
BuildCandidate ==
  /\ up /\ ~HasPendingIntegration(commands) /\ Legal(task, CandidateReady)
  /\ task' = After(After(task, CandidateReady), [type |-> "requestHumanApproval"])
  /\ UNCHANGED <<rounds, engine, commands, journal, row, worktree, worker, bounds>>

\* The user commits, edits (as the lead's provider does in a revision), or
\* gives a cherry-pick up.
UserGit ==
  /\ drift < MaxDrift /\ drift' = drift + 1
  /\ \/ /\ Len(head) < MaxCommits /\ picking = Null
        /\ head' = Append(head, "user") /\ UNCHANGED <<picking, dirty>>
     \/ ~dirty /\ dirty' = TRUE /\ UNCHANGED <<head, picking>>
     \/ /\ picking # Null /\ picking' = Null /\ dirty' = FALSE
        /\ UNCHANGED head
  /\ UNCHANGED <<database, worker, starts, crashes>>

Die ==
  /\ up /\ crashes < MaxCrashes /\ crashes' = crashes + 1
  /\ up' = FALSE /\ lock' = Null
  /\ pc' = [c \in Calls |-> "idle"] /\ call' = [c \in Calls |-> NoCall]
  /\ UNCHANGED <<starts, drift>>

\* The worker dies at an await; git ends what it was doing, or does not.
Crash ==
  /\ Die
  /\ \/ UNCHANGED worktree
     \/ \E c \in Calls : At(c, "cherryPick") /\ GitPick(c, "stopped")
     \/ \E c \in Calls : At(c, "continue") /\ GitContinue
  /\ UNCHANGED database

\* It dies after the journal is settled, before or after the record moves.
CrashWhileFinishing(c) ==
  /\ \/ At(c, "observe") /\ Outcome(c) = "applied" /\ JournalSettled(c)
     \/ ContinueSettled(c) /\ Continued(c)
  /\ row' \in {row, RecordedHead(c)}
  /\ Die
  /\ UNCHANGED <<task, rounds, engine, commands, worktree>>

Lost(t) == t.state \notin TerminalStates \cup {"Interrupted", "Reconciling"}

\* markInterruptedAfterGenerationChange; a worker it throws in does not start.
StartUp ==
  /\ ~up /\ up' = TRUE
  /\ IF Lost(task) THEN ApplyTransition([type |-> "processLoss"]) ELSE UNCHANGED task
  /\ UNCHANGED <<rounds, engine, commands, journal, row, worktree, lock, pc, call, bounds>>

\* preview, and resolve with the recorded phase.
Preview == EngineMoves([type |-> "beginReconciliation"])
ResumePhase ==
  EngineMoves([type |-> "resumeRecordedPhase", target |-> task.interruptedFromState])

-----------------------------------------------------------------------------
Progress(c) ==
  \/ EnsureCollaborator(c) \/ BeginRound(c)
  \/ EnterLock(c) \/ CheckStatus(c) \/ Intend(c)
  \/ NextPick(c) \/ CherryPick(c) \/ Stopped(c) \/ CheckPick(c) \/ Finish(c)
  \/ Resume(c) \/ Continue(c) \/ ReadContinued(c) \/ ContinueFinish(c)

Next ==
  \/ \E c \in Calls : StartRound(c) \/ StartIntegrate(c) \/ StartContinue(c)
  \/ \E c \in Calls : Progress(c) \/ CrashWhileFinishing(c)
  \/ CompleteReview \/ LeadCheckpoint \/ BuildCandidate \/ Cancel \/ UserGit
  \/ Crash \/ StartUp \/ Preview \/ ResumePhase

Spec == Init /\ [][Next]_vars

\* A worker that died is started again as often as the supervisor retries.
FairSpec == Spec /\ WF_vars(StartUp)

-----------------------------------------------------------------------------
(* Properties                                                              *)

\* The values of the variables; an integration that is completed has a result.
TypeOK ==
  /\ task.state \in TaskStates
  /\ Len(rounds) = task.collaborationRoundsUsed /\ Len(rounds) <= Budget
  /\ engine \subseteq Keys
  /\ \A k \in Keys : commands[k] # Null =>
       /\ commands[k].selection \in Selections
       /\ commands[k].type = "integrate" =>
            (commands[k].status = "completed" <=> commands[k].result # Null)
  /\ {head, row} \subseteq Commits
  /\ picking \in Picks \cup {Null} /\ lock \in Calls \cup {Null}
  /\ dirty \in BOOLEAN /\ up \in BOOLEAN

\* An integration has reserved the task.
Reserved(k) ==
  commands[k] # Null /\ commands[k].type = "integrate" /\ commands[k].status = "pending"

\* A task is not closed, interrupted or built into a candidate while an
\* integration of it is pending, whatever else is called meanwhile; git could
\* still be picking into a task the user was told is over.
ReservedTaskStaysOpen ==
  (\E k \in Keys : Reserved(k)) => task.state \in {"Review1", "Review2", "Revision"}

\* A command is reported failed only if no integration was intended in its
\* name: a caller that reads the failure may integrate again under another key.
FailedLeftNothing ==
  \A k \in Keys : commands[k] # Null /\ commands[k].status = "failed" =>
    journal[k] = Null \/ journal[k].expected.op = "continue"

\* On top of before, a commit has the first n picks of the selection in the order
\* declared; every other commit there is the user's.
PicksOnTop(before, commit, selection, n) ==
  /\ IsPrefix(before, commit)
  /\ \E at \in [1 .. n -> Len(before) + 1 .. Len(commit)] :
       /\ \A i \in 1 .. n : commit[at[i]] = selection[i]
       /\ \A i, j \in 1 .. n : i < j => at[i] < at[j]
       /\ \A p \in Len(before) + 1 .. Len(commit) :
            commit[p] = "user" \/ \E i \in 1 .. n : at[i] = p

\* An integration has picked everything, one that met a conflict what comes
\* before the conflict.
IsResultOf(result, expected) ==
  LET n == Len(expected.selection)
  IN  IF result.outcome = "integrated"
        THEN PicksOnTop(expected.before, result.head, expected.selection, n)
        ELSE \E m \in 0 .. n - 1 :
               PicksOnTop(expected.before, result.head, expected.selection, m)

\* The result of a completed command is what the journal proves: on top of the
\* commit it began on, the selected checkpoints in the order declared, all of
\* them if integrated, those before the conflict otherwise; commits of the
\* user between them are the only others.
IntegratedAsSelected ==
  \A k \in Keys :
    LET command == commands[k]
    IN  command # Null /\ command.type = "integrate" /\ command.status = "completed" =>
          /\ journal[k] # Null /\ journal[k].status = "completed"
          /\ journal[k].result = command.result
          /\ journal[k].expected.selection = command.selection
          /\ IsResultOf(command.result, journal[k].expected)

\* While the user has kept away, the lead's record is at the worktree's HEAD,
\* or the journal shows why: an operation that is not settled as applied, one
\* whose worker died before the record moved, or a continuation that was
\* answered again and took the record back.
LeadRecordFollowsHead ==
  drift = 0 /\ row # head =>
    \E k \in Keys :
      /\ journal[k] # Null
      /\ \/ journal[k].status # "completed"
         \/ journal[k].result.head = head /\ crashes > 0
         \/ journal[k].result.head = row /\ journal[k].expected.op = "continue"

-----------------------------------------------------------------------------
(* What the documents say and the code does not do: TLC refutes each (see  *)
(* the README).                                                            *)

\* "durably reserves the task version while selected checkpoints are
\* integrating" (tests/integration/git/lead-integration.test.ts): a pending
\* integration is of the version it was reserved at.
ReservationHoldsTheVersion ==
  \A k \in Keys : Reserved(k) => commands[k].version = task.version

\* Not said by a document: a continuation that is answered again takes the
\* record back, behind commits it already had.
RecordNeverGoesBack == [][IsPrefix(row, row')]_vars

\* A worker that died is followed by one that starts and interrupts the task.
NextWorkerStarts == ~up ~> up
=============================================================================
