----------------------------- MODULE Checkpoints -----------------------------
(***************************************************************************)
(* The worktree of one agent and what GitManager (git-manager.ts) makes of *)
(* it: ensureAgentWorktree creates or adopts the worktree, createCheckpoint*)
(* commits it and freezes the commit under a ref, protectCandidate freezes *)
(* its HEAD as a candidate.  Each is a journaled operation (or two) under  *)
(* the lock of the repository.                                             *)
(*                                                                         *)
(* A call's step is the code between two awaits.  The worker can die at    *)
(* any of them, and the git process a call was waiting for goes on without *)
(* it; the next worker retries with the same keys or with new ones.  The   *)
(* user's own git works in the same repository.                            *)
(*                                                                         *)
(* Checks that throw before the lock is asked for (an unknown task, a path *)
(* that moved, an agent that is still writing) change nothing; they are    *)
(* the calls that never start.                                             *)
(***************************************************************************)
EXTENDS OperationJournal, Integers, Sequences, FiniteSets

CONSTANTS
  Calls,       \* calls of the three operations that can be in flight together
  Keys,        \* idempotency keys of the callers
  Ids,         \* checkpoint ids and candidate ids
  MaxStarts,   \* bound: calls
  MaxCommits,  \* bound: commits on top of the base
  MaxCrashes,  \* bound: workers that die
  MaxDrift     \* bound: git commands of the user

\* Commits are numbered as they are made; the base of the task comes first.
Base == 0
Oids == Base .. MaxCommits
\* The rows of the journal.
Rows == [status : {"executing", "observed", "completed", "needs_attention"},
         expected : [op : {"ensure", "protect", "commit", "ref"},
                     id : Ids \cup {Null}, oid : Oids],
         outcome : Outcomes \cup {Null}, result : Oids \cup {Null}]

ASSUME ConstantsAssumption ==
  /\ Null \notin Ids /\ Null \notin Calls /\ Null \notin Oids /\ Null \notin Rows
  /\ Null \notin Outcomes /\ IsFiniteSet(Keys)
  /\ MaxStarts \in Nat /\ MaxCommits \in Nat /\ MaxCrashes \in Nat /\ MaxDrift \in Nat

RefKinds == {"checkpoint", "candidate"}
\* An operation of its own is journaled under the caller's key, the two of a
\* checkpoint under the key with a suffix.
Slots == Keys \X {"own", "commit", "ref"}

VARIABLES
  \* the repository
  commits,   \* for each commit its parent and its Branchestra-Checkpoint-Id
  branch,    \* the task branch, Null before it is created
  tree,      \* the worktree exists and is registered
  head,      \* HEAD of the worktree
  attached,  \* HEAD is the task branch
  staged,    \* the index differs from the commit at HEAD
  refs,      \* refs/branchestra/checkpoints/<id> and candidates/<id>
  \* SQLite
  row,       \* the worktree's current_checkpoint_oid: Null without a row
  records,   \* checkpoints: the oid of each
  journal,   \* operation_journal
  \* the worker
  queue,     \* RepositoryLock: the calls that asked for it, the holder first
  pc, call,  \* program counter and local variables of each call
  orphan,    \* a git process that outlived its worker
  starts, crashes, drift

repository == <<commits, branch, tree, head, attached, staged, refs>>
database == <<row, records, journal>>
bounds == <<starts, crashes, drift>>
vars == <<repository, database, queue, pc, call, orphan, bounds>>

NoCall == [kind |-> Null, key |-> Null, id |-> Null, expected |-> Null, oid |-> Null]

Init ==
  /\ commits = <<>> /\ branch = Null /\ tree = FALSE /\ head = Null
  /\ attached = TRUE /\ staged = FALSE
  /\ refs = [kind \in RefKinds |-> [id \in Ids |-> Null]]
  /\ row = Null /\ records = [id \in Ids |-> Null]
  /\ journal = [slot \in Slots |-> Null]
  /\ queue = <<>> /\ pc = [c \in Calls |-> "idle"]
  /\ call = [c \in Calls |-> NoCall] /\ orphan = Null
  /\ starts = 0 /\ crashes = 0 /\ drift = 0

\* The commit a worktree record says the branch is at.
Recorded(r) == IF r = Null THEN Base ELSE r

At(c, label) == pc[c] = label
Holds(c) == queue # <<>> /\ Head(queue) = c
Goto(c, label) == pc' = [pc EXCEPT ![c] = label]
\* withLock's finally: the holder that returns or throws lets the next one in.
Leave(c) ==
  /\ pc' = [pc EXCEPT ![c] = "idle"]
  /\ call' = [call EXCEPT ![c] = NoCall]
  /\ queue' = Tail(queue)

-----------------------------------------------------------------------------
(* Calls up to the lock.                                                   *)

\* createCheckpoint and protectCandidate need the worktree's record; what they
\* expect of HEAD is read before the lock: createCheckpoint reads it in the
\* record, the caller of protectCandidate in the worktree.
Start(c, kind) ==
  /\ At(c, "idle")
  /\ starts < MaxStarts /\ starts' = starts + 1
  /\ kind # "ensure" => row # Null /\ tree
  /\ \E key \in Keys, id \in Ids :
       call' = [call EXCEPT ![c] =
         [kind |-> kind, key |-> key, id |-> IF kind = "ensure" THEN Null ELSE id,
          expected |-> IF kind = "protect" THEN head ELSE Recorded(row), oid |-> Null]]
  /\ Goto(c, "resolving")
  /\ UNCHANGED <<repository, database, queue, orphan, crashes, drift>>

\* withLock, once the repository and the worktree have been resolved.
AskForLock(c) ==
  /\ At(c, "resolving")
  /\ queue' = Append(queue, c) /\ Goto(c, "queued")
  /\ UNCHANGED <<repository, database, call, orphan, bounds>>

\* The call returns or throws, and nothing else changes.
End(c) ==
  /\ Leave(c)
  /\ UNCHANGED <<repository, database, orphan, bounds>>

-----------------------------------------------------------------------------
(* JournaledOperationRunner.run, for the operation a call is about to make. *)

\* The row of the operation a call is at.
Slot(c) ==
  <<call[c].key,
    IF call[c].kind # "checkpoint" THEN "own"
    ELSE IF pc[c] \in {"queued", "check", "commit", "observe", "compare"} THEN "commit"
    ELSE "ref">>

\* expectedParent: the parent of an earlier attempt with the same key stands.
ExpectedParent(c) ==
  LET prior == journal[<<call[c].key, "commit">>]
  IN  IF prior # Null THEN prior.expected.oid ELSE call[c].expected

\* Mutant: every intent names the commit its operation starts from.
IntentFromParent(c) ==
  [op |-> IF call[c].kind = "checkpoint" THEN Slot(c)[2] ELSE call[c].kind,
   id |-> call[c].id,
   oid |-> IF call[c].kind = "ensure" THEN Base ELSE ExpectedParent(c)]

\* What the intent says: the branch and its base; the checkpoint and the
\* parent of its commit; the ref and the oid it is created at.
Intent(c) ==
  [op |-> IF call[c].kind = "checkpoint" THEN Slot(c)[2] ELSE call[c].kind,
   id |-> call[c].id,
   oid |-> CASE call[c].kind = "ensure" -> Base
             [] call[c].kind = "protect" -> call[c].expected
             [] Slot(c)[2] = "commit" -> ExpectedParent(c)
             [] OTHER -> call[c].oid]

\* Mutant: a row that is not finished is executed again.
MayExecuteAgain(c) ==
  journal[Slot(c)] # Null => journal[Slot(c)].status # "completed"

MayExecute(c) == IsNew(journal[Slot(c)])
MayReplay(c) == Replays(journal[Slot(c)], Intent(c))

\* A new intent goes on to execute; the same one completed goes on to done
\* with its result; any other row refuses.
Run(c, execute, done) ==
  \/ /\ MayExecute(c)
     /\ journal' = [journal EXCEPT ![Slot(c)] = Executing(Intent(c))]
     /\ Goto(c, execute)
     /\ UNCHANGED <<repository, row, records, queue, call, orphan, bounds>>
  \/ /\ ~MayExecute(c) /\ MayReplay(c)
     /\ call' = [call EXCEPT ![c].oid = journal[Slot(c)].result]
     /\ Goto(c, done)
     /\ UNCHANGED <<repository, database, queue, orphan, bounds>>
  \/ /\ ~MayExecute(c) /\ ~MayReplay(c)
     /\ End(c)

\* recordObservation, then complete or needsAttention; an observation that
\* throws is uncertain.
Settle(c, outcome, result, done) ==
  \E o \in {outcome, "uncertain"} :
    /\ journal' = [journal EXCEPT ![Slot(c)] =
         Settled(@, o, IF o = "applied" THEN result ELSE Null)]
    /\ \/ /\ o = "applied"
          /\ call' = [call EXCEPT ![c].oid = result]
          /\ Goto(c, done) /\ UNCHANGED queue
       \/ o # "applied" /\ Leave(c)
    /\ UNCHANGED <<repository, row, records, orphan, bounds>>

-----------------------------------------------------------------------------
(* Git, as its commands change the repository.                             *)

\* git worktree add: a new branch at the base, or the branch there is.  With
\* a new branch it can stop after the branch.
AddWorktree(create) ==
  /\ ~tree /\ create = (branch = Null)
  /\ branch' = IF create THEN Base ELSE branch
  /\ \/ tree' = TRUE /\ head' = branch'
     \/ create /\ UNCHANGED <<tree, head>>
  /\ UNCHANGED <<commits, attached, staged, refs>>

\* git add --all and git commit of everything in the worktree.
Commit(trailer) ==
  /\ Len(commits) < MaxCommits
  /\ commits' = Append(commits, [parent |-> head, trailer |-> trailer])
  /\ head' = Len(commits')
  /\ branch' = IF attached THEN head' ELSE branch
  /\ staged' = FALSE
  /\ UNCHANGED <<tree, attached, refs>>

\* git update-ref with an old value of zeros: only a ref that does not exist.
CreateRef(kind, id, oid) ==
  /\ refs[kind][id] = Null
  /\ refs' = [refs EXCEPT ![kind][id] = oid]
  /\ UNCHANGED <<commits, branch, tree, head, attached, staged>>

\* The git command a call waits for at its program counter, or Null.
Command(c) ==
  CASE pc[c] \in {"create", "attach"} -> [op |-> "add", create |-> pc[c] = "create"]
    [] pc[c] = "commit" -> [op |-> "commit", id |-> call[c].id]
    [] pc[c] = "freeze" ->
         [op |-> "ref", kind |-> "checkpoint", id |-> call[c].id, oid |-> call[c].oid]
    [] pc[c] = "protect" ->
         [op |-> "ref", kind |-> "candidate", id |-> call[c].id, oid |-> call[c].expected]
    [] OTHER -> Null

Git(command) ==
  \/ command.op = "add" /\ AddWorktree(command.create)
  \/ command.op = "commit" /\ Commit(command.id)
  \/ command.op = "ref" /\ CreateRef(command.kind, command.id, command.oid)

\* execute: git succeeds, fails, or fails after it has done its work; an
\* error is only recorded, the repository is what is observed.
GitOfCall(c) ==
  /\ Command(c) # Null
  /\ Git(Command(c)) \/ UNCHANGED repository
  /\ Goto(c, CASE pc[c] \in {"create", "attach"} -> "added"
               [] pc[c] = "commit" -> "observe"
               [] pc[c] = "freeze" -> "frozen"
               [] pc[c] = "protect" -> "protected")
  /\ UNCHANGED <<database, queue, call, orphan, bounds>>

-----------------------------------------------------------------------------
(* ensureAgentWorktree                                                     *)

\* isExpectedWorktree: branch and worktree are at the commit of the record.
WorktreeIsExpected ==
  tree /\ attached /\ branch = Recorded(row) /\ head = Recorded(row)

\* observeWorktree before anything is done, and where the intent leads: git
\* worktree add with or without -b, nothing to do, or a conflict to record.
EnsureAction ==
  CASE ~tree /\ branch = Null -> "create"
    [] ~tree /\ branch = Base -> "attach"
    [] WorktreeIsExpected -> "noop"
    [] OTHER -> "conflict"

\* A completed operation whose worktree is not as it left it is not redone.
EnsureLocked(c) ==
  /\ At(c, "queued") /\ Holds(c) /\ call[c].kind = "ensure"
  /\ LET prior == journal[<<call[c].key, "own">>]
         redo == prior # Null /\ prior.status = "completed" /\ EnsureAction # "noop"
         execute == IF EnsureAction \in {"create", "attach"} THEN EnsureAction ELSE "added"
     IN  \/ redo /\ End(c)
         \/ ~redo /\ Run(c, execute, "ensured")

EnsureObserve(c) ==
  /\ At(c, "added")
  /\ Settle(c, IF WorktreeIsExpected THEN "applied" ELSE "conflict", Base, "ensured")

\* insertWorktree, unless the record exists.
EnsurePersist(c) ==
  /\ At(c, "ensured")
  /\ row' = Recorded(row)
  /\ Leave(c)
  /\ UNCHANGED <<repository, records, journal, orphan, bounds>>

-----------------------------------------------------------------------------
(* createCheckpoint                                                        *)

\* A checkpoint that is recorded is answered again to the call that made it.
KnownCheckpoint(c) ==
  LET commit == journal[<<call[c].key, "commit">>]
      ref == journal[<<call[c].key, "ref">>]
  IN  /\ commit # Null /\ commit.status = "completed" /\ commit.expected.id = call[c].id
      /\ ref # Null /\ ref.status = "completed"
      /\ refs["checkpoint"][call[c].id] = records[call[c].id]

\* The ref of a checkpoint that is not recorded, and no attempt of this key.
ForeignRef(c) ==
  refs["checkpoint"][call[c].id] # Null /\ journal[<<call[c].key, "commit">>] = Null

CheckpointLocked(c) ==
  /\ At(c, "queued") /\ Holds(c) /\ call[c].kind = "checkpoint"
  /\ \/ /\ records[call[c].id] # Null /\ KnownCheckpoint(c)
        /\ End(c)
     \/ /\ IF records[call[c].id] # Null THEN ~KnownCheckpoint(c) ELSE ForeignRef(c)
        /\ End(c)
     \/ /\ records[call[c].id] = Null /\ ~ForeignRef(c)
        /\ Run(c, "check", "intendRef")

HeadAsExpected(c) == head = ExpectedParent(c) /\ attached

\* CHECKPOINT_HEAD_PRECONDITION_FAILED leaves the worktree alone.
CheckHead(c) ==
  /\ At(c, "check")
  /\ Goto(c, IF HeadAsExpected(c) THEN "commit" ELSE "observe")
  /\ UNCHANGED <<repository, database, queue, call, orphan, bounds>>

\* observeCommit reads HEAD twice, and the commit and the index in between.
ObserveHead(c) ==
  /\ At(c, "observe")
  /\ call' = [call EXCEPT ![c].oid = head]
  /\ Goto(c, "compare")
  /\ UNCHANGED <<repository, database, queue, orphan, bounds>>

\* Mutant: the commit's parent is not compared.
IsTheCheckpointCommitUnchecked(c, oid) ==
  /\ oid # Base /\ commits[oid].trailer = call[c].id
  /\ attached /\ ~staged /\ head = oid

\* The commit observed is the one this call was to make.
IsTheCheckpointCommit(c, oid) ==
  /\ oid # Base
  /\ commits[oid].parent = ExpectedParent(c) /\ commits[oid].trailer = call[c].id
  /\ attached /\ ~staged /\ head = oid

CommitOutcome(c) ==
  CASE call[c].oid = ExpectedParent(c) -> "not_applied"
    [] IsTheCheckpointCommit(c, call[c].oid) -> "applied"
    [] OTHER -> "conflict"

CompareCommit(c) ==
  /\ At(c, "compare")
  /\ Settle(c, CommitOutcome(c), call[c].oid, "intendRef")

\* checkpoint.ref.create
IntendRef(c) == At(c, "intendRef") /\ Run(c, "readRef", "persist")

\* A ref that exists is left alone, whatever it holds.
ReadRef(c) ==
  /\ At(c, "readRef")
  /\ Goto(c, IF refs["checkpoint"][call[c].id] = Null THEN "freeze" ELSE "frozen")
  /\ UNCHANGED <<repository, database, queue, call, orphan, bounds>>

RefOutcome(kind, id, oid) ==
  CASE refs[kind][id] = oid -> "applied"
    [] refs[kind][id] = Null -> "not_applied"
    [] OTHER -> "conflict"

ObserveRef(c) ==
  /\ At(c, "frozen")
  /\ Settle(c, RefOutcome("checkpoint", call[c].id, call[c].oid), call[c].oid, "persist")

\* Mutant: the worktree's record stays at the parent.
ParentStaysRecorded(c) == row

\* updateCheckpoint: the worktree's record moves to the checkpoint.
NewRecord(c) == call[c].oid

\* persistCheckpoint inserts the record and moves the worktree's in one
\* transaction; a record that is there is answered, or refused as another's.
PersistCheckpoint(c) ==
  /\ At(c, "persist")
  /\ \/ /\ records[call[c].id] = Null
        /\ records' = [records EXCEPT ![call[c].id] = call[c].oid]
        /\ row' = NewRecord(c)
        /\ Leave(c)
        /\ UNCHANGED <<repository, journal, orphan, bounds>>
     \/ records[call[c].id] # Null /\ End(c)

-----------------------------------------------------------------------------
(* protectCandidate                                                        *)

ProtectLocked(c) ==
  /\ At(c, "queued") /\ Holds(c) /\ call[c].kind = "protect"
  /\ LET ref == refs["candidate"][call[c].id]
         refused == head # call[c].expected \/ ref \notin {Null, call[c].expected}
     IN  \/ refused /\ End(c)
         \/ ~refused /\ Run(c, IF ref = Null THEN "protect" ELSE "protected", "return")

ProtectObserve(c) ==
  /\ At(c, "protected")
  /\ Settle(c, RefOutcome("candidate", call[c].id, call[c].expected),
            call[c].expected, "return")

Return(c) == At(c, "return") /\ End(c)

-----------------------------------------------------------------------------
(* What happens beside the calls.                                          *)

\* The worker dies at an await.  The git command of the lock's holder goes on
\* without it, unless it dies too.
Die ==
  /\ crashes < MaxCrashes /\ crashes' = crashes + 1
  /\ queue' = <<>> /\ pc' = [c \in Calls |-> "idle"]
  /\ call' = [c \in Calls |-> NoCall]

Crash ==
  /\ Die
  /\ orphan' \in {orphan} \cup {Command(c) : c \in Calls}
  /\ UNCHANGED <<repository, database, starts, drift>>

\* It dies between recordObservation and complete.
CrashAfterObservation(c) ==
  /\ At(c, "compare") /\ CommitOutcome(c) = "applied"
  /\ journal' = [journal EXCEPT ![Slot(c)] = Observed(@, "applied", call[c].oid)]
  /\ Die
  /\ UNCHANGED <<repository, row, records, orphan, starts, drift>>

Orphan ==
  /\ orphan # Null
  /\ Git(orphan) \/ UNCHANGED repository
  /\ orphan' = Null
  /\ UNCHANGED <<database, queue, pc, call, bounds>>

\* RecoveryCoordinator.resolve of an operation the user selected: the task is
\* Reconciling, so none of its calls runs.  Only the candidate's ref is looked
\* up; the reconciler does not know the other operations.
ReconcileOutcome(slot) ==
  LET entry == journal[slot]
  IN  IF entry.status = "executing" /\ entry.expected.op = "protect"
        THEN RefOutcome("candidate", entry.expected.id, entry.expected.oid)
        ELSE ObservedByRecovery(entry)

Reconcile(slot) ==
  /\ crashes > 0 /\ \A c \in Calls : At(c, "idle")
  /\ journal[slot] # Null /\ journal[slot].status # "completed"
  /\ journal' = [journal EXCEPT ![slot] = Reconciled(@, ReconcileOutcome(slot))]
  /\ UNCHANGED <<repository, row, records, queue, pc, call, orphan, bounds>>

\* The user commits in the worktree, stages a file, leaves the branch, or
\* creates a ref where the worker will want one.
UserGit ==
  /\ drift < MaxDrift /\ drift' = drift + 1
  /\ \/ tree /\ Commit(Null)
     \/ /\ tree /\ staged' = TRUE
        /\ UNCHANGED <<commits, branch, tree, head, attached, refs>>
     \/ /\ tree /\ attached' = ~attached
        /\ UNCHANGED <<commits, branch, tree, head, staged, refs>>
     \/ \E kind \in RefKinds, id \in Ids : CreateRef(kind, id, Base)
  /\ UNCHANGED <<database, queue, pc, call, orphan, starts, crashes>>

-----------------------------------------------------------------------------
StartEnsure(c) == Start(c, "ensure")
StartCheckpoint(c) == Start(c, "checkpoint")
StartProtect(c) == Start(c, "protect")

Progress(c) ==
  \/ AskForLock(c) \/ GitOfCall(c)
  \/ EnsureLocked(c) \/ EnsureObserve(c) \/ EnsurePersist(c)
  \/ CheckpointLocked(c) \/ CheckHead(c) \/ ObserveHead(c) \/ CompareCommit(c)
  \/ IntendRef(c) \/ ReadRef(c) \/ ObserveRef(c) \/ PersistCheckpoint(c)
  \/ ProtectLocked(c) \/ ProtectObserve(c) \/ Return(c)

Next ==
  \/ \E c \in Calls : StartEnsure(c) \/ StartCheckpoint(c) \/ StartProtect(c)
  \/ \E c \in Calls : Progress(c) \/ CrashAfterObservation(c)
  \/ Crash \/ Orphan \/ UserGit
  \/ \E slot \in Slots : Reconcile(slot)

Spec == Init /\ [][Next]_vars

-----------------------------------------------------------------------------
(* Properties                                                              *)

\* The values of the variables; a completed operation was applied.
TypeOK ==
  /\ commits \in Seq([parent : Oids, trailer : Ids \cup {Null}])
  /\ Len(commits) <= MaxCommits
  /\ {branch, head, row} \subseteq Oids \cup {Null}
  /\ {tree, attached, staged} \subseteq BOOLEAN
  /\ refs \in [RefKinds -> [Ids -> Oids \cup {Null}]]
  /\ records \in [Ids -> Oids \cup {Null}]
  /\ journal \in [Slots -> Rows \cup {Null}]
  /\ \A slot \in Slots : journal[slot] # Null =>
       (journal[slot].status = "completed"
          => journal[slot].outcome = "applied")
  /\ queue \in Seq(Calls)
  /\ DOMAIN pc = Calls /\ DOMAIN call = Calls

\* A checkpoint that is recorded is a commit of the application for that very
\* checkpoint, frozen under its own ref, and its parent is the base or another
\* recorded checkpoint: nothing the user committed, and nothing a dead worker
\* left behind, slips in below it.
RecordedCheckpointsAreAChain ==
  \A id \in Ids : records[id] # Null =>
    /\ refs["checkpoint"][id] = records[id]
    /\ commits[records[id]].trailer = id
    /\ commits[records[id]].parent \in {Base} \cup {records[other] : other \in Ids}

\* Every commit and every ref of the application was intended first: a journal
\* row names the checkpoint, and for a ref also the oid, so that recovery has
\* something to show for whatever a dead worker did.  Refs of the user at the
\* base are the exception.
EffectsWereIntended ==
  /\ \A oid \in 1 .. Len(commits) : commits[oid].trailer # Null =>
       \E key \in Keys :
         /\ journal[<<key, "commit">>] # Null
         /\ journal[<<key, "commit">>].expected.id = commits[oid].trailer
  /\ \A id \in Ids : refs["checkpoint"][id] \notin {Null, Base} =>
       \E key \in Keys :
         /\ journal[<<key, "ref">>] # Null
         /\ journal[<<key, "ref">>].expected =
              [op |-> "ref", id |-> id, oid |-> refs["checkpoint"][id]]

\* One intent makes at most one commit, whatever dies and is retried.
OneCommitPerIntent ==
  \A id \in Ids :
    Cardinality({oid \in 1 .. Len(commits) : commits[oid].trailer = id})
      <= Cardinality({key \in Keys : /\ journal[<<key, "commit">>] # Null
                                     /\ journal[<<key, "commit">>].expected.id = id})

\* While no call runs and no orphan is left, a worktree the user has not
\* touched is at the commit of its record, or the journal holds the intent of
\* a commit that is not complete or whose checkpoint was never recorded.
DivergenceIsExplained ==
  (/\ \A c \in Calls : At(c, "idle")
   /\ orphan = Null /\ drift = 0 /\ row # Null) =>
    \/ WorktreeIsExpected
    \/ \E key \in Keys :
         /\ journal[<<key, "commit">>] # Null
         /\ \/ journal[<<key, "commit">>].status # "completed"
            \/ records[journal[<<key, "commit">>].expected.id] = Null
=============================================================================
