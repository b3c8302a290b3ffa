------------------------------ MODULE FinalMerge ------------------------------
(***************************************************************************)
(* The final merge of a task: the human's approval of a candidate          *)
(* (final-approval-service.ts), the journaled update of the target ref     *)
(* (merge-service.ts, git-manager.ts, journaled-operation-runner.ts), and  *)
(* what can happen beside it: cancellation, a human-directed revision,     *)
(* the user's own git commands, a worker crash at any write, and recovery  *)
(* (recovery-coordinator.ts).                                              *)
(*                                                                         *)
(* The worker is one JavaScript event loop.  Every IPC command is a call   *)
(* c \in Calls with a program counter; a call's step is the code between   *)
(* two awaits, so the calls interleave only at awaits.  Where such a       *)
(* stretch writes the database more than once each write is a step of its  *)
(* own, because a crash can fall between two of them; busy then names the  *)
(* call that still holds the event loop.  Git commands are processes of    *)
(* their own: they outlive the worker that spawned them.                   *)
(***************************************************************************)
EXTENDS TaskStateMachine, Sequences

CONSTANTS
  Tasks,      \* tasks of one project: they share the repository and the target ref
  Calls,      \* IPC commands; each runs at most once
  NoCall,
  Base,       \* baseOid: the target ref's commit when the tasks were created
  Others,     \* the commits that are neither Base nor a candidate
  Ancestors,  \* the commits each commit descends from
  CheckoutStates,  \* what the worktrees that have the target checked out can be
  MaxGen,     \* bound: worker generations
  MaxCand,    \* bound: candidates built per task
  MaxDrift    \* bound: git commands of the user

\* candidateOid of the k-th candidate of a task.
Candidates == Tasks \X (1 .. MaxCand)
Oids == Candidates \cup {Base} \cup Others

ASSUME ConstantsAssumption ==
  /\ Tasks # {} /\ NoCall \notin Calls
  /\ Base \notin Candidates \cup Others /\ Others \cap Candidates = {}
  /\ Ancestors \in [Oids -> SUBSET Oids]
  /\ CheckoutStates \subseteq {"none", "clean", "dirty", "many"}
  /\ MaxGen \in Nat \ {0} /\ MaxCand \in Nat \ {0} /\ MaxDrift \in Nat

VARIABLES
  \* SQLite
  task,       \* tasks: state, interruptedFromState, version, activeCandidateId
  requests,   \* approval_requests of kind final_merge; scope = the candidate
  receipts,   \* approvals of kind final_merge
  journal,    \* operation_journal: the merge operation of each call
  announced,  \* room events: the tasks with a merge.completed event
  \* the repository and the git processes
  target,     \* the target ref
  checkout,   \* the worktrees that have the target checked out
  child,      \* the git process each call spawned
  drift,      \* git commands the user has run
  \* the worker process
  worker, gen,
  pc, call,   \* program counter and local variables of each call
  busy,       \* the call whose run of the event loop has not ended, or NoCall
  lock,       \* RepositoryLock: the queue of the repository, its head the holder
  preview,    \* RecoveryCoordinator.previews
  \* history: every candidate a human approved, every candidate git moved the
  \* target to for a call, every candidate the target held, whoever moved it
  granted, published, landed

approvals == <<requests, receipts, granted>>
repository == <<target, checkout, child, drift, published, landed>>
process == <<worker, gen>>
memory == <<lock, preview>>
vars == <<task, approvals, journal, announced, repository, process, pc, call,
          busy, memory>>

-----------------------------------------------------------------------------
\* One operation as a preview shows it; every call has one operation at most.
Unknown == [outcome |-> "unknown", oid |-> Base]
Absent == [outcome |-> "absent", oid |-> Base]
NoPreview == [d \in Calls |-> Unknown]
NoEntry == [status |-> "none", mode |-> "none", oid |-> Base, outcome |-> "none"]

Init ==
  /\ task = [t \in Tasks |-> [ state |-> "HumanApproval", version |-> 0,
                               interruptedFromState |-> NoPhase,
                               activeCandidateId |-> 1 ]]
  /\ requests = {[task |-> t, oid |-> <<t, 1>>, gen |-> 1, status |-> "pending"] :
                   t \in Tasks}
  /\ receipts = {} /\ granted = {}
  /\ journal = [c \in Calls |-> NoEntry] /\ announced = {}
  /\ target = Base /\ published = {} /\ landed = {}
  /\ checkout \in CheckoutStates /\ drift = 0
  /\ child = [c \in Calls |-> "none"]
  /\ worker = "up" /\ gen = 1
  /\ pc = [c \in Calls |-> "idle"]
  /\ LET first == CHOOSE t \in Tasks : TRUE  \* locals that no step reads before it writes
     IN  call = [c \in Calls |-> [ task |-> first, version |-> 0, receipt |-> <<first, 1>>,
                                   oid |-> Base, mode |-> "none", decision |-> "none",
                                   selected |-> {}, seen |-> NoPreview ]]
  /\ busy = NoCall /\ lock = <<>>
  /\ preview = [t \in Tasks |-> NoPreview]

-----------------------------------------------------------------------------
(* The event loop *)

Active(t) == <<t, task[t].activeCandidateId>>
On(c) == call[c].task

\* A new command is dispatched when no other call holds the event loop.
Free(c) == worker = "up" /\ busy = NoCall /\ pc[c] = "idle"
At(c, l) == worker = "up" /\ busy \in {NoCall, c} /\ pc[c] = l

\* The call awaits at l, or (Keep) goes on without giving the event loop away.
Await(c, l) == pc' = [pc EXCEPT ![c] = l] /\ busy' = NoCall
Keep(c, l) == pc' = [pc EXCEPT ![c] = l] /\ busy' = c
Done(c) == Await(c, "done")
Store(c, locals) == call' = [call EXCEPT ![c] = locals]

\* TaskRepository.applyTransition of a transition of the task read at version v:
\* it changes nothing (TASK_VERSION_CONFLICT) when another one came first.
Fresh(c) == call[c].version = task[On(c)].version
SetTask(t, next) == task' = [task EXCEPT ![t] = next]

-----------------------------------------------------------------------------
(* FinalApprovalService *)

\* assertTupleMatches of the receipt's scope and the tuple as it is now, and the
\* receipt's generation.
Valid(c) ==
  /\ [oid |-> call[c].receipt, gen |-> gen] \in receipts
  /\ call[c].receipt = Active(On(c))

\* invalidate: back to the human from HumanApproval or Merging, else no change.
Invalidated(t) ==
  IF task[t].state \in {"Merging", "HumanApproval"}
    THEN Moved(task[t], "HumanApproval") ELSE task[t]

\* task.approveFinalMerge: approve reads the task and the request before it
\* awaits the tuple.  (A call these checks refuse changes nothing and is left out.)
StartApprove(c, r) ==
  /\ Free(c) /\ r \in requests
  /\ r.gen = gen /\ r.oid = Active(r.task)
  /\ r.status = "pending" => task[r.task].state = "HumanApproval"
  /\ Store(c, [call[c] EXCEPT !.task = r.task, !.receipt = r.oid,
                              !.version = task[r.task].version])
  /\ Await(c, IF r.status = "decided" THEN "validate" ELSE "decide")
  /\ UNCHANGED <<task, approvals, journal, announced, repository, process, memory>>

\* The request decideRequest expects to find, and what it makes of it.
PendingRequest(c) ==
  [task |-> On(c), oid |-> call[c].receipt, gen |-> gen, status |-> "pending"]

\* ApprovalRepository.decideRequest: the request and its receipt in one transaction.
DecideRequest(c) ==
  /\ At(c, "decide")
  /\ \/ /\ PendingRequest(c) \in requests
        /\ requests' = (requests \ {PendingRequest(c)})
                         \cup {[PendingRequest(c) EXCEPT !.status = "decided"]}
        /\ receipts' = receipts \cup {[oid |-> call[c].receipt, gen |-> gen]}
        /\ granted' = granted \cup {call[c].receipt}
        /\ Keep(c, "approveMerge")
     \/ /\ PendingRequest(c) \notin requests
        /\ Done(c)
        /\ UNCHANGED approvals
  /\ UNCHANGED <<task, journal, announced, repository, process, call, memory>>

\* approveMerge of the task as approve read it, in a transaction of its own.
ApproveMerge(c) ==
  /\ At(c, "approveMerge")
  /\ \/ Fresh(c) /\ SetTask(On(c), Moved(task[On(c)], "Merging")) /\ Keep(c, "validate")
     \/ ~Fresh(c) /\ Done(c) /\ UNCHANGED task
  /\ UNCHANGED <<approvals, journal, announced, repository, process, call, memory>>

-----------------------------------------------------------------------------
(* MergeService.mergeApprovedCandidate up to the lock *)

\* The first assertCurrentlyValid and the check of the state it read.
Validate(c) ==
  /\ At(c, "validate")
  /\ Store(c, [call[c] EXCEPT !.oid = Active(On(c))])
  /\ Await(c, IF ~Valid(c) THEN "invalidate"
              ELSE IF task[On(c)].state = "Merging" THEN "owners" ELSE "done")
  /\ UNCHANGED <<task, approvals, journal, announced, repository, process, memory>>

Invalidate(c) ==
  /\ At(c, "invalidate")
  /\ SetTask(On(c), Invalidated(On(c)))
  /\ Done(c)
  /\ UNCHANGED <<approvals, journal, announced, repository, process, call, memory>>

\* listWorktrees: two owners end the call, one chooses the fast-forward, none the
\* compare-and-swap; withLock queues the call.
ListOwners(c) ==
  /\ At(c, "owners")
  /\ \/ /\ checkout = "many"
        /\ SetTask(On(c), Invalidated(On(c)))
        /\ Done(c)
        /\ UNCHANGED <<call, memory>>
     \/ /\ checkout # "many"
        /\ Store(c, [call[c] EXCEPT !.mode = IF checkout = "none" THEN "cas" ELSE "ff"])
        /\ lock' = Append(lock, c)
        /\ Await(c, "lock")
        /\ UNCHANGED <<task, preview>>
  /\ UNCHANGED <<approvals, journal, announced, repository, process>>

-----------------------------------------------------------------------------
(* GitManager.fastForwardCheckedOutOwner and compareAndSwapUnownedRef, under *)
(* the repository lock.                                                      *)

\* The worktrees are as the call's mode wants them.
CheckoutReady(c) == checkout = IF call[c].mode = "ff" THEN "clean" ELSE "none"

\* Mutant: every queued call is let in.
LockGrantedToAll(c) == lock # <<>>

\* RepositoryLock.withLock: the lock is granted in the order of the queue, and
\* released when the operation ends.
LockGranted(c) == Head(lock) = c

\* Mutant: the lock is not released.
ReleaseForgotten == lock' = lock

Release == lock' = Tail(lock)

\* An error inside the lock: withLock's finally, and the catch of
\* mergeApprovedCandidate, which invalidates a task that is still Merging.
Abort(c) ==
  /\ SetTask(On(c), IF task[On(c)].state = "Merging"
                      THEN Moved(task[On(c)], "HumanApproval") ELSE task[On(c)])
  /\ Release
  /\ Done(c)

\* Under the lock assertApproved reads first.
EnterLock(c) ==
  /\ At(c, "lock") /\ LockGranted(c)
  /\ Await(c, IF Valid(c) THEN "check" ELSE "invalidateLocked")
  /\ UNCHANGED <<task, approvals, journal, announced, repository, process, call,
                 memory>>

InvalidateLocked(c) ==
  /\ At(c, "invalidateLocked")
  /\ SetTask(On(c), Invalidated(On(c)))
  /\ Release
  /\ Done(c)
  /\ UNCHANGED <<approvals, journal, announced, repository, process, call, preview>>

\* The owners, the status and the ref are read again.
CheckTarget(c) ==
  /\ At(c, "check")
  /\ \/ /\ CheckoutReady(c) /\ target = Base
        /\ Await(c, "journal")
        /\ UNCHANGED <<task, lock>>
     \/ /\ ~(CheckoutReady(c) /\ target = Base)
        /\ Abort(c)
  /\ UNCHANGED <<approvals, journal, announced, repository, process, call, preview>>

\* JournaledOperationRunner.run: recordIntent and markExecuting (recovery treats
\* the two statuses alike), then execute calls assertApproved, which reads.
RecordIntent(c) ==
  /\ At(c, "journal")
  /\ journal' = [journal EXCEPT ![c] =
       [NoEntry EXCEPT !.status = "executing", !.mode = call[c].mode, !.oid = call[c].oid]]
  /\ Await(c, IF Valid(c) THEN "execute" ELSE "invalidateExecuting")
  /\ UNCHANGED <<task, approvals, announced, repository, process, call, memory>>

\* The invalidation is caught as executionError and the operation goes on to observe.
InvalidateExecuting(c) ==
  /\ At(c, "invalidateExecuting")
  /\ SetTask(On(c), Invalidated(On(c)))
  /\ Await(c, "observe")
  /\ UNCHANGED <<approvals, journal, announced, repository, process, call, memory>>

\* Mutant: git is given the task's candidate of this moment, not the validated one.
SpawnGitLate(c) ==
  /\ At(c, "execute")
  /\ journal' = [journal EXCEPT ![c].oid = Active(On(c))]
  /\ child' = [child EXCEPT ![c] = "running"]
  /\ Await(c, "git")
  /\ UNCHANGED <<task, approvals, announced, target, checkout, drift, published,
                 landed, process, call, memory>>

\* git merge --ff-only, after a fresh look at the status of the owner and at the
\* ref (not at the list of worktrees); or git update-ref <target> <candidate>
\* <base>, at once.
SpawnGit(c) ==
  /\ At(c, "execute")
  /\ \/ /\ call[c].mode = "ff" => checkout # "dirty" /\ target = Base
        /\ child' = [child EXCEPT ![c] = "running"]
        /\ Await(c, "git")
     \/ /\ call[c].mode = "ff" /\ ~(CheckoutReady(c) /\ target = Base)
        /\ Await(c, "observe")
        /\ UNCHANGED child
  /\ UNCHANGED <<task, approvals, journal, announced, target, checkout, drift,
                 published, landed, process, call, memory>>

\* External: what git can do with the ref.  update-ref is given the old value;
\* merge --ff-only is not: in the worktree that has the ref it moves it from
\* whatever ancestor of the candidate it holds by then.
GitMoves(c) ==
  IF journal[c].mode = "ff"
    THEN checkout # "none" /\ target \in Ancestors[journal[c].oid]
    ELSE target = Base

\* It moves the ref, or refuses, or is killed by the runner's timeout.
GitRuns(c) ==
  /\ child[c] = "running"
  /\ child' = [child EXCEPT ![c] = "exited"]
  /\ \/ /\ GitMoves(c)
        /\ target' = journal[c].oid
        /\ published' = published \cup {journal[c].oid}
        /\ landed' = landed \cup {journal[c].oid}
     \/ UNCHANGED <<target, published, landed>>
  /\ UNCHANGED <<task, approvals, journal, announced, checkout, drift, process, pc,
                 call, busy, memory>>

\* Mutant: any move of the ref is taken for the merge.
ObservedOutcomesLenient(c) ==
  IF target # Base THEN {"applied"} ELSE {"not_applied"}

\* observe of the two operations; a fast-forward also wants the owner's HEAD at
\* the candidate (and clean) or at the base.  With two checkouts the owner the
\* call chose is one of them or not.
ObservedOutcomes(c) ==
  LET InOwner(states) == call[c].mode = "ff" => checkout \in states
      applied == target = call[c].oid /\ InOwner({"clean", "many"})
      notApplied == target = Base /\ InOwner({"clean", "dirty", "many"})
  IN  (IF applied THEN {"applied"} ELSE {})
        \cup (IF notApplied THEN {"not_applied"} ELSE {})
        \cup (IF (applied \/ notApplied) /\ InOwner({"clean", "dirty"})
                THEN {} ELSE {"conflict"})

\* recordObservation of the outcome, once git has exited or was not run.
Observe(c) ==
  /\ At(c, "observe") \/ (At(c, "git") /\ child[c] = "exited")
  /\ \E outcome \in ObservedOutcomes(c) :
       journal' = [journal EXCEPT ![c].status = "observed", ![c].outcome = outcome]
  /\ Keep(c, "settle")
  /\ UNCHANGED <<task, approvals, announced, repository, process, call, memory>>

\* complete, or needsAttention and the error it throws.
SettleOperation(c) ==
  /\ At(c, "settle")
  /\ \/ /\ journal[c].outcome = "applied"
        /\ journal' = [journal EXCEPT ![c].status = "completed"]
        /\ Release
        /\ Keep(c, "announce")
     \/ /\ journal[c].outcome # "applied"
        /\ journal' = [journal EXCEPT ![c].status = "needs_attention"]
        /\ Keep(c, "abort")
        /\ UNCHANGED lock
  /\ UNCHANGED <<task, approvals, announced, repository, process, call, preview>>

AbortOperation(c) ==
  /\ At(c, "abort")
  /\ Abort(c)
  /\ UNCHANGED <<approvals, journal, announced, repository, process, call, preview>>

\* The merge.completed event, in a transaction of its own.
AnnounceMerge(c) ==
  /\ At(c, "announce")
  /\ announced' = announced \cup {On(c)}
  /\ Keep(c, "finish")
  /\ UNCHANGED <<task, approvals, journal, repository, process, call, memory>>

\* mergeCompleted of the task as it is now; illegal unless it is still Merging.
CompleteMerge(c) ==
  /\ At(c, "finish")
  /\ SetTask(On(c), IF task[On(c)].state = "Merging"
                      THEN Moved(task[On(c)], "Completed") ELSE task[On(c)])
  /\ Done(c)
  /\ UNCHANGED <<approvals, journal, announced, repository, process, call, memory>>

\* A git read fails.  Before the lock the error leaves mergeApprovedCandidate
\* outside its try; inside it aborts; in execute it is recorded and observed; in
\* observe the operation needs attention with an uncertain outcome.
ToolFails(c) ==
  /\ \/ /\ \/ At(c, "decide") \/ At(c, "owners") \/ At(c, "invalidate")
           \/ At(c, "build") \/ At(c, "request")
           \/ At(c, "validate") /\ busy = NoCall
        /\ Done(c)
        /\ UNCHANGED <<task, journal, lock>>
     \/ /\ At(c, "check") \/ At(c, "invalidateLocked")
        /\ Abort(c)
        /\ UNCHANGED journal
     \/ /\ At(c, "execute") \/ At(c, "invalidateExecuting")
        /\ Await(c, "observe")
        /\ UNCHANGED <<task, journal, lock>>
     \/ /\ At(c, "observe") \/ (At(c, "git") /\ child[c] = "exited")
        /\ journal' = [journal EXCEPT ![c].status = "needs_attention",
                                      ![c].outcome = "uncertain"]
        /\ Keep(c, "abort")
        /\ UNCHANGED <<task, lock>>
  /\ UNCHANGED <<approvals, announced, repository, process, call, preview>>

-----------------------------------------------------------------------------
(* Cancellation and a human-directed revision *)

\* TaskEngine.cancelTask of a task without a run reads the task before it awaits the
\* task's side effects; it awaits them again before the cancellation is settled.
StartCancel(c, t) ==
  /\ Free(c)
  /\ task[t].state \notin TerminalStates
  /\ Store(c, [call[c] EXCEPT !.task = t, !.version = task[t].version])
  /\ Await(c, "cancel")
  /\ UNCHANGED <<task, approvals, journal, announced, repository, process, memory>>

RequestCancel(c) ==
  /\ At(c, "cancel")
  /\ \/ /\ Fresh(c)
        /\ SetTask(On(c), Moved(task[On(c)], CancelTarget(task[On(c)])))
        /\ Store(c, [call[c] EXCEPT !.version = @ + 1])
        /\ Await(c, IF CancelTarget(task[On(c)]) = "CancelRequested"
                      THEN "settleCancel" ELSE "done")
     \/ ~Fresh(c) /\ Done(c) /\ UNCHANGED <<task, call>>
  /\ UNCHANGED <<approvals, journal, announced, repository, process, memory>>

SettleCancel(c) ==
  /\ At(c, "settleCancel")
  /\ \/ Fresh(c) /\ SetTask(On(c), Moved(task[On(c)], "Cancelled"))
     \/ ~Fresh(c) /\ UNCHANGED task
  /\ Done(c)
  /\ UNCHANGED <<approvals, journal, announced, repository, process, call, memory>>

\* TaskService.requestRevision: it leaves a pending request as it is.
RequestRevision(t) ==
  /\ worker = "up" /\ busy = NoCall
  /\ task[t].state = "HumanApproval"
  /\ SetTask(t, Moved(task[t], "Revision"))
  /\ UNCHANGED <<approvals, journal, announced, repository, process, pc, call, busy,
                 memory>>

\* CandidateService.buildVerifiedCandidate reads the task before it builds.
StartBuild(c, t) ==
  /\ Free(c)
  /\ task[t].state = "Revision" /\ task[t].activeCandidateId < MaxCand
  /\ Store(c, [call[c] EXCEPT !.task = t, !.version = task[t].version])
  /\ Await(c, "build")
  /\ UNCHANGED <<task, approvals, journal, announced, repository, process, memory>>

CandidateReady(c) ==
  /\ At(c, "build")
  /\ \/ /\ Fresh(c)
        /\ SetTask(On(c), [Moved(task[On(c)], "Candidate") EXCEPT !.activeCandidateId = @ + 1])
        /\ Keep(c, "present")
     \/ ~Fresh(c) /\ Done(c) /\ UNCHANGED task
  /\ UNCHANGED <<approvals, journal, announced, repository, process, call, memory>>

\* requestHumanApproval, and FinalApprovalService.request reads the task.
PresentCandidate(c) ==
  /\ At(c, "present")
  /\ SetTask(On(c), Moved(task[On(c)], "HumanApproval"))
  /\ Store(c, [call[c] EXCEPT !.receipt = Active(On(c))])
  /\ Await(c, "request")
  /\ UNCHANGED <<approvals, journal, announced, repository, process, memory>>

\* The end of request: a pending request is returned, or refused when its tuple
\* differs; else a request for the tuple read before the await is inserted.
InsertRequest(c) ==
  /\ At(c, "request")
  /\ IF \E r \in requests : r.task = On(c) /\ r.status = "pending"
       THEN UNCHANGED requests
       ELSE requests' = requests \cup {PendingRequest(c)}
  /\ Done(c)
  /\ UNCHANGED <<task, receipts, granted, journal, announced, repository, process,
                 call, memory>>

-----------------------------------------------------------------------------
(* A crash, the next worker's startup, and RecoveryCoordinator *)

\* The worker goes with everything in memory; a git process may die with it or
\* live on.
Crash ==
  /\ worker # "down"
  /\ worker' = "down"
  /\ pc' = [c \in Calls |-> IF pc[c] = "idle" THEN "idle" ELSE "done"]
  /\ busy' = NoCall /\ lock' = <<>> /\ preview' = [t \in Tasks |-> NoPreview]
  /\ \E killed \in SUBSET {c \in Calls : child[c] = "running"} :
       child' = [c \in Calls |-> IF c \in killed THEN "exited" ELSE child[c]]
  /\ UNCHANGED <<task, approvals, journal, announced, target, checkout, drift,
                 published, landed, gen, call>>

\* invalidateSensitiveFromOlderGeneration: older receipts and pending requests go.
Surviving(g) ==
  /\ receipts' = {a \in receipts : a.gen = g}
  /\ requests' = {r \in requests : r.status = "pending" => r.gen = g}
Restart ==
  /\ worker = "down" /\ gen < MaxGen
  /\ worker' = "starting" /\ gen' = gen + 1
  /\ Surviving(gen + 1)
  /\ UNCHANGED <<task, granted, journal, announced, repository, pc, call, busy, memory>>

\* markInterruptedAfterGenerationChange, one transaction per task.
Interruptible(t) ==
  task[t].state \notin TerminalStates \cup {"Interrupted", "Reconciling"}
MarkInterrupted(t) ==
  /\ worker = "starting" /\ Interruptible(t)
  /\ SetTask(t, [Moved(task[t], "Interrupted") EXCEPT !.interruptedFromState = LostPhase(task[t])])
  /\ UNCHANGED <<approvals, journal, announced, repository, process, pc, call, busy,
                 memory>>
WorkerReady ==
  /\ worker = "starting" /\ ~ \E t \in Tasks : Interruptible(t)
  /\ worker' = "up"
  /\ UNCHANGED <<task, approvals, journal, announced, repository, gen, pc, call, busy,
                 memory>>

\* OperationJournal.listIncomplete, for one task.
Incomplete(t) ==
  {d \in Calls : /\ journal[d].status \notin {"none", "completed"}
                 /\ journal[d].oid \in {t} \X (1 .. MaxCand)}

\* GitOperationReconciler.observe: a recorded outcome is repeated, otherwise the
\* target ref is compared with the candidate.
Observation(d) ==
  IF journal[d].status \in {"observed", "needs_attention"}
    THEN [outcome |-> journal[d].outcome, oid |-> Base]
    ELSE [outcome |-> IF target = journal[d].oid THEN "applied" ELSE "conflict",
          oid |-> target]
Observations(t) ==
  [d \in Calls |-> IF d \in Incomplete(t) THEN Observation(d) ELSE Absent]

StartPreview(c, t) ==
  /\ Free(c)
  /\ \/ task[t].state = "Interrupted" /\ SetTask(t, Moved(task[t], "Reconciling"))
     \/ task[t].state = "Reconciling" /\ UNCHANGED task
  /\ Store(c, [call[c] EXCEPT !.task = t])
  /\ Await(c, "preview")
  /\ UNCHANGED <<approvals, journal, announced, repository, process, memory>>

CachePreview(c) ==
  /\ At(c, "preview")
  /\ preview' = [preview EXCEPT ![On(c)] = Observations(On(c))]
  /\ Done(c)
  /\ UNCHANGED <<task, approvals, journal, announced, repository, process, call, lock>>

\* resolve of the preview the human saw; keep_observed_state reconciles every
\* operation, the other decisions those selected.
Decisions == {"resume_recorded_phase", "keep_observed_state", "cancel_and_retain"}
StartResolve(c, t, decision, selected) ==
  /\ Free(c)
  /\ task[t].state = "Reconciling" /\ preview[t] # NoPreview
  /\ Store(c, [call[c] EXCEPT !.task = t, !.version = task[t].version,
                              !.decision = decision, !.seen = preview[t],
                              !.selected = selected])
  /\ Await(c, "reconcile")
  /\ UNCHANGED <<task, approvals, journal, announced, repository, process, memory>>

ReconciledStatus(outcome) ==
  IF outcome = "applied" THEN "completed" ELSE "needs_attention"

\* A second look must agree with the preview; then OperationJournal.reconcile.
ToReconcile(c) ==
  {d \in Incomplete(On(c)) : call[c].decision = "keep_observed_state" \/ d \in call[c].selected}
Reconcile(c) ==
  /\ At(c, "reconcile")
  /\ \/ /\ Observations(On(c)) = call[c].seen
        /\ journal' = [d \in Calls |->
             IF d \notin ToReconcile(c) THEN journal[d]
             ELSE [journal[d] EXCEPT
               !.outcome = call[c].seen[d].outcome,
               !.status = ReconciledStatus(call[c].seen[d].outcome)]]
        /\ Keep(c, "resume")
     \/ /\ Observations(On(c)) # call[c].seen
        /\ Done(c)
        /\ UNCHANGED journal
  /\ UNCHANGED <<task, approvals, announced, repository, process, call, memory>>

\* Mutant: an interrupted merge that left an operation behind counts as done.
ResumeTargetOptimistic(c) ==
  LET from == task[On(c)].interruptedFromState
  IN  CASE call[c].decision = "cancel_and_retain" -> "Cancelled"
        [] call[c].decision = "keep_observed_state" /\ from = "Merging" ->
             IF \E d \in Calls : call[c].seen[d].outcome # "absent"
               THEN "Completed" ELSE "HumanApproval"
        [] OTHER -> from

\* Where each decision leads; an interrupted merge is adopted when an operation
\* that was still incomplete is seen applied.
ResumeTarget(c) ==
  LET from == task[On(c)].interruptedFromState
  IN  CASE call[c].decision = "cancel_and_retain" -> "Cancelled"
        [] call[c].decision = "keep_observed_state" /\ from = "Merging" ->
             IF \E d \in Calls : call[c].seen[d].outcome = "applied"
               THEN "Completed" ELSE "HumanApproval"
        [] OTHER -> from

\* resumeRecordedPhase; back at HumanApproval the request is renewed.
ResumePhase(c) ==
  /\ At(c, "resume")
  /\ \/ /\ Fresh(c)
        /\ SetTask(On(c), [Moved(task[On(c)], ResumeTarget(c))
                             EXCEPT !.interruptedFromState = NoPhase])
        /\ Store(c, [call[c] EXCEPT !.receipt = Active(On(c))])
        /\ Await(c, IF ResumeTarget(c) = "HumanApproval" THEN "request" ELSE "done")
     \/ ~Fresh(c) /\ Done(c) /\ UNCHANGED <<task, call>>
  /\ UNCHANGED <<approvals, journal, announced, repository, process, memory>>

\* External: the user's own git moves the target ref, to a candidate too once it is
\* built, or checks it out, edits the worktree, cleans it.
Existing == {o \in Oids : o \in Candidates => o[2] <= task[o[1]].activeCandidateId}
UserGit ==
  /\ drift < MaxDrift /\ drift' = drift + 1
  /\ \/ /\ target' \in Existing \ {target}
        /\ landed' = landed \cup ({target'} \cap Candidates)
        /\ UNCHANGED checkout
     \/ checkout' \in CheckoutStates \ {checkout} /\ UNCHANGED <<target, landed>>
  /\ UNCHANGED <<task, approvals, journal, announced, child, published, process, pc,
                 call, busy, memory>>

-----------------------------------------------------------------------------
MergeStep(c) ==
  \/ DecideRequest(c) \/ ApproveMerge(c) \/ Validate(c) \/ Invalidate(c)
  \/ ListOwners(c) \/ EnterLock(c) \/ InvalidateLocked(c) \/ CheckTarget(c)
  \/ RecordIntent(c) \/ InvalidateExecuting(c) \/ SpawnGit(c) \/ Observe(c)
  \/ SettleOperation(c) \/ AbortOperation(c) \/ AnnounceMerge(c) \/ CompleteMerge(c)
OtherStep(c) ==
  \/ RequestCancel(c) \/ SettleCancel(c) \/ CandidateReady(c) \/ PresentCandidate(c)
  \/ InsertRequest(c) \/ CachePreview(c) \/ Reconcile(c) \/ ResumePhase(c)
CallStep(c) == MergeStep(c) \/ OtherStep(c)

Dispatch(c) ==
  \/ \E r \in requests : StartApprove(c, r)
  \/ \E t \in Tasks : StartCancel(c, t) \/ StartBuild(c, t) \/ StartPreview(c, t)
  \/ \E t \in Tasks, decision \in Decisions, selected \in SUBSET Calls :
       /\ selected \subseteq Incomplete(t)
       /\ StartResolve(c, t, decision, selected)

Next ==
  \/ \E c \in Calls : Dispatch(c) \/ CallStep(c) \/ ToolFails(c) \/ GitRuns(c)
  \/ \E t \in Tasks : RequestRevision(t) \/ MarkInterrupted(t)
  \/ Crash \/ Restart \/ WorkerReady \/ UserGit

\* The event loop runs the calls it has, git ends, and a worker that has started
\* gets ready; nothing obliges the user, the tools to fail, or a worker to crash.
Fairness ==
  /\ \A c \in Calls : WF_vars(CallStep(c)) /\ WF_vars(GitRuns(c))
  /\ \A t \in Tasks : WF_vars(MarkInterrupted(t))
  /\ WF_vars(WorkerReady)

Spec == Init /\ [][Next]_vars
FairSpec == Spec /\ Fairness

-----------------------------------------------------------------------------
(* Properties *)

Locations ==
  {"idle", "done", "decide", "approveMerge", "validate", "invalidate", "owners",
   "lock", "invalidateLocked", "check", "journal", "invalidateExecuting",
   "execute", "git", "observe", "settle", "abort", "announce", "finish", "cancel",
   "settleCancel", "build", "present", "request", "preview", "reconcile", "resume"}
\* A call at one of these holds the repository lock.
Locked ==
  {"invalidateLocked", "check", "journal", "invalidateExecuting", "execute",
   "git", "observe", "settle", "abort"}
\* A call at one of these has passed the first validation of its merge.
Merging == Locked \cup {"owners", "lock", "announce", "finish"}

Outcomes == {"none", "applied", "not_applied", "conflict", "uncertain"}
Observed == [outcome : Outcomes \cup {"unknown", "absent"}, oid : Oids]
View == [Calls -> Observed]
Choices == Decisions \cup {"none"}
Modes == {"none", "cas", "ff"}
Phases == (NonTerminalStates \ {"Interrupted", "Reconciling"}) \cup {NoPhase}
TaskRecord == [ state : TaskStates, version : Nat, interruptedFromState : Phases,
                activeCandidateId : 1 .. MaxCand ]
Request == [ task : Tasks, oid : Candidates, gen : 1 .. MaxGen,
             status : {"pending", "decided"} ]
Receipt == [oid : Candidates, gen : 1 .. MaxGen]
Entry == [ status : {"none", "executing", "observed", "completed", "needs_attention"},
           mode : Modes, oid : Oids, outcome : Outcomes ]
CallRecord == [ task : Tasks, version : Nat, receipt : Candidates, oid : Oids, mode : Modes,
                decision : Choices, selected : SUBSET Calls, seen : View ]

(* Type invariant: the ranges of the tables, the repository and the worker. *)
TypeOK ==
  /\ task \in [Tasks -> TaskRecord]
  /\ requests \subseteq Request /\ receipts \subseteq Receipt
  /\ journal \in [Calls -> Entry] /\ announced \subseteq Tasks
  /\ target \in Oids /\ checkout \in CheckoutStates /\ drift \in 0 .. MaxDrift
  /\ child \in [Calls -> {"none", "running", "exited"}]
  /\ worker \in {"up", "down", "starting"} /\ gen \in 1 .. MaxGen
  /\ pc \in [Calls -> Locations] /\ call \in [Calls -> CallRecord]
  /\ busy \in Calls \cup {NoCall} /\ lock \in Seq(Calls)
  /\ preview \in [Tasks -> View]
  /\ granted \subseteq Candidates /\ published \subseteq Oids /\ landed \subseteq Oids

(* Git never moves the target ref to a candidate that no human approved,   *)
(* whatever crashed, was revised or was retried in between and wherever    *)
(* the user moves the ref meanwhile (FinalApprovalService, MergeService).  *)
OnlyApprovedLands == published \subseteq granted

(* A task is Completed only if one of its candidates really reached the    *)
(* target ref, also when a recovery completed it from the journal.         *)
CompletedHasLanded ==
  \A t \in Tasks : task[t].state = "Completed" => landed \cap ({t} \X (1 .. MaxCand)) # {}

(* The journal never claims an effect that did not happen: an operation is *)
(* completed, or recorded as applied, only if the ref held its candidate.  *)
JournalIsTruthful ==
  \A c \in Calls : journal[c].status = "completed" \/ journal[c].outcome = "applied"
                     => journal[c].oid \in landed

(* One merge at a time per repository: within one worker generation two    *)
(* calls are never both between the lock's grant and its release.          *)
LockIsExclusive ==
  \A c, d \in Calls : pc[c] \in Locked /\ pc[d] \in Locked => c = d

(* Every change of a task is a transition the state machine allows: no     *)
(* caller forces a record past transitionTask with stale knowledge.        *)
Actions ==
  [type : {"processLoss", "cancel", "requestHumanRevision", "requestHumanApproval",
           "approveMerge", "mergeCompleted", "approvalInvalidated", "cancelSettled",
           "beginReconciliation"}]
  \cup [type : {"resumeRecordedPhase"}, target : TaskStates]
  \cup [type : {"candidateReady"}, candidateId : 1 .. MaxCand]
MovesAreLegal ==
  [][ \A t \in Tasks : task'[t] # task[t] =>
        \E a \in Actions : Legal(task[t], a) /\ task'[t] = After(task[t], a) ]_vars

(* What the whole promises (PublishedTarget): the final merge, with every  *)
(* step of its calls, its crashes and its recoveries, implements it.       *)
Phase(t) ==
  CASE task[t].state = "Completed" -> "completed"
    [] task[t].state \in {"Cancelled", "Failed"} -> "closed"
    [] OTHER -> "open"
Published ==
  INSTANCE PublishedTarget WITH
    Versions <- 1 .. MaxCand, phase <- [t \in Tasks |-> Phase(t)]
ImplementsPublishedTarget == Published!Spec

(* Every command ends: no call waits for the lock, or in it, forever. *)
CallsEnd == \A c \in Calls : pc[c] # "idle" ~> pc[c] = "done"

-----------------------------------------------------------------------------
(* What the documents say and the code does not do: TLC refutes each (see  *)
(* the README).                                                            *)

(* When somebody else changes the ref outside the lock the merge stops     *)
(* (design 10.2 step 5): git publishes only on the base the human          *)
(* approved.  git merge --ff-only does not know that base.                 *)
LandsOnApprovedBase == [][published' # published => target = Base]_vars

\* Call c spawns its git process.
Spawned(c) == child[c] # "running" /\ child'[c] = "running"

(* A task that is being cancelled gets no new work: no git process is      *)
(* spawned for it any more (design 12.1 step 1; MergeService, whose        *)
(* assertApproved never looks at the task's state).                        *)
CancelledSpawnsNothing ==
  [][ \A c \in Calls :
        Spawned(c) => task[On(c)].state \notin {"CancelRequested", "Cancelled"} ]_vars

(* Recovery adopts a merge that happened: when an interrupted merge is     *)
(* resolved by the observed state, the target is the candidate and the     *)
(* journal says its merge is complete, the task completes                  *)
(* (RecoveryCoordinator.resolve).                                          *)
InterruptedMergeIsAdopted ==
  [][ \A c \in Calls :
        /\ pc[c] = "resume" /\ pc'[c] # "resume" /\ worker' = "up"
        /\ call[c].decision = "keep_observed_state"
        /\ task[On(c)].interruptedFromState = "Merging"
        /\ target = Active(On(c))
        /\ \E d \in Calls : journal[d].status = "completed" /\ journal[d].oid = target
        => task'[On(c)].state = "Completed" ]_vars

(* The merge.completed event and the completion of the task are one        *)
(* transaction: no database holds the one without the other (MergeService).*)
AnnouncedIsCompleted ==
  worker = "up" /\ busy = NoCall => \A t \in announced : task[t].state = "Completed"

(* A task is Merging only under a receipt of the living worker for its     *)
(* candidate; after a crash the human is asked again (FinalApprovalService,*)
(* RecoveryCoordinator).                                                   *)
MergingIsApproved ==
  worker = "up" => \A t \in Tasks : task[t].state = "Merging" =>
                     [oid |-> Active(t), gen |-> gen] \in receipts

(* When a validation or a git read fails the task returns to the human: a  *)
(* Merging task always has a call that is merging it (MergeService).       *)
MergingIsDriven ==
  worker = "up" /\ busy = NoCall => \A t \in Tasks : task[t].state = "Merging" =>
    \E c \in Calls : On(c) = t /\ pc[c] \in Merging \cup {"validate", "invalidate"}

(* A revised candidate can be approved: once no call is at work on a task  *)
(* at HumanApproval, a pending request is a request for the candidate it   *)
(* has (TaskService.requestRevision, FinalApprovalService.request).        *)
PendingRequestIsCurrent ==
  worker = "up" => \A r \in requests :
    /\ r.status = "pending" /\ task[r.task].state = "HumanApproval"
    /\ \A c \in Calls : On(c) = r.task => pc[c] \in {"idle", "done"}
    => r.oid = Active(r.task)
=============================================================================
