# Branchestra: a TLA+ verification of the task engine

Branchestra is a desktop application in which coding agents work on a user's repository:
a task is scoped and approved by a human, run by a provider in a worktree, reviewed by a
second agent, built into a candidate and merged into the user's branch once a human
approves it. This directory holds TLA+ modules translated from that code, the TLC
configurations that check them and TLAPS proofs. Line numbers refer to the sources under
`src/` of the repository; `PROJECT.json` maps every definition to the lines it stands for.

## 1. The system

| Component | State it keeps | Operations | Modelled in |
|---|---|---|---|
| Task state machine (`worker/tasks/task-state-machine.ts`) | one record per task: state, recorded phase, version, review budget and rounds, candidate | `transitionTask` | `TaskStateMachine` |
| Task service and repository (`task-service.ts`, `task-repository.ts`) | tasks, rounds, commands, runs, events (SQLite) | create, approve scope, grant rounds, complete review, revise, `applyTransition` | `TaskLifecycle`, `Collaboration`, parts in `FinalMerge`, `TaskRun` |
| Task engine (`task-engine.ts`) | per-task lifecycle promises, active and pending runs, side-effect locks | start, lead revision, collaboration run, cancel | `TaskRun` |
| Provider adapters (`runner-backed-adapter.ts`, `mock-provider.ts`) | live run handles, buffered events | start, cancel, events, completion | `TaskRun` |
| Final approval (`final-approval-service.ts`, `approval-repository.ts`) | approval requests and receipts | request, approve, assertApproved, invalidate | `FinalMerge` |
| Merge (`merge-service.ts`, final-merge paths of `git-manager.ts`) | the target ref, worktrees, child git processes | mergeApprovedCandidate | `FinalMerge`, `PublishedTarget` |
| Operation journal and repository lock (`operations/`) | journal rows, one promise chain per repository | intent, executing, settle, replay, reconcile, withLock | `OperationJournal`, used by `Checkpoints`, `Collaboration`; the same rows in `FinalMerge` |
| Recovery (`recovery-coordinator.ts`, `git-operation-reconciler.ts`) | previews | mark interrupted, preview, resolve | `FinalMerge`, `TaskLifecycle`, `Checkpoints`, `Collaboration` |
| Worker supervision (`main/worker/supervisor.ts`, `worker/runtime.ts`, `storage/worker-lease-store.ts`) | child process, generation, timers, pending requests, lease row | start, request, stop; acquire, heartbeat, release | `WorkerSupervisor` |
| Candidate builder (`candidate-service.ts`) | candidates, artifacts | build, verify, request approval | the protected commit in `Checkpoints`, its transitions in `Collaboration`, the rest abstracted in `FinalMerge` |
| Collaboration and integration (`collaboration-coordinator.ts`, `integration-service.ts`) | rounds, findings, integration commands | request round, integrate, continue an integration | `Collaboration` |
| Git worktrees and checkpoints (rest of `git-manager.ts`) | branches, worktrees, checkpoint and candidate refs | ensure worktree, checkpoint, protect, cherry-pick | `Checkpoints`, `Collaboration` |
| Provider processes (`process/`, `supervised-provider-runner.ts`, `provider-runner/`) | process groups, identities, message streams | spawn, probe, read messages, abort/TERM/KILL | `ProviderProcess` |
| Events and timeline (`event-store.ts`, `idempotency-store.ts`, `renderer/state/timeline-store.ts`) | room sequence, dedupe records, replay cursor | append, replay, catch up, hydrate, select, post, refresh | `Timeline` |
| Cleanup (`cleanup/`) | retention | preview, archive, remove | not modelled |
| Preload bridge and gateway (`preload/api.ts`, `main/ipc/renderer-gateway.ts`) | the worker generation | request, subscribe | the generation checks, in `Timeline` |
| Renderer views, context, diagnostics, security, provider parsing | presentation and pure data handling | - | not modelled |

How they interact. The main process forks one worker per generation and talks to it in
messages; the worker is the only writer of SQLite, while it holds the lease. Inside the
worker everything runs on one JavaScript event loop: handlers interleave only where they
`await`, a SQLite transaction is atomic, and promise chains (the repository lock, the
side-effect lock, a run's lifecycle) are what keep two handlers apart. Git commands and
providers are processes of their own; they outlive a worker that crashes, and the user's
own git commands run beside them. Tasks carry a version and every transition is refused
(`TASK_VERSION_CONFLICT`) if the record moved since it was read.

What is hard. Cancellations, deadlines and grace timers race provider completions; state
read before an `await` is used after it; one operation is several transactions, so a crash
can fall between two of them; git finishes after the worker that started it is gone;
recovery decides from a preview that may be stale; a dying worker and its replacement meet
at the lease. `PROJECT.json` lists these as hazards, each at its line.

What makes each component correct:

- state machine and lifecycle: a task can always be resumed after an interruption, never
  reaches the human or the merge without a candidate, stays within its round budget;
- merge: the target only moves to an approved candidate, a completed task has landed, the
  journal tells the truth, git commands on one repository are serialised, every call ends;
- engine: a cancellation's answer is true for good, it ends the run and everyone who waits
  for it, a checkpoint contains the whole run, a collaborator writes only in its review;
- timeline: what the user sees of a room is a prefix of its log, "ready" is said only of a
  live worker and a room that is caught up, nothing that was sent live is lost silently;
- checkpoints: nothing is committed twice for one intent, the recorded checkpoints are the
  application's own commits in a chain, whatever diverged is explained by the journal;
- collaboration: a task with a pending integration stays open, what an integration reports is
  what the branch holds, a reported failure left nothing behind;
- provider processes: a run called over has ended, only the run's own process is signalled,
  a cancellation that reaches a runner ends it;
- supervision: one owner of the database, no process left behind, no request left waiting
  for a dead worker, restarts until ready, and a quit that ends.

## 2. Plan

The order put the code that moves the user's branch first.

1. `TaskStateMachine`, `TaskLifecycle` and its proofs - done.
2. `FinalMerge` with `PublishedTarget` as its abstract specification, and its proofs - done.
3. `TaskRun` and its proofs - done.
4. `WorkerSupervisor` and its proofs - done.
5. `Timeline`: event store, replay pages, hydrate and catch-up across generations and
   lifecycle epochs, and the proof that a timeline is a prefix of its log - done.
6. `OperationJournal`, the row that every journalled operation shares, and on top of it
   `Checkpoints` (worktrees, checkpoints, candidate refs) and `Collaboration` (rounds,
   cherry-picks, the reservation of a task), and the proofs about both - done.
7. `ProviderProcess`: spawn, identity check, abort, TERM and KILL, and its proofs - done.
8. Open: cleanup against tasks that a late call still works on; `TaskRun` with
   `ProviderProcess` in the place of its one Boolean; the restart of `WorkerSupervisor` with
   the start-up of `Collaboration` as one loop.

## 3. The modules

### TaskStateMachine, TaskLifecycle

`TaskStateMachine` is `transitionTask` as operators: `Legal(task, action)` is the guard of
every event and `After(task, action)` the record it returns. `PlainMoves` is the table of
events without conditions; the conditional ones (cancel, processLoss, review rounds, recovery)
are named operators. `TaskLifecycle` drives one task with every event its callers can send:
the plain ones, scope approval with its budget, grants, the candidate, a crash at any time
(`MarkInterrupted`) and the recovery decisions (`Resolve`). The two-phase cancellation, the
recorded phase and the budget are the interesting part. `reached` is history: the last state
that was neither Interrupted nor Reconciling, kept apart from the record, so that
`RecoveryNeverAdvances` finds a wrong recorded phase too. `MaxVersion` bounds the number of
transitions; the proofs hold for every bound.

### FinalMerge, PublishedTarget

The variables are named after the stores: `task`, `requests`, `receipts`, `journal`,
`announced` (SQLite), `target`, `checkout`, `child` (git), `worker`, `gen`, `lock`, `preview`
and the program counters `pc` of the `Calls` (memory). A call is one IPC command; it can be
an approval, a cancellation, a revision, a candidate build, a recovery preview or a
recovery decision. A step is the code between two awaits; where such a stretch writes the
database more than once, each write is a step and `busy` keeps the event loop, so that
crashes fall between the writes but other calls do not.

The main path is `StartApprove` (read), `DecideRequest`, `ApproveMerge` (two transactions),
`Validate`, `ListOwners`, the queue of `lock`, `EnterLock`, `CheckTarget`, `RecordIntent`,
`SpawnGit`, `GitRuns` (git's own time; it goes on after a crash), `Observe`,
`SettleOperation`, `AnnounceMerge`, `CompleteMerge`. Both ways of publishing are there:
fast-forwarding the one worktree that has the target checked out, and compare-and-swap of a
ref nobody has checked out; a target checked out by many is refused.
`Crash` clears the memory; `Restart`, `MarkInterrupted`, `WorkerReady` are start-up.
`StartPreview`/`CachePreview` and `StartResolve`/`Reconcile`/`ResumePhase` are recovery.
`UserGit` is the user moving the target, to an older commit, back, or to a candidate that is
built, or changing the checkout, at any time.

The two git commands differ in what they check themselves (`GitMoves`). `git update-ref` gets
the old value and moves the ref from `Base` only. `git merge --ff-only` gets none: it
fast-forwards from whatever ancestor of the candidate the ref holds when git looks, which the
user may have moved since the code's own check at git-manager.ts:1218. `Others` are the
commits that are neither the base nor a candidate and `Ancestors` says who descends from
whom; the proofs hold for every such relation, TLC has a commit older than the base and
candidates built on one another. Either command may refuse or be killed by its timeout.
`published` is history: what git moved the ref to for a call; `landed` is what the ref has
held, whoever moved it.

`PublishedTarget` is the promise: grants, landings of granted commits on the base or forward
from an ancestor of theirs, drift, completions of tasks one of whose commits the target has
held, closings. That the application lands on the approved base only would be the stronger
promise; the code does not keep it (`LandsOnApprovedBase`, section 6). `FinalMerge` implements
the weaker one with `phase` read off the task's state. The weaker "one of its candidates
landed" is what the code guarantees. The stronger "the active candidate landed" is false: when
a merge of the first candidate is in flight and a duplicate approval is refused because the
target is checked out twice, the task returns to HumanApproval, can be revised, and the second
candidate can be approved; then the first call's `mergeCompleted` finds the task Merging at
the version it reads and completes it with the first candidate landed.

Abstractions: the candidate builder is two steps (`StartBuild`, then the new version);
`recordIntent` and `markExecuting` are one step, as no await lies between them; the removal
of a cached preview is not observable and left out; approve calls that are refused change
nothing and are left out; the reconciliation loop over selected operations is one step;
the re-check of owner and HEAD inside the lock is one observation of `checkout`; with two
worktrees on the target, the one a call chose may be either (`ObservedOutcomes` is a set). A
target ref that disappears is not modelled, nor is an owner's worktree that the user switches
to another branch before git runs: the merge then moves that branch, and the model has it
refuse. In production only the mock workflow and recovery
call `finalApproval.request`; the model has the request exist as soon as the candidate does.

### TaskRun

One run of one `kind` (implementation, lead revision, collaboration) against a set of
starts, cancellations and the run's own deadline. `pc` is the round's program counter,
`cpc` that of the commands, `lifecycle`, `active`, `pending`, `settlement` the engine's maps,
`record` the durable engine commands, `provider` the adapter and the process behind it.
The order in `cancelTask` is kept: read the task, queue for the side-effect lock, request,
find the active or pending run, ask the adapter to cancel, wait for the completion with a
grace timer, drain, settle. `RunnerBackedAdapter` only emits messages; the writes are the
`workspace.writeText` events of the port that `MockProvider` emits, so an event may be a
write or plain. The provider is one Boolean here (`alive`); its process is `ProviderProcess`.

### WorkerSupervisor

The supervisor's closure (`state`, `active`, the timers, `restartIndex`, the start promise,
the pending requests) and the worker processes with their message queues in both
directions, so a `worker.ready` may cross a timeout and an exit event may overtake a
message. A worker is `forked`, then `starting` (it has the lease, recovery runs), `serving`,
and `deaf` when it stopped itself or was rejected but the process lives on. The lease is
one row, `fresh` until the TTL passes without a heartbeat. Time is abstracted to what the
constants 5 s TTL, 1 s heartbeat, 5 s handshake give: a row expires when its owner is dead,
and at most `MaxStalls` times while it is alive (a blocked event loop or a start-up that
takes the whole TTL). A UUID generation that nothing refers to is reused, which keeps
restarts unbounded with finitely many generations. `MaxFaults` bounds crashes, failed forks,
slow starts and responses that cannot be posted; what the supervisor kills dies for free.
Oversized and malformed envelopes, which the worker's own checks exclude, are left out.

### Timeline

The worker's side is `log` (an event is its `room_seq`), `worker`, the open `requests`; the
renderer's side is the closure of `createTimelineStore`: `epoch` (lifecycleEpoch), `sequence`
and `status` (the status operations), `known` (generation, ready, hydrated), `snapshot`,
`selected`, `shown` (eventsByRoom), `catches` with the calls that wait on each replay's
promise, `hydrating`, and `refreshes`, the chain of forced hydrates. `preload` is the
generation the bridge stamps on requests. Between the two lies `channel`, delivered in the
order of sending. The renderer is single threaded: a callback is one step, and the
continuations it wakes are in `jobs` and run before the next callback (`Idle`); a catch-up
hands its waiters on in the order they joined.

`AppendEvent` sends an event live or not, as the engine's publications and the other
appends do; the answer to a post is followed by the message and all later events
(`LaterEvents`, a page of 50 in the code). A post is durable (`CommitPost`) before it is
answered, so a crash can fall between. `Reject` is both the gateway's refusal of an old
generation and the supervisor's rejection of the requests of a dead worker. `Obsolete` is
the bridge's check on an answer. `ReceivePage` has the outcomes of one turn of `runCatchUp`:
failed, of an older epoch, contradictory, accepted with or without another page.

Not modelled: pagination of a snapshot, rooms created or removed in it (a refresh returns
the same rooms with new cursors), duplicate event ids, selection of projects and tasks,
`dispose`, `hydrate` called again while another runs (`App.tsx:12` calls it on mount), and
`state.invalidated`, which the store ignores.

### OperationJournal, Checkpoints

`OperationJournal` is one row of `operation_journal` as a value: `Executing`, `Observed`,
`Settled`, `Replays` and what a reconciliation makes of it. `recordIntent` and
`markExecuting` are one step, as no await lies between them.

`Checkpoints` is one agent's worktree. The repository is `commits` (parent and checkpoint
trailer of each), `branch`, `tree`, `head`, `staged` and `refs`; the database `row`
(`current_checkpoint_oid`), `records` and `journal`; the worker `queue` (the repository lock),
`pc` and `call`. A call of `ensureAgentWorktree`, `createCheckpoint` or `protectCandidate`
goes through `Start`, `AskForLock`, its intent, the git command of its own step
(`GitOfCall`), the observation and the record. A checkpoint is two journalled operations,
`commit` and `ref`, under suffixes of the caller's key. `Crash` at any await turns a git
command under way into `orphan`, which may still take effect after the next worker has
started; `CrashAfterObservation` falls between the two statements that settle a row.
`UserGit` commits in the worktree, moves it, switches its branch or makes a ref.

### Collaboration

The review cycle after the lead's first checkpoint. `StartRound`, `EnsureCollaborator` and
`BeginRound` are `requestRound`; `CompleteReview` the findings; `StartIntegrate` to `Finish`
the cherry-picks of the selected checkpoints; `StartContinue`, `Resume`, `Continue`,
`ReadContinued` (HEAD, before the status is read) and `ContinueFinish` the continuation after
the user has resolved a conflict. A pick can stop without an unmerged file, because it is
empty (`GitPick`); `Stopped` then ends in an error with the command pending
(`CHERRY_PICK_CONFLICT_FILES_MISSING`), as it does for another pick or none, and only a pick
with changes is a conflict. Coarser than the code: an edit of the user to an empty pick counts
as an unmerged file. `BuildCandidate` is the end of `buildVerifiedCandidate`, which moves the
task to its candidate and the human unless an integration is pending. The durable command is
`pending` from `StartIntegrate` on and reserves the task: `EngineMoves` and `ApplyTransition`
refuse while it is. A commit is the history of the branch up to it, a sequence of `"own"`,
picked checkpoints and `"user"`, so a property can say what an integration contains.
`LeadCheckpoint` is a whole checkpoint of the lead in one step, `Cancel` the request of a
cancellation, `UserGit` the user's and the lead's own changes. `Crash`, `StartUp`, `Preview`
and `ResumePhase` are the next worker; `StartUp` is disabled where
`markInterruptedAfterGenerationChange` throws, since such a worker does not start.

### ProviderProcess

One run of a provider: `leader` is the runner's process as the operating system has it
(alive, sent SIGKILL, zombie, reaped), `helper` the provider's executable in the same group,
`reused` says that another process got the group's number. `start` is
`RunnerBackedAdapter.start`, `sup` and `row` what the supervisor remembers in memory and in
the journal, `reader` the message loop of `launch`, `runner` and `stdout` the runner's
program. There are three kinds of cancelling callers: the adapter's `cancelRun` (as many as
`Cancels`), the message loop that refuses a message (`Reader`) and a start without a session
(`Starter`); each goes through `Begin`, `ExitAwaited` or `GraceEnds`, `Verify`, `Signal`, and
`Returns` or `Throws`. `VerifyTimesOut` and `ProbeTimesOut` are a `ps` that does not answer.
`stray` and `late` are history: who signalled a stranger, and whose verification was
overtaken by the reuse of the number. Between ps and kill no code can exclude that, so
`OnlyVerifiedIsSignalled` allows exactly it.

## 4. The runs

| Run | Configuration | What it asks |
|---|---|---|
| `task_lifecycle` | one task, 16 versions | Do rounds stay in budget and match the review phase? Is there a candidate before approval, does a recovery return to the phase that was reached? |
| `final_merge` | 1 task, 2 candidates, 3 calls, every checkout, 2 generations, 1 user command | Crashes between any two writes with git alive, duplicates, revisions, cancellations: has a completed task landed, was what git published approved, is the journal truthful, the lock exclusive, `PublishedTarget` implemented? |
| `merge_calls` | the same with 2 calls, fair | Does every call end? |
| `task_run` | 2 starts, 2 cancellations and a deadline, 2 events, all kinds, fair | Are the answers of cancellations true, are collaborator writes and checkpoints right, does a cancellation end the run and a deadline a round whose provider never answers? |
| `worker_supervisor` | 3 generations, 1 request, 2 faults, 1 stall, fair | One database owner, nobody left behind, ready again, stops |
| `timeline` | 2 rooms, 2 events, 1 in transit, pages of one event, 2 generations, 1 user call, fair | Is a timeline always a prefix of the log, is ready true, do posted and published events appear? |
| `checkpoints` | 2 calls, 2 keys, 2 checkpoints, 4 starts, 2 commits, 1 crash, 1 user command | Are the records a chain of the application's commits, was every effect intended, once, and is a divergence explained by the journal? |
| `collaboration` | 2 calls, 2 keys, 2 picks, budget 2, 4 starts, 4 commits, 1 crash, 1 user command | Does a reserved task stay open, is a failure clean, does a result describe the branch, does the lead's record follow it? |
| `provider_process` | 1 `cancelRun` beside the reader's and the starter's cancel, 1 message, 1 ps failure, fair | Is a run called over gone, is only a verified process signalled, does a cancel end the runner? |
| `adopted_merge`, `cancelled_provider`, `stuck_recovery` | small instances | Disagreements with the documents, section 6 |

The bounds. Three calls give an approval, its duplicate and one interfering command, or an
approval, a preview and a resolution; the second generation is the recovery after a crash. Two
candidates let a superseded one meet its successor. One user command moves the target, to an
older commit, the base or a candidate, or the checkout while git runs. Sixteen versions are
enough for two reviews, a revision and a crash with its recovery on the way to Completed. Two
events make a completion overtake a buffered event; two cancellations and a deadline are all
the actors `cancelTask` tells apart (first, second, timer). Three workers are one dying, one
rejected and its replacement; the second fault can strike the recovery from the first. In
`timeline` two events with pages of one event make a catch-up of two pages and let a live
event overtake a page; the second generation gives a disconnect and a reconnect with any
request in flight; the one user call is a selection, a post, a creation with its refresh, or a
cleanup. `MaxInTransit` bounds events and answers in the channel, not the announcements of
crashes and restarts. In `checkpoints` two calls race in the lock and a third and fourth retry
after the crash, under an old key or a new one; two commits are a checkpoint and its successor
or its double. In `collaboration` four starts are a round, an integration that conflicts, its
continuation and a replay; two picks let an integration stop half way. In `provider_process`
one more cancel beside the two internal ones gives every pair of escalations; the one message
is a session, a tool call or one that is refused, followed by the result. Two tasks in one
repository are the same to the lock as two calls on one. `CHECK_DEADLOCK FALSE` is set
everywhere because every instance legitimately ends: a task is closed, every call is spent,
the supervisor is stopped, the process is gone.

Symmetry is used for calls, keys and checkpoint ids where a configuration checks safety only.
Two configurations have a `VIEW`, which leaves out what no later step and no property reads:
in `final_merge` the locals of a call that is done, in `collaboration` the numbers of versions
(a version is only ever compared with that of a pending command, for being equal) and locals
of a call past their last use. `MCFinalMerge` and `MCCollaboration` say why for each part.
Every property has a mutant in `PROJECT.json`: an alternative of a mapped definition (marked
`Mutant` in the modules) under which TLC finds the property violated.

## 5. Fairness

`FinalMerge`: each call takes its next step if the worker lives, and git processes end; the
JavaScript event loop and the operating system give this. No fairness is put on crashes,
the user, or new commands. `TaskRun`: the engine's continuations, the adapter and the
deadline's timer run; nothing obliges a provider to start, emit, complete or fail (except
that one told to stop, once registered, does). The deadline is fair only where the code
arms it (`DeadlineArmed`: rounds, not implementations), and `CancelEndsRun` needs it: a
cancellation during `prepareContext` finds no run, and the round that then starts its
provider is ended by its deadline alone. `WorkerSupervisor`: timers fire, messages and exits
are delivered, killed processes die, workers progress and dead owners' rows expire; a fork
is retried but no fault, stall, start or stop is obliged to happen. `Timeline`: requests are
answered or rejected, a dead worker is replaced, the channel delivers and the microtasks run;
no fairness for the user, for appended events or for crashes. `ProviderProcess`: the worker's
promises and timers run, an exit is reported, a process sent SIGKILL ends; neither the runner
nor the provider nor ps has to do anything, and `CancelEndsRunner` excuses a worker that died
and a ps that timed out. `Collaboration` (only for `NextWorkerStarts`): a worker that can
start does.

## 6. Where the documents and the code part

Three runs expect a violation; `PROJECT.json` quotes the lines.

- `adopted_merge`: a merge whose journal entry is settled but whose task is not cannot be
  resolved to Completed after a crash, because only incomplete operations are previewed.
- `cancelled_provider`: a cancellation while `startRun` is pending reaches no run; after the
  grace period the task has failed and the provider runs on.
- `stuck_recovery`: `applyTransition` refuses while an integration command of the task is
  pending; after a crash in the middle of an integration `markInterrupted` throws at every
  start-up, and nothing but a worker that has started could settle the command.

The modules state further ones, in a section of their own, that TLC refutes as well. To see
the trace, give the configuration `SPECIFICATION Spec` and the name in place of its
properties (`INVARIANT` or `PROPERTY`, as the name is a state or an action formula):

- `LandsOnApprovedBase` (`MCFinalMerge.cfg`): the target is compared with the base before
  `git merge --ff-only` (git-manager.ts:1218, 1222), which takes no expected old value; a branch
  the user has moved to an older commit in between is fast-forwarded to the candidate and
  reported as applied (design, line 344, says the merge stops when external git changes the
  state).
- `MergingIsDriven` (`MCFinalMerge.cfg`): a failure before the `try` of
  `mergeApprovedCandidate` (merge-service.ts:37) leaves the task in Merging with nothing
  driving it.
- `CancelledSpawnsNothing` (`MCFinalMerge.cfg`): assertApproved never reads the task's state,
  so git is spawned for a task being cancelled (design 12.1, line 385, says no new work is
  dispatched).
- `AnnouncedIsCompleted` (`MCFinalMerge.cfg`): merge.completed and the transition are two
  transactions (git-task-engine plan, line 2212, says one).
- `MergingIsApproved` (`MCFinalMerge.cfg`): recovery can resume to Merging with the approval
  invalidated (design, lines 300 and 410).
- `PendingRequestIsCurrent` (`MCFinalMerge.cfg`): a revision leaves the superseded candidate's
  request pending; the request for the new candidate finds it, throws on the mismatch, and none
  is made for the new one (git-task-engine plan, line 2086; design, line 334).
- `NoLateCheckpoint` (`MCTaskRun.cfg`): the engine reads the task's state, awaits the checkpoint
  and announces it for a task that was cancelled meanwhile (design, line 389, saves the git
  state before the task is marked; task-7 report, line 171).
- `CancelledStartsNothing` (`MCTaskRun.cfg`): a provider starts for a task cancelled while its
  context was prepared (design, line 385).
- `CancelDrainsFirst` (`MCTaskRun.cfg`): a second cancellation settles Cancelled before the
  first has drained the buffered events (task-7 report, line 392).
- `NoFalseAlarm` (`MCTimeline.cfg`): live events accepted while a replay is in flight make its
  page a duplicate; `runCatchUp` compares the page's tail with the cursor after them and
  reports an error although nothing failed. It takes a page shorter than what is missing
  (`PageLimit`: 200 events or 64 KiB); with pages that hold everything it holds on the same
  instance (`PageLimit` = 2, `MaxInTransit` = 2, 1 012 534 states).
- `ReservationHoldsTheVersion` (`MCCollaboration.cfg`): a review completed during an integration
  moves the task past the version the command was reserved at, so the integration's own
  completion is refused (lead-integration.test.ts says the version is reserved).
- `WholeGroupEnds` (`MCProviderProcess.cfg`): `cancel` ends when the runner has exited; an
  executable of the group that ignored SIGTERM runs on (design, line 388, says the whole
  process group is ended).

Three further behaviours contradict no document but are worth knowing. A continuation of an
integration that is asked again under its key, after the lead has gone on, replays the
journal's result and writes the old commit into `current_checkpoint_oid`
(git-manager.ts:1036): `RecordNeverGoesBack` of `Collaboration` states that the record only
grows, and TLC refutes it with `MCCollaboration.cfg`. A worker that stops
itself (a response it cannot post, a lost lease) neither exits nor tells the supervisor,
which stays ready; requests sent to it are never answered. The model has this state (`deaf`
under `state = "ready"`). And a runner that dies after it was ready, without a last message,
ends the message loop and settles nobody's completion (`StreamEnds`); only a deadline of the
engine ends the round.

## 7. Proofs

Proved by TLAPS for every value of the constants allowed by the named assumptions:

- `TaskLifecycle_proofs`: `TypeCorrect`, `RoundsWithinBudgetHolds`, `CandidateBeforeApprovalHolds`,
  `RecoveryNeverAdvancesHolds`. `IInv` adds `PhaseIsKnown` to the types and the two
  invariants: an interrupted task knows the phase it was in. Without it a recovery would fall
  back to the human's approval from anywhere, with or without a candidate, and the budget
  and the candidate are invariants of that phase rather than of the state.
  `RecoveryNeverAdvances` follows from `PhaseIsReached`, that the phase on record is the one in
  the history `reached`, however many interruptions came in between.
- `FinalMerge_proofs`: `TypeCorrect` (`TypeOK`) and `MutualExclusion` (`LockIsExclusive`) from
  `IInv`, which adds to the types that the queue has no duplicates, that a call waits or works
  in the lock exactly while it is in the queue, and that only the head works.
  `OnlyApprovedLandsHolds`, `CompletedHasLandedHolds`, `JournalIsTruthfulHolds` follow from
  `SafeInv`: what is being merged, journalled, running or previewed is a candidate somebody
  approved, and an operation is reported or previewed as applied only if its commit landed.
  None of it needs the ref to be at the base when git moves it: only what git was given counts.
  The invariant must speak of previews and locals too, since those carry a stale truth across
  awaits and crashes. `MovesAreLegalHolds` and `Implementation` rest on `HeldInv`: a call which
  still has the event loop knows the task's present version, so its unguarded writes are legal.
  The refinement of `PublishedTarget` follows, one step lemma per kind of step; what `GitMoves`
  allows is what `Land` demands, so it rests on no assumption about the user.
- `WorkerSupervisor_proofs`: `TypeCorrect`, `SoleOwnerHolds`, `LeaseIsRespectedHolds`,
  `AttachedOrScheduledHolds`, `WaitingFollowsWorkerHolds`, `GenerationsAlternateHolds`,
  `NoWorkerLeftBehindHolds`. `TypeOK` is not inductive (the end of stop detaches `active`):
  `DeadlineAttached` says a child is attached while the deadline is armed. `LeaseInv` says a
  worker that works holds a fresh row as long as nobody stalled. `SupervisorInv` says a
  restart is armed only while starting with no child, which is what makes the waiting
  requests those of the attached worker. `ProcessInv` adds that a worker whose answer to stop
  is under way has stopped reading, so stop may forget it without killing it.
- `Timeline_proofs`: `TypeCorrect`, `ShownIsPrefixHolds`, `PostedIsShownHolds`,
  `ReadyIsCaughtUpHolds`; the second and third from `PrefixInvariant`.
  `ShownIsPrefix` alone is not inductive: `PrefixInv` adds that every event, page and answer
  in the channel, and every call that waits behind a catch-up or in `jobs`, speaks of events
  that are recorded, so what `planAcceptedEvents` accepts extends one prefix of the log to
  another. `FreshKeeps` is that step; `PrefixGrows` needs that a bounded set of numbers has a
  greatest one, which follows from the well-foundedness of the naturals. The types (`TypeInv`)
  need the set of rooms to be finite, because the bound on events counts over all rooms.
  `ReadyIsCaughtUp` follows from `StatusInv`, in four layers. `OrderInv`: behind a disconnect
  the channel holds nothing but refusals until a worker is ready, so a snapshot that is loaded
  is of a worker the store may call ready. `HydrateInv`: the hydrate of an epoch is in one
  place (asked for, answered, behind a catch-up or about to end) and is the one in
  `hydrateTask`, so at most one can show ready and none is under way when ready is shown.
  `LoadedInv` and `ReadyInv`: once a snapshot is loaded, and as long as ready is shown, the
  selected room is `Covered`: it has what the snapshot counted, or a catch-up in flight has a
  waiter of the same operation or a later one, or the failure of one waits in `jobs`. The
  operation is what makes this inductive, since `patchStatus` drops a failure that is older
  than what is on display; a selection made meanwhile covers the promise because it is newer.
- `TaskRun_proofs`: `TypeCorrect`, `CancelAnswersTruthHolds`,
  `CollaboratorWritesInReviewHolds`, `CheckpointHasWholeRunHolds`. The task's version is the
  thread of the argument: `HeldIsCurrent` and `SeenIsCurrent` say what a cancel and the run
  know of the task's state as long as the version they hold is the present one, so the
  versions compared in `Fresh` make every later move start from the state its author thinks
  it does. `QueueIsConsumed` carries the end of the events from `Drained` to the checkpoint,
  past whatever the provider still does; `DriverIsApart` keeps the run's own command out of
  those that wait for it.
- `ProviderProcess_proofs`: `TypeCorrect`, `OverMeansGoneHolds`, `OnlyVerifiedIsSignalledHolds`,
  `HelperIsTraceableHolds`. `Safe` adds what the stages of a cancel know: an exit seen is an
  exit that happened, after SIGKILL the leader is not alive, a verification is of the run's
  number or overtaken by a reuse, and a command is sent only once the journal names the
  process.

- `Checkpoints_proofs`: `EffectsWereIntendedHolds` and `RecordedCheckpointsAreAChainHolds`
  from `IInv`, which needs no lock. Commits, checkpoint refs, records and intents are only ever
  added (`Grows`), so what a call has observed of them (`CallInv`) stays true across its awaits,
  and a git command that was sent (`CommandInv`) stays intended after its worker is gone. The
  journal's rows carry the same: a row that answers a retry names the commit that was
  intended, on a parent in the chain (`CommitRowInv`), or a ref that is there (`RefRowInv`).
  `TypeCorrect`, `OneCommitPerIntentHolds` and `DivergenceIsExplainedHolds` need the lock and
  follow from `SerialInv`. `LockInv`: the queue has no duplicates, and only its head works.
  `CommitsAreAttributed`: there is an injection from the application's commits into the keys
  whose rows intended them, none of which is about to commit again, and an orphaned
  `git commit` has a key to spare; counting commits against intents is then the comparison of
  two finite sets. `UntouchedInv`: in a worktree the user has left alone either some intent is
  `Stuck` (its row can never be completed, because nobody holds it any more) or the history is
  `Tidy` (every commit but the last is recorded, and the record is at the last one that is).
- `Collaboration_proofs`: `TypeCorrect`, `ReservedTaskStaysOpenHolds`, `FailedLeftNothingHolds`,
  `IntegratedAsSelectedHolds`, `LeadRecordFollowsHeadHolds`. A pending command belongs to at
  most one call (`Owns`), and the call that picks holds the lock and has an executing row of
  its own (`Runs`). What it has picked so far (`Progressed`) is a prefix of the selection on top
  of the commit it began on, which only its own next pick or a commit of the user extends, so
  the completed row says what was selected. `LeadRecordFollowsHead` is inductive together with
  `Runs`: an operation in flight is itself the open row that explains the divergence.

With these every type invariant, every safety invariant and the refinement that the passing
runs check are theorems. Only model-checked: the liveness properties `CallsEnd`,
`CancelEndsRun`, `RoundsEnd`, `BecomesReadyAgain`, `StopEnds`, `PublishedIsShown` and
`CancelEndsRunner`, which rest on the fairness of section 5 and on ENABLED, out of the
prover's reach; and the refutations of section 6, which are counterexamples and nothing
to prove.

## 8. Not modelled

See the table of section 1 and the notes in `PROJECT.json`. Whole components: cleanup (file
moves and `git worktree prune` for tasks nothing else works on any more), provider health,
sessions and registry (parsing and single-row upserts that nothing races for), the renderer's
views, and the storage schema (each SQLite transaction is one atomic step of the modules).
What the modelled parts leave out: building and verifying a candidate's evidence, session
resumption, context building, path guarding, status and diff readers, approved test commands
and their journalled process runner, redaction, formats and hashes (a hash is compared only
for equality), and the conversation auto-runner of `runtime.ts:461-534`.
