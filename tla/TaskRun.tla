------------------------------- MODULE TaskRun -------------------------------
(***************************************************************************)
(* One provider run of a task and the cancellations that race it:          *)
(* TaskEngine (task-engine.ts) over RunnerBackedAdapter                    *)
(* (runner-backed-adapter.ts), within one worker generation.               *)
(*                                                                         *)
(* The run is one of three kinds: the lead's first implementation          *)
(* (startApprovedTask, runApprovedTask), a revision (runLeadRevision) or   *)
(* the collaborator's round (runCollaborationProvider).  A step is the     *)
(* code between two awaits that really wait; awaits of promises that are   *)
(* already settled do not let another command in.                          *)
(***************************************************************************)
EXTENDS TaskStateMachine

CONSTANTS
  Starts,     \* startApprovedTask commands, each with its own idempotency key
  Cancels,    \* cancel commands: the user's, quit's, the deadline timer's
  Deadline,   \* the deadline timer's
  NoCall,
  Kinds,      \* the kinds of run to consider
  MaxEvents   \* bound: workspace.writeText events of the provider

Calls == Starts \cup Cancels
ASSUME ConstantsAssumption ==
  /\ Starts \cap Cancels = {} /\ NoCall \notin Calls /\ Deadline \in Cancels
  /\ Kinds \subseteq {"implementation", "revision", "collaboration"}
  /\ MaxEvents \in Nat

VARIABLES
  task,       \* tasks: state, version
  row,        \* agent_runs.state of the run, "none" before insertRun
  record,     \* idempotency_records: status and recorded answer of each command
  kind, pc,   \* the run's kind and program counter
  seen,       \* version of the task as the run's code holds it
  driver,     \* the command that drives the run
  lifecycle,  \* RunLifecycle: in runLifecycles, terminal's result, consumerSettled
  active, pending,   \* is the run in activeRuns, in pendingRuns
  settlement, \* cancellationSettlements: the latest cancel in progress
  awaited,    \* the cancel whose settlement the run awaits
  cpc,        \* program counter of each command but the driver
  held,       \* version of the task as each cancel holds it
  provider    \* the adapter's run and the provider's process

durable == <<task, row, record>>
memory == <<lifecycle, active, pending, settlement>>
local == <<kind, driver, seen, awaited>>
vars == <<durable, memory, local, pc, cpc, held, provider>>

-----------------------------------------------------------------------------
\* collaborationSideEffectsAllowed and the other two loops look at these states.
Working(k) ==
  CASE k = "implementation" -> {"Working"}
    [] k = "revision" -> {"Revision"}
    [] k = "collaboration" -> {"Review1", "Review2"}
FirstStates(k) == IF k = "implementation" THEN {"Preparing"} ELSE Working(k)

NoAnswer == [status |-> "none", answer |-> "none"]
Init ==
  /\ kind \in Kinds
  /\ \E state \in FirstStates(kind) : task = [state |-> state, version |-> 1]
  /\ row = "none" /\ record = [c \in Calls |-> NoAnswer]
  /\ pc = "idle" /\ seen = 0 /\ driver = NoCall /\ awaited = NoCall
  /\ lifecycle = [open |-> FALSE, result |-> "none", drained |-> FALSE]
  /\ active = FALSE /\ pending = FALSE /\ settlement = NoCall
  /\ cpc = [c \in Calls |-> "idle"] /\ held = [c \in Cancels |-> 0]
  /\ provider = [ stage |-> "none", alive |-> FALSE, stopping |-> FALSE,
                  completion |-> "none", queue |-> 0, left |-> MaxEvents ]

-----------------------------------------------------------------------------
(* The durable records and the promises *)

Terminal == task.state \in TerminalStates
Begun(c) == [record EXCEPT ![c] = [status |-> "pending", answer |-> "none"]]
Answered(c, state) == [record EXCEPT ![c] = [status |-> "completed", answer |-> state]]
Settle(l, state) == IF l.result = "none" THEN [l EXCEPT !.result = state] ELSE l

\* Mutant: a cancellation does not resolve the run's terminal promise.
SettleRunForgotten(state) == lifecycle

\* settleRunLifecycle: only a run that is still in the map.
SettleRun(state) == IF lifecycle.open THEN Settle(lifecycle, state) ELSE lifecycle

\* Mutant: the version is not compared.
VersionIgnored(version) == TRUE

\* transition of a task held at a version.  transitionTask looks at the state the
\* caller holds: only the version tells applyTransition that the task has moved.
Fresh(version) == version = task.version

\* RunnerBackedAdapter.cancelRun: a run that is not registered is left alone.
Stop(p) ==
  IF p.stage \in {"registered", "ready"} /\ p.completion = "none"
    THEN [p EXCEPT !.stopping = TRUE] ELSE p

-----------------------------------------------------------------------------
(* The run: from the command to the provider *)

\* Mutant: the side effects of a task are not serialised.
SideEffectHeldNever == FALSE

\* withTaskSideEffect: only the collaborator's writes and checkpoint hold it long.
SideEffectHeld == kind = "collaboration" /\ pc \in {"write", "checkpoint"}
\* The run queues behind the cancels that wait for it.
SideEffectFree == ~ \E c \in Cancels : cpc[c] = "lock"

\* The run's code ends: with an answer (complete the command, settle the
\* lifecycle), or with an error (settle it with the task's state).
Leave(answer, state) ==
  /\ pc' = "done"
  /\ lifecycle' = [Settle([lifecycle EXCEPT !.drained = TRUE], state) EXCEPT !.open = FALSE]
  /\ active' = FALSE /\ pending' = FALSE
  /\ record' = IF driver # NoCall /\ answer # "none" THEN Answered(driver, answer) ELSE record
  /\ UNCHANGED <<settlement, local>>
\* runApprovedTask's result answers startApprovedTask; runLeadRevision and the
\* collaborator's round answer nothing where they return before their end.
Return(state) ==
  IF kind = "implementation" THEN Leave(state, state) ELSE Leave("none", task.state)

\* startApprovedTask of a task without a lifecycle.
Start(s) ==
  /\ kind = "implementation" /\ pc = "idle" /\ cpc[s] = "idle" /\ task.state = "Preparing"
  /\ driver' = s /\ seen' = task.version /\ pc' = "worktree"
  /\ record' = Begun(s)
  /\ lifecycle' = [lifecycle EXCEPT !.open = TRUE]
  /\ UNCHANGED <<task, row, kind, awaited, active, pending, settlement, cpc, held, provider>>

\* startApprovedTask of a task that has one waits for its terminal promise.
Join(s) ==
  /\ lifecycle.open /\ kind = "implementation" /\ s # driver /\ cpc[s] = "idle"
  /\ record' = Begun(s)
  /\ cpc' = [cpc EXCEPT ![s] = "joined"]
  /\ UNCHANGED <<task, row, memory, local, pc, held, provider>>
Joined(s) ==
  /\ cpc[s] = "joined" /\ lifecycle.result # "none"
  /\ record' = Answered(s, lifecycle.result)
  /\ cpc' = [cpc EXCEPT ![s] = "done"]
  /\ UNCHANGED <<task, row, memory, local, pc, held, provider>>

\* runLeadRevision, or runCollaborationProvider within its own command: the task
\* is read, then the context is prepared.
StartRound ==
  /\ kind # "implementation" /\ pc = "idle" /\ task.state \in Working(kind)
  /\ seen' = task.version /\ pc' = "context"
  /\ \/ kind = "revision" /\ \E s \in Starts : driver' = s
     \/ kind = "collaboration" /\ UNCHANGED driver
  /\ UNCHANGED <<durable, memory, kind, awaited, cpc, held, provider>>

\* ensureAgentWorktree has ended; the task is read again.
Prepare ==
  /\ pc = "worktree"
  /\ \/ /\ task.state = "Preparing" /\ Fresh(seen)
        /\ task' = Moved(task, "Working") /\ seen' = task.version + 1
        /\ pc' = "context"
        /\ UNCHANGED <<record, memory, kind, driver, awaited>>
     \/ /\ ~(task.state = "Preparing" /\ Fresh(seen))
        /\ Return(task.state)
        /\ UNCHANGED task
  /\ UNCHANGED <<row, cpc, held, provider>>

\* The context is there: a row, a lifecycle where there is none yet, and startRun.
\* The task is not read again.
Launch ==
  /\ pc = "context"
  /\ row' = "starting"
  /\ record' = IF kind = "revision" THEN Begun(driver) ELSE record
  /\ lifecycle' = [lifecycle EXCEPT !.open = TRUE]
  /\ pending' = TRUE
  /\ provider' = [provider EXCEPT !.stage = "launching"]
  /\ pc' = "starting"
  /\ UNCHANGED <<task, local, active, settlement, cpc, held>>

\* raceRunLifecycle: the terminal promise wins, the handle or the event is ignored.
\* A handle that comes late is only closed.
TerminalWins ==
  /\ pc \in {"starting", "events", "completion"} /\ lifecycle.result # "none"
  /\ Return(lifecycle.result)
  /\ UNCHANGED <<task, row, cpc, held, provider>>

\* The handle is there, and the task is read again.  A lead run that is being
\* cancelled goes on to drain its events but is not registered as active.
HandleReady ==
  /\ pc = "starting" /\ provider.stage = "ready"
  /\ \/ /\ task.state \in Working(kind) /\ (kind = "collaboration" => Fresh(seen))
        /\ row' = "running" /\ active' = TRUE /\ pending' = FALSE
        /\ pc' = "events"
        /\ UNCHANGED <<record, lifecycle, settlement, local>>
     \/ /\ kind = "implementation" /\ task.state = "CancelRequested"
        /\ pending' = FALSE
        /\ pc' = "events"
        /\ UNCHANGED <<row, record, lifecycle, active, settlement, local>>
     \/ /\ task.state \notin Working(kind) \/ (kind = "collaboration" /\ ~Fresh(seen))
        /\ ~(kind = "implementation" /\ task.state = "CancelRequested")
        /\ Return(task.state)
        /\ UNCHANGED row
  /\ UNCHANGED <<task, cpc, held, provider>>

-----------------------------------------------------------------------------
(* The run: the provider's events *)

\* providerSideEffectsAllowed, and its counterparts.
Gate ==
  IF kind = "collaboration" THEN task.state \in Working(kind) /\ Fresh(seen)
  ELSE task.state \in Working(kind) \cup {"CancelRequested"}

\* Mutant: the end of the iterator is taken for an event.
EmittedOrDone == provider.queue > 0 \/ provider.completion # "none"

\* iterator.next() has an event.
Emitted == provider.queue > 0

\* An event, and the gate.  Then recordProviderEvent.
NextEvent ==
  /\ pc = "events" /\ Emitted
  /\ kind = "collaboration" => SideEffectFree
  /\ provider' = [provider EXCEPT !.queue = @ - 1]
  /\ \/ Gate /\ pc' = "publish" /\ UNCHANGED <<record, memory, local>>
     \/ ~Gate /\ Return(task.state)
  /\ UNCHANGED <<task, row, cpc, held>>

\* The event is published.  The first implementation passes the gate again, a
\* revision does not, the collaborator does so under the side effect's lock.  An
\* event is workspace.writeText, or one that only had to be published (the only
\* one RunnerBackedAdapter emits; writes come from other providers of the port).
Published ==
  /\ pc = "publish"
  /\ kind = "collaboration" => SideEffectFree
  /\ \/ /\ kind = "revision" \/ Gate
        /\ pc' \in {"write", "events"} /\ UNCHANGED <<record, memory, local>>
     \/ /\ kind = "collaboration" /\ ~Gate
        /\ pc' = "events" /\ UNCHANGED <<record, memory, local>>
     \/ /\ kind = "implementation" /\ ~Gate
        /\ Return(task.state)
  /\ UNCHANGED <<task, row, cpc, held, provider>>

\* workspace.writeText has ended.
Written ==
  /\ pc = "write" /\ pc' = "events"
  /\ UNCHANGED <<durable, memory, local, cpc, held, provider>>

\* Mutant: the run's completion is awaited, not the end of its events.
CompletionOnly == provider.completion # "none"

\* run.completed and run.failed are the last of the queue's events.
AllConsumed == provider.queue = 0 /\ provider.completion # "none"

\* The last event, or the end of the queue: the consumer has settled.
Drained ==
  /\ pc = "events" /\ AllConsumed
  /\ lifecycle' = [lifecycle EXCEPT !.drained = TRUE]
  /\ pc' = "completion"
  /\ UNCHANGED <<durable, local, active, pending, settlement, cpc, held, provider>>

\* cancellationSettlements.get: the lead's run answers with the cancellation.
CancelInProgress ==
  kind # "collaboration" /\ task.state = "CancelRequested" /\ settlement # NoCall

\* handle.completion, and the task as it is now.
Completed ==
  /\ pc = "completion" /\ provider.completion # "none"
  /\ active' = IF kind = "implementation" THEN FALSE ELSE active
  /\ \/ /\ CancelInProgress
        /\ awaited' = settlement /\ pc' = "settlement"
        /\ UNCHANGED <<task, row, record, lifecycle, pending, settlement, kind, driver, seen>>
     \/ /\ task.state \in Working(kind) /\ (kind = "collaboration" => Fresh(seen))
        /\ provider.completion = "completed"
        /\ kind = "collaboration" => SideEffectFree
        /\ row' = "completed" /\ pc' = "checkpoint"
        /\ UNCHANGED <<task, record, lifecycle, pending, settlement, local>>
  /\ UNCHANGED <<cpc, held, provider>>

\* The other ways out of the completion: the task has moved on, or the provider
\* did not complete.
CompletedOtherwise ==
  /\ pc = "completion" /\ provider.completion # "none"
  /\ \/ /\ \/ task.state \notin Working(kind)
           \/ kind = "collaboration" /\ ~Fresh(seen)
        /\ ~CancelInProgress
        /\ Return(task.state)
        /\ UNCHANGED <<task, row>>
     \/ /\ kind # "collaboration" /\ task.state \in Working(kind)
        /\ provider.completion = "cancelled"
        /\ row' = IF kind = "implementation" /\ row \in {"starting", "running"}
                    THEN "cancelled" ELSE row
        /\ Return(task.state)
        /\ UNCHANGED task
     \/ /\ kind # "collaboration" /\ task.state \in Working(kind)
        /\ provider.completion = "failed"
        /\ row' = "failed"
        /\ task' = Moved(task, "Failed")
        /\ Leave("Failed", "Failed")
  /\ UNCHANGED <<cpc, held, provider>>

\* The run answers with the cancellation it waited for.
Settled ==
  /\ pc = "settlement" /\ cpc[awaited] = "done"
  /\ Return(record[awaited].answer)
  /\ UNCHANGED <<task, row, cpc, held, provider>>

\* createCheckpoint has ended and checkpoint.created is appended; only the first
\* implementation moves the task, from the version it holds.
Checkpointed ==
  /\ pc = "checkpoint"
  /\ \/ /\ kind = "implementation" /\ Fresh(seen)
        /\ task' = Moved(task, "Checkpoint")
        /\ Leave("Checkpoint", "Checkpoint")
     \/ /\ kind # "implementation"
        /\ Leave(task.state, task.state)
        /\ UNCHANGED task
     \/ /\ kind = "implementation" /\ ~Fresh(seen)
        /\ lifecycle' = [lifecycle EXCEPT !.drained = TRUE]
        /\ pc' = "catch"
        /\ UNCHANGED <<task, record, active, pending, settlement, local>>
  /\ UNCHANGED <<row, cpc, held, provider>>

\* An error: git, the workspace, the start, a provider that did not complete the
\* collaborator's round, a cancellation that rejected.  The provider is cancelled
\* where the code has its handle.  (A round whose context fails leaves no trace.)
Throws ==
  /\ \/ pc \in {"worktree", "write", "checkpoint"}
     \/ pc = "context" /\ kind = "implementation"
     \/ pc = "starting" /\ provider.stage = "rejected"
     \/ pc = "settlement" /\ cpc[awaited] = "rejected"
     \/ /\ pc = "completion" /\ kind = "collaboration" /\ Gate
        /\ provider.completion \in {"failed", "cancelled"}
  /\ pc' = "catch"
  /\ lifecycle' = [lifecycle EXCEPT !.drained = kind = "implementation" \/ @]
  /\ provider' = IF active \/ (kind # "implementation" /\ pc # "starting")
                   THEN Stop(provider) ELSE provider
  /\ UNCHANGED <<durable, active, pending, settlement, local, cpc, held>>

\* The catch, once the provider's cancellation has ended: a lead's task fails.
Catch ==
  /\ pc = "catch" /\ ~provider.stopping
  /\ row' = IF row \in {"starting", "running"} \/ (kind = "implementation" /\ row # "none")
              THEN "failed" ELSE row
  /\ \/ /\ kind # "collaboration" /\ ~Terminal
        /\ task' = Moved(task, "Failed")
        /\ Leave("Failed", "Failed")
     \/ /\ kind = "collaboration" \/ Terminal
        /\ Leave("none", task.state)
        /\ UNCHANGED task
  /\ UNCHANGED <<cpc, held, provider>>

-----------------------------------------------------------------------------
(* cancel and cancelTask *)

\* The cancellation is requested; a registered provider is told at once.
Request(c, version) ==
  IF ~Fresh(version)
  THEN /\ cpc' = [cpc EXCEPT ![c] = "rejected"]
       /\ settlement' = IF settlement = c THEN NoCall ELSE settlement
       /\ UNCHANGED <<task, held, provider>>
  ELSE /\ task' = Moved(task, CancelTarget(task))
       /\ held' = [held EXCEPT ![c] = version + 1]
       /\ settlement' = c
       /\ IF active \/ pending
            THEN cpc' = [cpc EXCEPT ![c] = "completion"] /\ provider' = Stop(provider)
            ELSE cpc' = [cpc EXCEPT ![c] = "settle"] /\ UNCHANGED provider

\* A round sets its deadline when its row is inserted and clears it at its end.
DeadlineArmed == kind # "implementation" /\ pc \notin {"idle", "context", "done"}

BeginCancel(c) ==
  /\ cpc[c] = "idle" /\ (c = Deadline => DeadlineArmed)
  /\ \/ /\ Terminal
        /\ record' = Answered(c, task.state)
        /\ lifecycle' = SettleRun(task.state)
        /\ cpc' = [cpc EXCEPT ![c] = "done"]
        /\ UNCHANGED <<task, settlement, held, provider>>
     \/ /\ ~Terminal
        /\ record' = Begun(c)
        /\ IF SideEffectHeld
             THEN /\ cpc' = [cpc EXCEPT ![c] = "lock"]
                  /\ held' = [held EXCEPT ![c] = task.version]
                  /\ settlement' = c
                  /\ UNCHANGED <<task, provider>>
             ELSE Request(c, task.version)
        /\ UNCHANGED lifecycle
  /\ UNCHANGED <<row, active, pending, local, pc>>

\* The side effects of the task are done.
LockedCancel(c) ==
  /\ cpc[c] = "lock" /\ ~SideEffectHeld
  /\ Request(c, held[c])
  /\ UNCHANGED <<row, record, lifecycle, active, pending, local, pc>>

\* The end of a cancel: the task moves, the command is answered and the run's
\* terminal promise resolved; or the task has moved and the cancel rejects.
EndCancel(c, state) ==
  /\ settlement' = IF settlement = c THEN NoCall ELSE settlement
  /\ \/ /\ Fresh(held[c])
        /\ task' = Moved(task, state)
        /\ record' = Answered(c, state)
        /\ lifecycle' = SettleRun(state)
        /\ cpc' = [cpc EXCEPT ![c] = "done"]
     \/ /\ ~Fresh(held[c])
        /\ cpc' = [cpc EXCEPT ![c] = "rejected"]
        /\ UNCHANGED <<task, record, lifecycle>>

\* The provider has settled; the events it had sent are drained first.
ProviderSettled == provider.stage = "ready" /\ provider.completion # "none"
AwaitDrain(c) ==
  /\ cpc[c] = "completion" /\ ProviderSettled /\ lifecycle.open
  /\ cpc' = [cpc EXCEPT ![c] = "drain"]
  /\ UNCHANGED <<durable, memory, local, pc, held, provider>>

SettleCancel(c) ==
  /\ \/ /\ cpc[c] = "settle"
        /\ UNCHANGED <<row, active, pending>>
     \/ /\ \/ cpc[c] = "completion" /\ ProviderSettled /\ ~lifecycle.open
           \/ cpc[c] = "drain" /\ lifecycle.drained
        /\ row' = IF row \notin {"starting", "running"} THEN row
                  ELSE IF provider.completion = "failed" THEN "failed" ELSE "cancelled"
        /\ active' = FALSE /\ pending' = FALSE
  /\ EndCancel(c, "Cancelled")
  /\ UNCHANGED <<local, pc, held, provider>>

\* Both waits race the grace timer, and fail with what they wait for.
GraceTimer(c) == cpc[c] \in {"completion", "drain"}

\* The grace period ends, the provider's cancellation rejects, or its start did.
FailCancel(c) ==
  /\ GraceTimer(c)
  /\ row' = IF row \in {"starting", "running"} THEN "failed" ELSE row
  /\ active' = FALSE /\ pending' = FALSE
  /\ EndCancel(c, "Failed")
  /\ UNCHANGED <<local, pc, held, provider>>

-----------------------------------------------------------------------------
(* RunnerBackedAdapter.start and the provider's process *)

ProviderSteps(p) ==
  CASE p.stage = "launching" ->
         {[p EXCEPT !.stage = "registered", !.alive = TRUE], [p EXCEPT !.stage = "rejected"]}
    [] p.stage = "registered" /\ p.completion = "none" ->
         {[p EXCEPT !.stage = "ready"]} \cup
         {[p EXCEPT !.stage = "rejected", !.completion = "failed", !.alive = a,
                    !.stopping = FALSE] : a \in BOOLEAN}
    [] OTHER -> {}
ProviderStarts ==
  /\ provider' \in ProviderSteps(provider)
  /\ UNCHANGED <<durable, memory, local, pc, cpc, held>>

Live == provider.stage \in {"registered", "ready"} /\ provider.completion = "none"

\* The provider asks for a write, or ends on its own.
ProviderEmits ==
  /\ Live /\ provider.left > 0
  /\ provider' = [provider EXCEPT !.queue = @ + 1, !.left = @ - 1]
  /\ UNCHANGED <<durable, memory, local, pc, cpc, held>>
ProviderEnds ==
  /\ Live
  /\ \E outcome \in {"completed", "failed", "cancelled"} :
       provider' = [provider EXCEPT !.completion = outcome, !.alive = FALSE, !.stopping = FALSE]
  /\ UNCHANGED <<durable, memory, local, pc, cpc, held>>

\* runner.cancel has ended the process, or gives up.
ProviderStops ==
  /\ provider.stopping
  /\ \/ provider' = [provider EXCEPT !.completion = "cancelled", !.alive = FALSE, !.stopping = FALSE]
     \/ provider' = [provider EXCEPT !.stopping = FALSE]
  /\ UNCHANGED <<durable, memory, local, pc, cpc, held>>
\* A run that ends before its session started rejects its start.
StartRejects ==
  /\ provider.stage = "registered" /\ provider.completion # "none"
  /\ provider' = [provider EXCEPT !.stage = "rejected"]
  /\ UNCHANGED <<durable, memory, local, pc, cpc, held>>

-----------------------------------------------------------------------------
RunStep ==
  \/ Prepare \/ Launch \/ TerminalWins \/ HandleReady \/ NextEvent \/ Published \/ Written
  \/ Drained \/ Completed \/ CompletedOtherwise \/ Settled \/ Checkpointed \/ Throws \/ Catch
CancelStep(c) ==
  LockedCancel(c) \/ AwaitDrain(c) \/ SettleCancel(c) \/ FailCancel(c)
AdapterStep == ProviderStops \/ StartRejects

\* A cancel that found no run goes on to its end before anyone else is let in.
Settling == \E c \in Cancels : cpc[c] = "settle"
Next ==
  \/ \E c \in Cancels : SettleCancel(c)
  \/ /\ ~Settling
     /\ \/ \E s \in Starts : Start(s) \/ Join(s) \/ Joined(s)
        \/ StartRound \/ RunStep
        \/ \E c \in Cancels : BeginCancel(c) \/ CancelStep(c)
        \/ AdapterStep \/ ProviderStarts \/ ProviderEmits \/ ProviderEnds

\* The event loop, git and the file system go on, the timers fire, and a provider
\* that is being stopped stops; nothing else obliges the provider or the users.
Fairness ==
  /\ WF_vars(~Settling /\ BeginCancel(Deadline))
  /\ WF_vars(~Settling /\ RunStep) /\ WF_vars(~Settling /\ AdapterStep)
  /\ \A c \in Cancels : WF_vars(CancelStep(c) /\ (~Settling \/ cpc[c] = "settle"))
  /\ \A s \in Starts : WF_vars(~Settling /\ Joined(s))

Spec == Init /\ [][Next]_vars
FairSpec == Spec /\ Fairness

-----------------------------------------------------------------------------
(* Properties *)

RowStates == {"none", "starting", "running", "completed", "cancelled", "failed"}
(* Type invariant: the ranges of the rows, the maps and the program counters. *)
TypeOK ==
  /\ task \in [state : TaskStates, version : Nat]
  /\ row \in RowStates
  /\ record \in [Calls -> [ status : {"none", "pending", "completed"},
                           answer : TaskStates \cup {"none"} ]]
  /\ kind \in Kinds /\ seen \in Nat /\ driver \in Starts \cup {NoCall}
  /\ pc \in {"idle", "worktree", "context", "starting", "events", "publish", "write",
             "completion", "settlement", "checkpoint", "catch", "done"}
  /\ lifecycle \in [ open : BOOLEAN, result : TaskStates \cup {"none"}, drained : BOOLEAN ]
  /\ active \in BOOLEAN /\ pending \in BOOLEAN
  /\ settlement \in Cancels \cup {NoCall} /\ awaited \in Cancels \cup {NoCall}
  /\ cpc \in [Calls -> {"idle", "joined", "lock", "completion", "drain", "settle",
                        "done", "rejected"}]
  /\ held \in [Cancels -> Nat]
  /\ provider \in [ stage : {"none", "launching", "registered", "ready", "rejected"},
                    alive : BOOLEAN, stopping : BOOLEAN,
                    completion : {"none", "completed", "failed", "cancelled"},
                    queue : 0 .. MaxEvents, left : 0 .. MaxEvents ]

(* A cancel command that was answered tells the truth for good: its replay *)
(* answers with the terminal state the task really has, whatever the run,  *)
(* the other cancels and the grace timer did (TaskEngine.cancelTask).      *)
CancelAnswersTruth ==
  \A c \in Cancels : record[c].status = "completed" =>
    Terminal /\ record[c].answer = task.state

(* The collaborator's worktree is written and committed only in the review *)
(* it was started for: a cancellation waits for the write, and no write    *)
(* starts after it (TaskEngine.withTaskSideEffect).                        *)
CollaboratorWritesInReview ==
  kind = "collaboration" /\ pc \in {"write", "checkpoint"} =>
    task.state \in Working(kind) /\ task.version = seen

(* A lead's task is at its checkpoint only with the whole run behind it:   *)
(* the provider completed, every event it sent was applied and no write is *)
(* left, the row says so and the command was answered with it, whatever    *)
(* cancels came before (TaskEngine.runApprovedTask).                       *)
CheckpointHasWholeRun ==
  task.state = "Checkpoint" =>
    /\ provider.completion = "completed" /\ provider.queue = 0
    /\ row = "completed" /\ pc = "done"
    /\ record[driver] = [status |-> "completed", answer |-> "Checkpoint"]

(* A cancellation ends, answered or rejected, and ends the run and everyone *)
(* who waits for it, also when the provider never starts, sends or          *)
(* completes (the grace timer of TaskEngine.cancelTask,                     *)
(* RunLifecycle.terminal).                                                  *)
CancelEndsRun ==
  \A c \in Cancels : cpc[c] # "idle" ~>
    /\ cpc[c] \in {"done", "rejected"}
    /\ pc \in {"idle", "done"} /\ \A s \in Starts : cpc[s] # "joined"

(* A round ends, cancelled by nobody but its deadline, also when the       *)
(* provider never starts, sends or completes (the deadline timer of        *)
(* TaskEngine.runLeadRevision and runCollaborationProvider).               *)
RoundsEnd == kind # "implementation" /\ pc # "idle" ~> pc = "done"

-----------------------------------------------------------------------------
(* What the documents say and the code does not do: TLC refutes each (see  *)
(* the README).                                                            *)

Quiet == pc \in {"idle", "done"} /\ \A c \in Cancels : cpc[c] \in {"idle", "done", "rejected"}

(* A task that is cancelled gets no new work: no provider is started for   *)
(* it (design 12.1 step 1; TaskEngine.runApprovedTask).                    *)
CancelledStartsNothing ==
  [][ provider.stage = "none" /\ provider'.stage = "launching" =>
        task.state \notin {"CancelRequested", "Cancelled"} ]_vars

(* When a cancellation has ended, in time or by its grace period, the      *)
(* provider's process is ended or being ended (design 12.1 step 4;         *)
(* TaskEngine.cancelTask, RunnerBackedAdapter.cancelRun).                  *)
CancelledProviderStops ==
  Quiet /\ Terminal => ~provider.alive \/ provider.stopping

(* The last events and the state of git are saved before a cancelled task  *)
(* is marked: no checkpoint is committed and announced for a task that is  *)
(* already Cancelled or Failed (design 12.1 step 5;                        *)
(* TaskEngine.runLeadRevision, runApprovedTask).                           *)
NoLateCheckpoint == [][Checkpointed => ~Terminal]_vars

(* A cancellation that succeeds drains the events that were already        *)
(* buffered before the task is Cancelled: no event is left and no write is *)
(* under way (TaskEngine.cancelTask).                                      *)
CancelDrainsFirst ==
  [][ task.state # "Cancelled" /\ task'.state = "Cancelled" =>
        pc # "write" /\ provider.queue = 0 ]_vars
=============================================================================
