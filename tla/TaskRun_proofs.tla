---------------------------- MODULE TaskRun_proofs ----------------------------
(***************************************************************************)
(* Proofs about TaskRun for every set of commands and every number of      *)
(* events: what a cancellation answers stays true, a collaborator writes   *)
(* only in the review it was started for, and a checkpoint has the whole   *)
(* run behind it.                                                          *)
(***************************************************************************)
EXTENDS TaskRun, TLAPS

USE ConstantsAssumption DEF ConstantsAssumption

-----------------------------------------------------------------------------
(* Types: what the operators make of the records                           *)

TaskRecords == [state : TaskStates, version : Nat]
Answers == [ status : {"none", "pending", "completed"}, answer : TaskStates \cup {"none"} ]
Records == [Calls -> Answers]
Lifecycles == [ open : BOOLEAN, result : TaskStates \cup {"none"}, drained : BOOLEAN ]
Labels == {"idle", "worktree", "context", "starting", "events", "publish", "write",
           "completion", "settlement", "checkpoint", "catch", "done"}
CallLabels == {"idle", "joined", "lock", "completion", "drain", "settle", "done", "rejected"}
Stages == {"none", "launching", "registered", "ready", "rejected"}
Completions == {"none", "completed", "failed", "cancelled"}
Providers == [ stage : Stages, alive : BOOLEAN, stopping : BOOLEAN,
               completion : Completions, queue : 0 .. MaxEvents, left : 0 .. MaxEvents ]

Typed ==
  /\ task \in TaskRecords /\ row \in RowStates /\ record \in Records
  /\ kind \in Kinds /\ seen \in Nat /\ driver \in Starts \cup {NoCall}
  /\ pc \in Labels /\ lifecycle \in Lifecycles
  /\ active \in BOOLEAN /\ pending \in BOOLEAN
  /\ settlement \in Cancels \cup {NoCall} /\ awaited \in Cancels \cup {NoCall}
  /\ cpc \in [Calls -> CallLabels] /\ held \in [Cancels -> Nat]
  /\ provider \in Providers

LEMMA TypedIsTypeOK == Typed <=> TypeOK
BY DEF Typed, TypeOK, TaskRecords, Answers, Records, Lifecycles, Labels, CallLabels, Stages,
       Completions, Providers

LEMMA MovedIsTyped ==
  ASSUME NEW t \in TaskRecords, NEW s \in TaskStates
  PROVE  /\ Moved(t, s) \in TaskRecords /\ Moved(t, s).state = s
         /\ Moved(t, s).version = t.version + 1
<1>1. t.version + 1 \in Nat
  BY DEF TaskRecords
<1> QED BY <1>1 DEF Moved, TaskRecords

LEMMA BegunIsTyped ==
  ASSUME record \in Records, NEW c
  PROVE  /\ Begun(c) \in Records
         /\ \A d \in Calls : d # c => Begun(c)[d] = record[d]
         /\ c \in Calls => Begun(c)[c].status = "pending"
<1>1. [status |-> "pending", answer |-> "none"] \in Answers
  BY DEF Answers
<1> QED BY <1>1 DEF Begun, Records

LEMMA AnsweredIsTyped ==
  ASSUME record \in Records, NEW call, NEW state \in TaskStates \cup {"none"}
  PROVE  /\ Answered(call, state) \in Records
         /\ \A d \in Calls : d # call => Answered(call, state)[d] = record[d]
         /\ call \in Calls =>
              Answered(call, state)[call] = [status |-> "completed", answer |-> state]
<1>1. [status |-> "completed", answer |-> state] \in Answers
  BY DEF Answers
<1> QED BY <1>1 DEF Answered, Records

LEMMA SettleIsTyped ==
  ASSUME NEW l \in Lifecycles, NEW s \in TaskStates \cup {"none"}
  PROVE  Settle(l, s) \in Lifecycles
BY DEF Settle, Lifecycles

LEMMA LifecyclesAreTyped ==
  ASSUME NEW l \in Lifecycles, NEW b \in BOOLEAN
  PROVE  [l EXCEPT !.drained = b] \in Lifecycles /\ [l EXCEPT !.open = b] \in Lifecycles
BY DEF Lifecycles

\* What is left of a provider's record when the adapter is told to stop it.
LEMMA StopIsTyped ==
  ASSUME NEW p \in Providers
  PROVE  /\ Stop(p) \in Providers
         /\ Stop(p).completion = p.completion /\ Stop(p).queue = p.queue
         /\ Stop(p).left = p.left
         /\ p.completion # "none" => Stop(p) = p
BY DEF Stop, Providers

-----------------------------------------------------------------------------
(* The inductive invariant                                                 *)

\* Whoever holds the present version of the task knows its state: a cancel that
\* has made its request that the task is being cancelled, ...
Requested == {"completion", "drain", "settle"}
HeldIsCurrent ==
  \A c \in Cancels :
    /\ held[c] <= task.version
    /\ cpc[c] = "lock" /\ held[c] = task.version => ~Terminal
    /\ cpc[c] \in Requested /\ held[c] = task.version => task.state = "CancelRequested"

\* ... and the first implementation that it is preparing or working.
SeenIsCurrent ==
  /\ seen <= task.version
  /\ kind = "implementation" /\ pc \notin {"idle", "catch", "done"} /\ seen = task.version =>
       task.state = IF pc = "worktree" THEN "Preparing" ELSE "Working"

\* No task of a run is in a phase the run cannot meet: every cancel of an open
\* one takes it to CancelRequested first.
Met == {"Preparing", "Working", "Revision", "Review1", "Review2", "Checkpoint",
        "CancelRequested", "Cancelled", "Failed"}
StateIsMet == task.state \in Met /\ (task.state = "Checkpoint" => kind = "implementation")

\* The provider's queue, and how much of it the run has consumed.
QueueIsBounded ==
  /\ provider.queue + provider.left <= MaxEvents
  /\ provider.completion # "none" => ~provider.stopping
QueueIsConsumed ==
  /\ pc \in {"completion", "settlement", "checkpoint"} =>
       provider.queue = 0 /\ provider.completion # "none"
  /\ pc = "checkpoint" => provider.completion = "completed" /\ row = "completed"

\* The command that drives the run, and the cancel that the run waits for.
DriverIsApart ==
  /\ pc = "settlement" => awaited \in Cancels
  /\ kind = "implementation" => (pc # "idle" => driver \in Starts)
  /\ kind = "implementation" /\ driver \in Starts => cpc[driver] = "idle"

Safe ==
  /\ HeldIsCurrent /\ SeenIsCurrent /\ StateIsMet
  /\ QueueIsBounded /\ QueueIsConsumed /\ DriverIsApart
  /\ CancelAnswersTruth /\ CollaboratorWritesInReview /\ CheckpointHasWholeRun
IInv == Typed /\ Safe

LEMMA InitIInv == Init => IInv
<1> SUFFICES ASSUME Init PROVE IInv
  OBVIOUS
<1>1. kind \in {"implementation", "revision", "collaboration"}
  BY DEF Init
<1>2. task \in TaskRecords /\ task.version = 1
      /\ task.state \in {"Preparing", "Revision", "Review1", "Review2"}
  BY <1>1 DEF Init, FirstStates, Working, TaskRecords, TaskStates, NonTerminalStates
<1>3. record \in Records /\ \A c \in Cancels : record[c].status = "none"
  BY DEF Init, NoAnswer, Records, Answers, Calls
<1>4. lifecycle \in Lifecycles
  BY DEF Init, Lifecycles
<1>5. provider \in Providers /\ provider.queue + provider.left <= MaxEvents
      /\ provider.completion = "none" /\ ~provider.stopping
  BY DEF Init, Providers, Stages, Completions
<1>6. Typed
  BY <1>2, <1>3, <1>4, <1>5 DEF Init, Typed, RowStates, Labels, CallLabels
<1>7. Safe
  BY <1>1, <1>2, <1>3, <1>5 DEF Init, Safe, HeldIsCurrent, SeenIsCurrent, StateIsMet, Met,
     QueueIsBounded, QueueIsConsumed, DriverIsApart, CancelAnswersTruth, CollaboratorWritesInReview,
     CheckpointHasWholeRun, Requested, Calls
<1> QED BY <1>6, <1>7 DEF IInv

-----------------------------------------------------------------------------
(* The run                                                                 *)

\* Until the run is over, the task is not at its checkpoint.
LEMMA NotYetCheckpoint ==
  ASSUME Safe, pc # "done" PROVE task.state # "Checkpoint"
BY DEF Safe, CheckpointHasWholeRun

\* A step of the run that moves no task.
LEMMA RunMoves ==
  ASSUME IInv, UNCHANGED <<task, kind, seen, driver, cpc, held>>,
         \A c \in Cancels : record'[c] = record[c],
         pc \notin {"idle", "done"}, pc \in {"worktree", "catch"} => pc' \in {"catch", "done"},
         pc' \notin {"idle", "worktree"},
         pc' = "settlement" => awaited' \in Cancels,
         kind = "collaboration" /\ pc' \in {"write", "checkpoint"} =>
           task.state \in Working(kind) /\ task.version = seen,
         QueueIsBounded', QueueIsConsumed'
  PROVE  Safe'
<1>1. task.state # "Checkpoint"
  BY NotYetCheckpoint DEF IInv
<1>2. HeldIsCurrent' /\ StateIsMet' /\ CancelAnswersTruth'
  BY DEF IInv, Safe, HeldIsCurrent, StateIsMet, CancelAnswersTruth, Terminal
<1>3. SeenIsCurrent'
  BY DEF IInv, Safe, SeenIsCurrent
<1>4. DriverIsApart'
  BY DEF IInv, Safe, DriverIsApart
<1>5. CollaboratorWritesInReview' /\ CheckpointHasWholeRun'
  BY <1>1 DEF CollaboratorWritesInReview, CheckpointHasWholeRun, Working
<1> QED BY <1>2, <1>3, <1>4, <1>5 DEF Safe

\* Leave ends the run's code; what else a step that leaves does is the row, the
\* provider's queue and, for a run that failed, the task.
LEMMA LeaveTyped ==
  ASSUME IInv, NEW a \in TaskStates \cup {"none"}, NEW s \in TaskStates \cup {"none"},
         Leave(a, s)
  PROVE  /\ record' \in Records /\ lifecycle' \in Lifecycles
         /\ active' \in BOOLEAN /\ pending' \in BOOLEAN /\ pc' = "done"
         /\ UNCHANGED <<settlement, kind, driver, seen, awaited>>
         /\ \A c \in Cancels : record'[c] = record[c]
         /\ driver \in Starts /\ a # "none" =>
              record'[driver] = [status |-> "completed", answer |-> a]
<1>1. Typed
  BY DEF IInv
<1>2. lifecycle' \in Lifecycles
  <2>1. [lifecycle EXCEPT !.drained = TRUE] \in Lifecycles
    BY <1>1, LifecyclesAreTyped DEF Typed
  <2>2. Settle([lifecycle EXCEPT !.drained = TRUE], s) \in Lifecycles
    BY <2>1, SettleIsTyped
  <2> QED BY <2>2, LifecyclesAreTyped DEF Leave
<1>3. /\ record' \in Records /\ \A c \in Cancels : record'[c] = record[c]
      /\ driver \in Starts /\ a # "none" =>
           record'[driver] = [status |-> "completed", answer |-> a]
  <2>1. CASE driver # NoCall /\ a # "none"
    <3>1. record' = Answered(driver, a) /\ driver \in Starts
      BY <1>1, <2>1 DEF Leave, Typed
    <3>2. \A c \in Cancels : c \in Calls /\ c # driver
      BY <3>1 DEF Calls
    <3> QED BY <1>1, <3>1, <3>2, AnsweredIsTyped DEF Typed, Calls
  <2>2. CASE ~(driver # NoCall /\ a # "none")
    <3>1. NoCall \notin Starts
      BY DEF Calls
    <3> QED BY <1>1, <2>2, <3>1 DEF Leave, Typed
  <2> QED BY <2>1, <2>2
<1> QED BY <1>2, <1>3 DEF Leave, local

LEMMA RunLeaves ==
  ASSUME IInv, NEW a \in TaskStates \cup {"none"}, NEW s \in TaskStates \cup {"none"},
         Leave(a, s), pc \notin {"idle", "done"}, UNCHANGED <<cpc, held>>,
         row' \in RowStates, provider' \in Providers, QueueIsBounded',
         \/ UNCHANGED task
         \/ ~Terminal /\ task' = Moved(task, "Failed")
  PROVE  IInv'
<1> DEFINE failed == "Failed"
<1>1. Typed
  BY DEF IInv
<1>2. /\ record' \in Records /\ lifecycle' \in Lifecycles
      /\ active' \in BOOLEAN /\ pending' \in BOOLEAN /\ pc' = "done"
      /\ UNCHANGED <<settlement, kind, driver, seen, awaited>>
      /\ \A c \in Cancels : record'[c] = record[c]
  BY LeaveTyped
<1>3. QueueIsConsumed'
  BY <1>2 DEF QueueIsConsumed
<1>4. CASE UNCHANGED task
  <2>1. Safe'
    BY <1>2, <1>3, <1>4, RunMoves
  <2>2. Typed'
    BY <1>1, <1>2, <1>4 DEF Typed, Labels
  <2> QED BY <2>1, <2>2 DEF IInv
<1>5. CASE ~Terminal /\ task' = Moved(task, "Failed")
  <2>1. failed \in TaskStates
    BY DEF TaskStates, TerminalStates
  <2>2. task' = Moved(task, failed)
    BY <1>5
  <2> HIDE DEF failed
  <2>3. task' \in TaskRecords /\ task'.state = failed /\ task'.version = task.version + 1
    BY <1>1, <2>1, <2>2, MovedIsTyped DEF Typed
  <2>4. failed = "Failed" /\ task.version \in Nat
    BY <1>1 DEF failed, Typed, TaskRecords
  <2>5. Typed'
    BY <1>1, <1>2, <2>3 DEF Typed, Labels
  <2>6. HeldIsCurrent'
    <3>1. \A c \in Cancels : held[c] \in Nat /\ held[c] <= task.version
      BY <1>1 DEF IInv, Safe, HeldIsCurrent, Typed
    <3> QED BY <2>3, <2>4, <3>1 DEF HeldIsCurrent
  <2>7. SeenIsCurrent'
    BY <1>1, <1>2, <2>3, <2>4 DEF SeenIsCurrent, IInv, Safe, Typed
  <2>8. StateIsMet' /\ DriverIsApart'
    BY <1>2, <2>3, <2>4 DEF StateIsMet, Met, DriverIsApart, IInv, Safe
  <2>9. CancelAnswersTruth'
    BY <1>2, <1>5 DEF CancelAnswersTruth, IInv, Safe
  <2>10. CollaboratorWritesInReview' /\ CheckpointHasWholeRun'
    BY <1>2, <2>3, <2>4 DEF CollaboratorWritesInReview, CheckpointHasWholeRun
  <2> QED BY <1>3, <2>5, <2>6, <2>7, <2>8, <2>9, <2>10 DEF IInv, Safe
<1> QED BY <1>4, <1>5

LEMMA RunReturns ==
  ASSUME IInv, NEW s \in TaskStates \cup {"none"}, Return(s), pc \notin {"idle", "done"},
         UNCHANGED <<task, cpc, held>>,
         row' \in RowStates, provider' \in Providers, QueueIsBounded'
  PROVE  IInv'
<1>1. task.state \in TaskStates \cup {"none"} /\ "none" \in TaskStates \cup {"none"}
  BY DEF IInv, Typed, TaskRecords
<1> QED BY <1>1, RunLeaves DEF Return

LEMMA PrepareKeeps == ASSUME IInv, Prepare PROVE IInv'
<1>1. Typed /\ pc = "worktree"
  BY DEF IInv, Prepare
<1>2. CASE /\ task.state = "Preparing" /\ Fresh(seen)
           /\ task' = Moved(task, "Working") /\ seen' = task.version + 1
           /\ pc' = "context"
           /\ UNCHANGED <<record, memory, kind, driver, awaited>>
  <2> DEFINE working == "Working"
  <2>1. working \in TaskStates /\ task' = Moved(task, working)
    BY <1>2 DEF TaskStates, NonTerminalStates
  <2> HIDE DEF working
  <2>2. task' \in TaskRecords /\ task'.state = working /\ task'.version = task.version + 1
    BY <1>1, <2>1, MovedIsTyped DEF Typed
  <2>3. working = "Working" /\ task.version \in Nat
    BY <1>1 DEF working, Typed, TaskRecords
  <2>4. UNCHANGED <<row, record, lifecycle, active, pending, settlement, kind, driver, awaited,
                    cpc, held, provider>>
    BY <1>2 DEF Prepare, memory
  <2>5. Typed'
    BY <1>1, <1>2, <2>2, <2>3, <2>4 DEF Typed, Labels
  <2>6. HeldIsCurrent'
    <3>1. \A c \in Cancels : held[c] \in Nat /\ held[c] <= task.version
      BY <1>1 DEF IInv, Safe, HeldIsCurrent, Typed
    <3> QED BY <2>2, <2>3, <2>4, <3>1 DEF HeldIsCurrent
  <2>7. SeenIsCurrent'
    BY <1>2, <2>2, <2>3 DEF SeenIsCurrent
  <2>8. StateIsMet' /\ DriverIsApart'
    BY <1>1, <1>2, <2>2, <2>3, <2>4 DEF StateIsMet, Met, DriverIsApart, IInv, Safe
  <2>9. CancelAnswersTruth'
    BY <1>2, <2>4 DEF CancelAnswersTruth, Terminal, TerminalStates, IInv, Safe
  <2>10. QueueIsBounded' /\ QueueIsConsumed'
    BY <1>2, <2>4 DEF QueueIsBounded, QueueIsConsumed, IInv, Safe
  <2>11. CollaboratorWritesInReview' /\ CheckpointHasWholeRun'
    BY <1>2, <2>2, <2>3 DEF CollaboratorWritesInReview, CheckpointHasWholeRun
  <2> QED BY <2>5, <2>6, <2>7, <2>8, <2>9, <2>10, <2>11 DEF IInv, Safe
<1>3. CASE Return(task.state) /\ UNCHANGED task
  <2>1. task.state \in TaskStates \cup {"none"} /\ row' \in RowStates /\ provider' \in Providers
    BY <1>1, <1>3 DEF Typed, TaskRecords, Prepare
  <2>2. QueueIsBounded'
    BY DEF IInv, Safe, QueueIsBounded, Prepare
  <2> QED BY <1>1, <1>3, <2>1, <2>2, RunReturns DEF Prepare
<1> QED BY <1>2, <1>3 DEF Prepare

LEMMA LaunchKeeps == ASSUME IInv, Launch PROVE IInv'
<1>1. Typed /\ pc = "context" /\ pc' = "starting"
  BY DEF IInv, Launch
<1>2. record' \in Records /\ \A c \in Cancels : record'[c] = record[c]
  <2>1. CASE record' = Begun(driver)
    <3>1. \A c \in Cancels : c \in Calls /\ c # driver
      BY <1>1 DEF Calls, Typed
    <3> QED BY <1>1, <2>1, <3>1, BegunIsTyped DEF Typed
  <2>2. CASE record' = record
    BY <1>1, <2>2 DEF Typed
  <2> QED BY <2>1, <2>2 DEF Launch
<1>3. lifecycle' \in Lifecycles
  BY <1>1, LifecyclesAreTyped DEF Launch, Typed
<1>4. /\ provider' \in Providers /\ provider'.queue = provider.queue
      /\ provider'.left = provider.left /\ provider'.completion = provider.completion
      /\ provider'.stopping = provider.stopping
  BY <1>1 DEF Launch, Typed, Providers, Stages
<1>5. Typed'
  BY <1>1, <1>2, <1>3, <1>4 DEF Launch, Typed, RowStates, Labels, local
<1>6. QueueIsBounded' /\ QueueIsConsumed'
  BY <1>1, <1>4 DEF QueueIsBounded, QueueIsConsumed, IInv, Safe
<1>7. Safe'
  BY <1>1, <1>2, <1>6, RunMoves DEF Launch, local
<1> QED BY <1>5, <1>7 DEF IInv

LEMMA TerminalWinsKeeps == ASSUME IInv, TerminalWins PROVE IInv'
<1>1. Typed /\ lifecycle.result \in TaskStates \cup {"none"}
  BY DEF IInv, Typed, Lifecycles
<1>2. QueueIsBounded' /\ row' \in RowStates /\ provider' \in Providers
  BY <1>1 DEF IInv, Safe, QueueIsBounded, TerminalWins, Typed
<1> QED BY <1>1, <1>2, RunReturns DEF TerminalWins

LEMMA HandleReadyKeeps == ASSUME IInv, HandleReady PROVE IInv'
<1>1. Typed /\ pc = "starting" /\ UNCHANGED <<task, cpc, held, provider>>
  BY DEF IInv, HandleReady
<1>2. QueueIsBounded' /\ row' \in RowStates /\ provider' \in Providers
  BY <1>1 DEF IInv, Safe, QueueIsBounded, HandleReady, Typed, RowStates
<1>3. CASE /\ pc' = "events" /\ active' \in BOOLEAN /\ pending' \in BOOLEAN
           /\ UNCHANGED <<record, lifecycle, settlement, local>>
  <2>1. Typed'
    BY <1>1, <1>2, <1>3 DEF Typed, Labels, local
  <2>2. QueueIsConsumed'
    BY <1>3 DEF QueueIsConsumed
  <2>3. Safe'
    BY <1>1, <1>2, <1>3, <2>2, RunMoves DEF local
  <2> QED BY <2>1, <2>3 DEF IInv
<1>4. CASE Return(task.state)
  <2>1. task.state \in TaskStates \cup {"none"}
    BY <1>1 DEF Typed, TaskRecords
  <2> QED BY <1>1, <1>2, <1>4, <2>1, RunReturns
<1> QED BY <1>1, <1>3, <1>4 DEF HandleReady, Typed

LEMMA NextEventKeeps == ASSUME IInv, NextEvent PROVE IInv'
<1>1. Typed /\ pc = "events" /\ UNCHANGED <<task, row, cpc, held>>
  BY DEF IInv, NextEvent
<1>2. provider.queue \in 1 .. MaxEvents
  BY <1>1 DEF NextEvent, Emitted, Typed, Providers
<1>3. provider.queue - 1 \in 0 .. MaxEvents /\ provider.left \in 0 .. MaxEvents
  BY <1>1, <1>2 DEF Typed, Providers
<1>4. /\ provider' \in Providers /\ provider'.queue = provider.queue - 1
      /\ provider'.left = provider.left /\ provider'.completion = provider.completion
      /\ provider'.stopping = provider.stopping
  BY <1>1, <1>3 DEF NextEvent, Typed, Providers
<1>5. QueueIsBounded'
  BY <1>2, <1>3, <1>4 DEF QueueIsBounded, IInv, Safe
<1>6. CASE pc' = "publish" /\ UNCHANGED <<record, memory, local>>
  <2>1. Typed'
    BY <1>1, <1>4, <1>6 DEF Typed, Labels, local, memory
  <2>2. QueueIsConsumed'
    BY <1>6 DEF QueueIsConsumed
  <2>3. Safe'
    BY <1>1, <1>5, <1>6, <2>2, RunMoves DEF local
  <2> QED BY <2>1, <2>3 DEF IInv
<1>7. CASE Return(task.state)
  <2>1. task.state \in TaskStates \cup {"none"} /\ row' \in RowStates
    BY <1>1 DEF Typed, TaskRecords
  <2> QED BY <1>1, <1>4, <1>5, <1>7, <2>1, RunReturns
<1> QED BY <1>6, <1>7 DEF NextEvent

LEMMA PublishedKeeps == ASSUME IInv, Published PROVE IInv'
<1>1. Typed /\ pc = "publish" /\ UNCHANGED <<task, row, cpc, held, provider>>
  BY DEF IInv, Published
<1>2. QueueIsBounded' /\ row' \in RowStates /\ provider' \in Providers
  BY <1>1 DEF IInv, Safe, QueueIsBounded, Typed
<1>3. CASE /\ pc' \in {"write", "events"} /\ UNCHANGED <<record, memory, local>>
           /\ pc' = "events" \/ kind = "revision" \/ Gate
  <2>1. Typed'
    BY <1>1, <1>2, <1>3 DEF Typed, Labels, local, memory
  <2>2. QueueIsConsumed'
    BY <1>3 DEF QueueIsConsumed
  <2>3. kind = "collaboration" /\ pc' \in {"write", "checkpoint"} =>
          task.state \in Working(kind) /\ task.version = seen
    BY <1>3 DEF Gate, Fresh
  <2>4. Safe'
    BY <1>1, <1>2, <1>3, <2>2, <2>3, RunMoves DEF local
  <2> QED BY <2>1, <2>4 DEF IInv
<1>4. CASE Return(task.state)
  <2>1. task.state \in TaskStates \cup {"none"}
    BY <1>1 DEF Typed, TaskRecords
  <2> QED BY <1>1, <1>2, <1>4, <2>1, RunReturns
<1> QED BY <1>3, <1>4 DEF Published

LEMMA WrittenKeeps == ASSUME IInv, Written PROVE IInv'
<1>1. Typed /\ pc = "write" /\ pc' = "events"
      /\ UNCHANGED <<durable, memory, local, cpc, held, provider>>
  BY DEF IInv, Written
<1>2. Typed'
  BY <1>1 DEF Typed, Labels, durable, local, memory
<1>3. QueueIsBounded' /\ QueueIsConsumed'
  BY <1>1 DEF IInv, Safe, QueueIsBounded, QueueIsConsumed
<1>4. Safe'
  BY <1>1, <1>3, RunMoves DEF durable, local
<1> QED BY <1>2, <1>4 DEF IInv

LEMMA DrainedKeeps == ASSUME IInv, Drained PROVE IInv'
<1>1. Typed /\ pc = "events" /\ pc' = "completion"
      /\ UNCHANGED <<durable, local, active, pending, settlement, cpc, held, provider>>
  BY DEF IInv, Drained
<1>2. lifecycle' \in Lifecycles
  BY <1>1, LifecyclesAreTyped DEF Drained, Typed
<1>3. Typed'
  BY <1>1, <1>2 DEF Typed, Labels, durable, local
<1>4. QueueIsBounded' /\ QueueIsConsumed'
  BY <1>1 DEF IInv, Safe, QueueIsBounded, QueueIsConsumed, Drained, AllConsumed
<1>5. Safe'
  BY <1>1, <1>4, RunMoves DEF durable, local
<1> QED BY <1>3, <1>5 DEF IInv

LEMMA CompletedKeeps == ASSUME IInv, Completed PROVE IInv'
<1>1. /\ Typed /\ pc = "completion" /\ pc' \in {"settlement", "checkpoint"}
      /\ UNCHANGED <<task, record, lifecycle, pending, settlement, kind, driver, seen,
                     cpc, held, provider>>
      /\ row' \in {row, "completed"} /\ active' \in BOOLEAN
  BY DEF IInv, Completed, local, Typed
<1>2. /\ awaited' \in Cancels \cup {NoCall}
      /\ pc' = "settlement" => awaited' \in Cancels
  BY <1>1 DEF Completed, CancelInProgress, Typed, local
<1>3. Typed'
  BY <1>1, <1>2 DEF Typed, Labels, RowStates
<1>4. QueueIsBounded' /\ QueueIsConsumed'
  BY <1>1 DEF IInv, Safe, QueueIsBounded, QueueIsConsumed, Completed
<1>5. kind = "collaboration" /\ pc' \in {"write", "checkpoint"} =>
        task.state \in Working(kind) /\ task.version = seen
  BY <1>1 DEF Completed, Fresh
<1>6. Safe'
  BY <1>1, <1>2, <1>4, <1>5, RunMoves
<1> QED BY <1>3, <1>6 DEF IInv

LEMMA CompletedOtherwiseKeeps == ASSUME IInv, CompletedOtherwise PROVE IInv'
<1>1. Typed /\ pc = "completion" /\ UNCHANGED <<cpc, held, provider>>
  BY DEF IInv, CompletedOtherwise
<1>2. QueueIsBounded' /\ row' \in RowStates /\ provider' \in Providers
  BY <1>1 DEF IInv, Safe, QueueIsBounded, CompletedOtherwise, Typed, RowStates
<1>3. CASE Return(task.state) /\ UNCHANGED task
  <2>1. task.state \in TaskStates \cup {"none"}
    BY <1>1 DEF Typed, TaskRecords
  <2> QED BY <1>1, <1>2, <1>3, <2>1, RunReturns
<1>4. CASE /\ kind # "collaboration" /\ task.state \in Working(kind)
           /\ task' = Moved(task, "Failed") /\ Leave("Failed", "Failed")
  <2>1. ~Terminal /\ "Failed" \in TaskStates \cup {"none"}
    BY <1>1, <1>4 DEF Terminal, TerminalStates, TaskStates, Working, Typed
  <2> QED BY <1>1, <1>2, <1>4, <2>1, RunLeaves
<1> QED BY <1>3, <1>4 DEF CompletedOtherwise

LEMMA SettledKeeps == ASSUME IInv, Settled PROVE IInv'
<1>1. Typed /\ pc = "settlement" /\ UNCHANGED <<task, row, cpc, held, provider>>
  BY DEF IInv, Settled
<1>2. QueueIsBounded' /\ row' \in RowStates /\ provider' \in Providers
  BY <1>1 DEF IInv, Safe, QueueIsBounded, Typed
<1>3. record[awaited] \in Answers
  BY <1>1 DEF IInv, Safe, DriverIsApart, Typed, Records, Calls
<1>4. record[awaited].answer \in TaskStates \cup {"none"}
  BY <1>3 DEF Answers
<1> QED BY <1>1, <1>2, <1>4, RunReturns DEF Settled

LEMMA CheckpointedKeeps == ASSUME IInv, Checkpointed PROVE IInv'
<1>1. Typed /\ pc = "checkpoint" /\ UNCHANGED <<row, cpc, held, provider>>
  BY DEF IInv, Checkpointed
<1>2. QueueIsBounded' /\ row' \in RowStates /\ provider' \in Providers
  BY <1>1 DEF IInv, Safe, QueueIsBounded, Typed
<1>3. CASE /\ kind = "implementation" /\ Fresh(seen) /\ task' = Moved(task, "Checkpoint")
           /\ Leave("Checkpoint", "Checkpoint")
  <2> DEFINE checkpoint == "Checkpoint"
  <2>1. checkpoint \in TaskStates /\ checkpoint \in TaskStates \cup {"none"}
        /\ task' = Moved(task, checkpoint) /\ Leave(checkpoint, checkpoint)
    BY <1>3 DEF TaskStates, NonTerminalStates
  <2>2. checkpoint = "Checkpoint" /\ checkpoint # "none"
    OBVIOUS
  <2> HIDE DEF checkpoint
  <2>3. task' \in TaskRecords /\ task'.state = checkpoint /\ task'.version = task.version + 1
    BY <1>1, <2>1, MovedIsTyped DEF Typed
  <2>4. task.version \in Nat /\ task.state = "Working"
    BY <1>1, <1>3 DEF IInv, Safe, SeenIsCurrent, Fresh, Typed, TaskRecords
  <2>5. /\ record' \in Records /\ lifecycle' \in Lifecycles
        /\ active' \in BOOLEAN /\ pending' \in BOOLEAN /\ pc' = "done"
        /\ UNCHANGED <<settlement, kind, driver, seen, awaited>>
        /\ \A c \in Cancels : record'[c] = record[c]
        /\ driver \in Starts => record'[driver] = [status |-> "completed", answer |-> checkpoint]
    BY <2>1, <2>2, LeaveTyped
  <2>6. driver \in Starts
    BY <1>1, <1>3 DEF IInv, Safe, DriverIsApart
  <2>7. Typed'
    BY <1>1, <2>3, <2>5 DEF Typed, Labels
  <2>8. HeldIsCurrent'
    <3>1. \A c \in Cancels : held[c] \in Nat /\ held[c] <= task.version
      BY <1>1 DEF IInv, Safe, HeldIsCurrent, Typed
    <3> QED BY <1>1, <2>3, <2>4, <3>1 DEF HeldIsCurrent
  <2>9. SeenIsCurrent'
    BY <1>1, <2>3, <2>4, <2>5 DEF SeenIsCurrent, IInv, Safe, Typed
  <2>10. StateIsMet' /\ DriverIsApart' /\ QueueIsConsumed'
    BY <1>1, <1>3, <2>2, <2>3, <2>5
       DEF StateIsMet, Met, DriverIsApart, QueueIsConsumed, IInv, Safe
  <2>11. CancelAnswersTruth'
    BY <2>4, <2>5 DEF CancelAnswersTruth, Terminal, TerminalStates, IInv, Safe
  <2>12. CollaboratorWritesInReview' /\ CheckpointHasWholeRun'
    BY <1>1, <2>2, <2>5, <2>6
       DEF CollaboratorWritesInReview, CheckpointHasWholeRun, QueueIsConsumed, IInv, Safe
  <2> QED BY <1>2, <2>7, <2>8, <2>9, <2>10, <2>11, <2>12 DEF IInv, Safe
<1>4. CASE Leave(task.state, task.state) /\ UNCHANGED task
  <2>1. task.state \in TaskStates \cup {"none"}
    BY <1>1 DEF Typed, TaskRecords
  <2> QED BY <1>1, <1>2, <1>4, <2>1, RunLeaves
<1>5. CASE /\ lifecycle' = [lifecycle EXCEPT !.drained = TRUE] /\ pc' = "catch"
           /\ UNCHANGED <<task, record, active, pending, settlement, local>>
  <2>1. lifecycle' \in Lifecycles
    BY <1>1, <1>5, LifecyclesAreTyped DEF Typed
  <2>2. Typed'
    BY <1>1, <1>5, <2>1 DEF Typed, Labels, local
  <2>3. QueueIsConsumed'
    BY <1>5 DEF QueueIsConsumed
  <2>4. Safe'
    BY <1>1, <1>2, <1>5, <2>3, RunMoves DEF local
  <2> QED BY <2>2, <2>4 DEF IInv
<1> QED BY <1>3, <1>4, <1>5 DEF Checkpointed

LEMMA ThrowsKeeps == ASSUME IInv, Throws PROVE IInv'
<1>1. /\ Typed /\ pc \notin {"idle", "done"} /\ pc' = "catch"
      /\ UNCHANGED <<durable, active, pending, settlement, local, cpc, held>>
  BY DEF IInv, Throws
<1>2. lifecycle' \in Lifecycles
  <2>1. lifecycle.drained \in BOOLEAN
    BY <1>1 DEF Typed, Lifecycles
  <2>2. (kind = "implementation" \/ lifecycle.drained) \in BOOLEAN
    BY <2>1
  <2>3. lifecycle' =
          [lifecycle EXCEPT !.drained = (kind = "implementation" \/ lifecycle.drained)]
    BY <1>1 DEF Throws, Typed, Lifecycles
  <2> QED BY <1>1, <2>2, <2>3, LifecyclesAreTyped DEF Typed
<1>3. /\ provider' \in Providers /\ provider'.completion = provider.completion
      /\ provider'.queue = provider.queue /\ provider'.left = provider.left
      /\ provider.completion # "none" => provider' = provider
  BY <1>1, StopIsTyped DEF Throws, Typed
<1>4. Typed'
  BY <1>1, <1>2, <1>3 DEF Typed, Labels, durable, local
<1>5. QueueIsBounded' /\ QueueIsConsumed'
  BY <1>1, <1>3 DEF QueueIsBounded, QueueIsConsumed, IInv, Safe
<1>6. Safe'
  BY <1>1, <1>5, RunMoves DEF durable, local
<1> QED BY <1>4, <1>6 DEF IInv

LEMMA CatchKeeps == ASSUME IInv, Catch PROVE IInv'
<1>1. Typed /\ pc = "catch" /\ UNCHANGED <<cpc, held, provider>>
  BY DEF IInv, Catch
<1>2. QueueIsBounded' /\ row' \in RowStates /\ provider' \in Providers
  BY <1>1 DEF IInv, Safe, QueueIsBounded, Catch, Typed, RowStates
<1>3. task.state \in TaskStates \cup {"none"} /\ "none" \in TaskStates \cup {"none"}
      /\ "Failed" \in TaskStates \cup {"none"}
  BY <1>1 DEF Typed, TaskRecords, TaskStates, TerminalStates
<1>4. CASE ~Terminal /\ task' = Moved(task, "Failed") /\ Leave("Failed", "Failed")
  BY <1>1, <1>2, <1>3, <1>4, RunLeaves
<1>5. CASE Leave("none", task.state) /\ UNCHANGED task
  BY <1>1, <1>2, <1>3, <1>5, RunLeaves
<1> QED BY <1>4, <1>5 DEF Catch

-----------------------------------------------------------------------------
(* The commands that start a run, and those that wait for it               *)

LEMMA StartKeeps == ASSUME IInv, NEW s \in Starts, Start(s) PROVE IInv'
<1>1. /\ Typed /\ kind = "implementation" /\ pc = "idle" /\ cpc[s] = "idle"
      /\ task.state = "Preparing" /\ driver' = s /\ seen' = task.version /\ pc' = "worktree"
      /\ UNCHANGED <<task, row, kind, awaited, active, pending, settlement, cpc, held, provider>>
  BY DEF IInv, Start
<1>2. record' \in Records /\ \A c \in Cancels : record'[c] = record[c]
  <2>1. \A c \in Cancels : c \in Calls /\ c # s
    BY DEF Calls
  <2> QED BY <1>1, <2>1, BegunIsTyped DEF Start, Typed
<1>3. lifecycle' \in Lifecycles
  BY <1>1, LifecyclesAreTyped DEF Start, Typed
<1>4. task.version \in Nat
  BY <1>1 DEF Typed, TaskRecords
<1>5. Typed'
  BY <1>1, <1>2, <1>3, <1>4 DEF Typed, Labels
<1>6. HeldIsCurrent' /\ StateIsMet' /\ CancelAnswersTruth'
  BY <1>1, <1>2 DEF HeldIsCurrent, StateIsMet, CancelAnswersTruth, Terminal, IInv, Safe
<1>7. SeenIsCurrent' /\ DriverIsApart'
  BY <1>1, <1>4 DEF SeenIsCurrent, DriverIsApart
<1>8. QueueIsBounded' /\ QueueIsConsumed' /\ CollaboratorWritesInReview'
      /\ CheckpointHasWholeRun'
  BY <1>1 DEF QueueIsBounded, QueueIsConsumed, CollaboratorWritesInReview,
     CheckpointHasWholeRun, IInv, Safe
<1> QED BY <1>5, <1>6, <1>7, <1>8 DEF IInv, Safe

\* A command that waits for the run another one drives touches only its own record.
LEMMA WaiterKeeps ==
  ASSUME IInv, NEW s \in Starts, NEW p \in CallLabels, cpc' = [cpc EXCEPT ![s] = p],
         kind = "implementation" => s # driver,
         record' \in Records, \A c \in Calls : c # s => record'[c] = record[c],
         UNCHANGED <<task, row, memory, local, pc, held, provider>>
  PROVE  IInv'
<1>1. Typed
  BY DEF IInv
<1>2. /\ cpc' \in [Calls -> CallLabels] /\ \A c \in Calls : c # s => cpc'[c] = cpc[c]
      /\ \A c \in Cancels : c \in Calls /\ c # s
  BY <1>1 DEF Typed, Calls
<1>3. Typed'
  BY <1>1, <1>2 DEF Typed, local, memory
<1>4. HeldIsCurrent' /\ StateIsMet' /\ CancelAnswersTruth' /\ SeenIsCurrent'
  BY <1>2 DEF HeldIsCurrent, StateIsMet, CancelAnswersTruth, SeenIsCurrent, Terminal, IInv,
     Safe, local
<1>5. QueueIsBounded' /\ QueueIsConsumed' /\ CollaboratorWritesInReview'
  BY DEF QueueIsBounded, QueueIsConsumed, CollaboratorWritesInReview, IInv, Safe, local
<1>6. DriverIsApart'
  BY <1>2 DEF DriverIsApart, IInv, Safe, Calls, local
<1>7. CheckpointHasWholeRun'
  BY DEF CheckpointHasWholeRun, StateIsMet, DriverIsApart, IInv, Safe, Calls, local
<1> QED BY <1>3, <1>4, <1>5, <1>6, <1>7 DEF IInv, Safe

LEMMA JoinKeeps == ASSUME IInv, NEW s \in Starts, Join(s) PROVE IInv'
<1>1. Typed /\ UNCHANGED <<task, row, memory, local, pc, held, provider>>
  BY DEF IInv, Join
<1> QED BY <1>1, BegunIsTyped, WaiterKeeps DEF Join, Typed, CallLabels

LEMMA JoinedKeeps == ASSUME IInv, NEW s \in Starts, Joined(s) PROVE IInv'
<1>1. /\ Typed /\ UNCHANGED <<task, row, memory, local, pc, held, provider>>
      /\ record \in Records /\ lifecycle.result \in TaskStates \cup {"none"}
  BY DEF IInv, Joined, Typed, Lifecycles
<1>2. Answered(s, lifecycle.result) \in Records
  BY <1>1, AnsweredIsTyped
<1>3. \A c \in Calls : c # s => Answered(s, lifecycle.result)[c] = record[c]
  BY <1>1 DEF Answered, Records
<1>4. kind = "implementation" => s # driver
  BY DEF Joined, IInv, Safe, DriverIsApart
<1> QED BY <1>1, <1>2, <1>3, <1>4, WaiterKeeps DEF Joined, CallLabels

LEMMA StartRoundKeeps == ASSUME IInv, StartRound PROVE IInv'
<1>1. /\ Typed /\ kind # "implementation" /\ pc = "idle" /\ pc' = "context"
      /\ seen' = task.version /\ driver' \in Starts \cup {NoCall}
      /\ UNCHANGED <<durable, memory, kind, awaited, cpc, held, provider>>
  BY DEF IInv, StartRound, Typed, local
<1>2. task.version \in Nat
  BY <1>1 DEF Typed, TaskRecords
<1>3. Typed'
  BY <1>1, <1>2 DEF Typed, Labels, durable, memory
<1>4. HeldIsCurrent' /\ StateIsMet' /\ CancelAnswersTruth'
  BY <1>1 DEF HeldIsCurrent, StateIsMet, CancelAnswersTruth, Terminal, IInv, Safe, durable
<1>5. SeenIsCurrent' /\ DriverIsApart'
  BY <1>1, <1>2 DEF SeenIsCurrent, DriverIsApart, durable
<1>6. QueueIsBounded' /\ QueueIsConsumed' /\ CollaboratorWritesInReview'
      /\ CheckpointHasWholeRun'
  BY <1>1 DEF QueueIsBounded, QueueIsConsumed, CollaboratorWritesInReview,
     CheckpointHasWholeRun, StateIsMet, IInv, Safe, durable
<1> QED BY <1>3, <1>4, <1>5, <1>6 DEF IInv, Safe

-----------------------------------------------------------------------------
(* The cancels                                                             *)

\* A step of a cancel that moves no task.
LEMMA CancelWaits ==
  ASSUME IInv, NEW c \in Cancels, NEW p \in CallLabels, cpc' = [cpc EXCEPT ![c] = p],
         UNCHANGED <<task, local, pc, provider>>,
         row' \in RowStates, row = "completed" => row' = "completed",
         record' \in Records, \A d \in Calls : d # c => record'[d] = record[d],
         record'[c].status = "completed" => Terminal /\ record'[c].answer = task.state,
         lifecycle' \in Lifecycles, active' \in BOOLEAN, pending' \in BOOLEAN,
         settlement' \in Cancels \cup {NoCall},
         held' \in [Cancels -> Nat],
         \A d \in Cancels : d # c => held'[d] = held[d],
         held'[c] <= task.version,
         p = "lock" /\ held'[c] = task.version => ~Terminal,
         p \in Requested /\ held'[c] = task.version => task.state = "CancelRequested"
  PROVE  IInv'
<1>1. Typed
  BY DEF IInv
<1>2. /\ cpc' \in [Calls -> CallLabels] /\ \A d \in Calls : d # c => cpc'[d] = cpc[d]
      /\ cpc'[c] = p /\ c \in Calls /\ \A s \in Starts : s # c
  BY <1>1 DEF Typed, Calls
<1>3. Typed'
  BY <1>1, <1>2 DEF Typed, local
<1>4. HeldIsCurrent'
  <2> SUFFICES ASSUME NEW d \in Cancels
               PROVE  /\ held'[d] <= task.version
                      /\ cpc'[d] = "lock" /\ held'[d] = task.version => ~Terminal
                      /\ cpc'[d] \in Requested /\ held'[d] = task.version =>
                           task.state = "CancelRequested"
    BY DEF HeldIsCurrent, Terminal
  <2>1. CASE d = c
    BY <1>2, <2>1
  <2>2. CASE d # c
    BY <1>2, <2>2 DEF IInv, Safe, HeldIsCurrent, Calls
  <2> QED BY <2>1, <2>2
<1>5. CancelAnswersTruth'
  BY DEF CancelAnswersTruth, Terminal, IInv, Safe, Calls
<1>6. SeenIsCurrent' /\ StateIsMet' /\ QueueIsBounded' /\ QueueIsConsumed'
      /\ CollaboratorWritesInReview'
  BY DEF SeenIsCurrent, StateIsMet, QueueIsBounded, QueueIsConsumed,
     CollaboratorWritesInReview, IInv, Safe, local
<1>7. DriverIsApart'
  BY <1>2 DEF DriverIsApart, IInv, Safe, Calls, local
<1>8. CheckpointHasWholeRun'
  BY <1>2 DEF CheckpointHasWholeRun, StateIsMet, DriverIsApart, IInv, Safe, Calls, local
<1> QED BY <1>3, <1>4, <1>5, <1>6, <1>7, <1>8 DEF IInv, Safe

\* A step of a cancel that moves the task: nobody else holds the new version.
LEMMA CancelMoves ==
  ASSUME IInv, ~Terminal, NEW c \in Cancels, NEW s \in {"CancelRequested", "Cancelled", "Failed"},
         NEW p \in CallLabels, p # "lock",
         task' = Moved(task, s), cpc' = [cpc EXCEPT ![c] = p],
         UNCHANGED <<local, pc>>,
         ~SideEffectHeld,
         row' \in RowStates, row = "completed" => row' = "completed",
         record' \in Records, \A d \in Calls : d # c => record'[d] = record[d],
         record'[c].status = "completed" =>
           s \in TerminalStates /\ record'[c].answer = s,
         lifecycle' \in Lifecycles, active' \in BOOLEAN, pending' \in BOOLEAN,
         settlement' \in Cancels \cup {NoCall},
         held' \in [Cancels -> Nat],
         \A d \in Cancels : d # c => held'[d] = held[d],
         held'[c] <= task.version + 1,
         p \in Requested => s = "CancelRequested",
         provider' \in Providers, QueueIsBounded',
         provider'.completion = provider.completion, provider'.queue = provider.queue
  PROVE  IInv'
<1>1. Typed
  BY DEF IInv
<1>2. s \in TaskStates
  BY DEF TaskStates, NonTerminalStates, TerminalStates
<1>3. task' \in TaskRecords /\ task'.state = s /\ task'.version = task.version + 1
      /\ task.version \in Nat
  BY <1>1, <1>2, MovedIsTyped DEF Typed, TaskRecords
<1>4. /\ cpc' \in [Calls -> CallLabels] /\ \A d \in Calls : d # c => cpc'[d] = cpc[d]
      /\ cpc'[c] = p /\ c \in Calls /\ \A t \in Starts : t # c
  BY <1>1 DEF Typed, Calls
<1>5. Typed'
  BY <1>1, <1>3, <1>4 DEF Typed, local
<1>6. HeldIsCurrent'
  <2> SUFFICES ASSUME NEW d \in Cancels
               PROVE  /\ held'[d] <= task'.version
                      /\ cpc'[d] = "lock" /\ held'[d] = task'.version => ~Terminal'
                      /\ cpc'[d] \in Requested /\ held'[d] = task'.version =>
                           task'.state = "CancelRequested"
    BY DEF HeldIsCurrent
  <2>1. CASE d = c
    BY <1>3, <1>4, <2>1
  <2>2. CASE d # c
    <3>1. held'[d] = held[d] /\ held[d] \in Nat /\ held[d] <= task.version
      BY <1>1, <2>2 DEF IInv, Safe, HeldIsCurrent, Typed
    <3> QED BY <1>3, <3>1
  <2> QED BY <2>1, <2>2
<1>7. SeenIsCurrent'
  <2>1. seen \in Nat /\ seen <= task.version /\ seen' = seen
    BY <1>1 DEF Typed, IInv, Safe, SeenIsCurrent, local
  <2> QED BY <1>3, <2>1 DEF SeenIsCurrent
<1>8. StateIsMet' /\ QueueIsConsumed'
  BY <1>3 DEF StateIsMet, Met, QueueIsConsumed, IInv, Safe
<1>9. CancelAnswersTruth'
  BY <1>3 DEF CancelAnswersTruth, Terminal, TerminalStates, IInv, Safe, Calls
<1>10. CollaboratorWritesInReview' /\ CheckpointHasWholeRun'
  BY <1>3 DEF CollaboratorWritesInReview, CheckpointHasWholeRun, SideEffectHeld, local
<1>11. DriverIsApart'
  BY <1>4 DEF DriverIsApart, IInv, Safe, Calls, local
<1> QED BY <1>5, <1>6, <1>7, <1>8, <1>9, <1>10, <1>11 DEF IInv, Safe

\* Request, of a cancel that holds a version at which the task was open.
LEMMA RequestKeeps ==
  ASSUME IInv, NEW c \in Cancels, NEW v \in Nat, Request(c, v),
         v = task.version => ~Terminal, ~SideEffectHeld, v <= task.version,
         UNCHANGED <<row, lifecycle, active, pending, local, pc>>,
         \/ record' = record
         \/ record' = Begun(c),
         ~Fresh(v) => held[c] = v
  PROVE  IInv'
<1>1. Typed /\ c \in Calls /\ \A d \in Calls : d # c => Begun(c)[d] = record[d]
  BY BegunIsTyped DEF IInv, Typed, Calls
<1>2. /\ record' \in Records /\ \A d \in Calls : d # c => record'[d] = record[d]
      /\ record'[c].status = "completed" => record[c].status = "completed" /\ record' = record
  BY <1>1, BegunIsTyped DEF Typed
<1>3. CASE ~Fresh(v)
  <2> DEFINE p == "rejected"
  <2>1. /\ cpc' = [cpc EXCEPT ![c] = p] /\ p \in CallLabels /\ p # "lock" /\ p \notin Requested
        /\ settlement' \in Cancels \cup {NoCall} /\ UNCHANGED <<task, held, provider>>
    BY <1>1, <1>3 DEF Request, CallLabels, Requested, Typed
  <2>2. record'[c].status = "completed" => Terminal /\ record'[c].answer = task.state
    BY <1>2 DEF CancelAnswersTruth, IInv, Safe
  <2> HIDE DEF p
  <2> QED BY <1>1, <1>2, <2>1, <2>2, CancelWaits DEF Typed, IInv, Safe, HeldIsCurrent
<1>4. CASE Fresh(v)
  <2>1. ~Terminal /\ v = task.version /\ task.version \in Nat
    BY <1>1, <1>4 DEF Fresh, Typed, TaskRecords
  <2>2. PICK p \in {"completion", "settle"} : cpc' = [cpc EXCEPT ![c] = p]
    BY <1>4 DEF Request
  <2>3. p \in CallLabels /\ p # "lock"
    BY <2>2 DEF CallLabels
  <2>4. CancelTarget(task) = "CancelRequested"
    BY <2>1 DEF IInv, Safe, StateIsMet, Met, CancelTarget, ActiveCancellationStates,
       NonTerminalStates, Terminal, TerminalStates
  <2>5. task' = Moved(task, "CancelRequested")
    BY <1>4, <2>4 DEF Request
  <2>6. /\ held' \in [Cancels -> Nat] /\ held'[c] = task.version + 1
        /\ \A d \in Cancels : d # c => held'[d] = held[d]
    BY <1>1, <1>4, <2>1 DEF Request, Typed
  <2>7. settlement' \in Cancels \cup {NoCall}
    BY <1>4 DEF Request
  <2>8. /\ provider' \in Providers /\ provider'.completion = provider.completion
        /\ provider'.queue = provider.queue /\ provider'.left = provider.left
        /\ provider.completion # "none" => provider' = provider
    BY <1>1, <1>4, StopIsTyped DEF Request, Typed
  <2>9. QueueIsBounded'
    BY <2>8 DEF QueueIsBounded, IInv, Safe
  <2>10. record'[c].status # "completed"
    BY <1>2, <2>1 DEF CancelAnswersTruth, IInv, Safe
  <2>11. row' \in RowStates /\ lifecycle' \in Lifecycles /\ active' \in BOOLEAN
         /\ pending' \in BOOLEAN /\ (row = "completed" => row' = "completed")
    BY <1>1 DEF Typed
  <2>12. held'[c] <= task.version + 1
    BY <2>1, <2>6
  <2> QED BY <1>2, <2>1, <2>2, <2>3, <2>5, <2>6, <2>7, <2>8, <2>9, <2>10, <2>11, <2>12,
             CancelMoves
<1> QED BY <1>3, <1>4

LEMMA BeginCancelKeeps == ASSUME IInv, NEW c \in Cancels, BeginCancel(c) PROVE IInv'
<1>1. /\ Typed /\ c \in Calls /\ UNCHANGED <<row, active, pending, local, pc>>
      /\ task.version \in Nat /\ task.state \in TaskStates
  BY DEF IInv, BeginCancel, Calls, Typed, TaskRecords
<1>2. CASE /\ Terminal /\ record' = Answered(c, task.state)
           /\ lifecycle' = SettleRun(task.state) /\ cpc' = [cpc EXCEPT ![c] = "done"]
           /\ UNCHANGED <<task, settlement, held, provider>>
  <2> DEFINE p == "done"
  <2>1. cpc' = [cpc EXCEPT ![c] = p] /\ p \in CallLabels /\ p # "lock" /\ p \notin Requested
    BY <1>2 DEF CallLabels, Requested
  <2>2. /\ record' \in Records /\ \A d \in Calls : d # c => record'[d] = record[d]
        /\ record'[c] = [status |-> "completed", answer |-> task.state]
    BY <1>1, <1>2, AnsweredIsTyped DEF Typed
  <2>3. lifecycle' \in Lifecycles
    BY <1>1, <1>2, SettleIsTyped DEF SettleRun, Typed
  <2>4. record'[c].status = "completed" => Terminal /\ record'[c].answer = task.state
    BY <1>2, <2>2
  <2>5. /\ row' \in RowStates /\ (row = "completed" => row' = "completed")
        /\ active' \in BOOLEAN /\ pending' \in BOOLEAN /\ settlement' \in Cancels \cup {NoCall}
        /\ held' \in [Cancels -> Nat] /\ held'[c] <= task.version
        /\ \A d \in Cancels : d # c => held'[d] = held[d]
    BY <1>1, <1>2 DEF Typed, IInv, Safe, HeldIsCurrent
  <2> HIDE DEF p
  <2> QED BY <1>1, <1>2, <2>1, <2>2, <2>3, <2>4, <2>5, CancelWaits
<1>3. CASE ~Terminal /\ record' = Begun(c) /\ UNCHANGED lifecycle
  <2>1. CASE SideEffectHeld
    <3> DEFINE p == "lock"
    <3>1. /\ cpc' = [cpc EXCEPT ![c] = p] /\ p \in CallLabels /\ p = "lock" /\ p \notin Requested
          /\ settlement' = c /\ UNCHANGED <<task, provider>>
          /\ held' = [held EXCEPT ![c] = task.version]
      BY <1>3, <2>1 DEF BeginCancel, CallLabels, Requested
    <3>2. /\ record' \in Records /\ \A d \in Calls : d # c => record'[d] = record[d]
          /\ record'[c].status = "pending"
      BY <1>1, <1>3, BegunIsTyped DEF Typed
    <3>3. /\ held' \in [Cancels -> Nat] /\ held'[c] = task.version
          /\ \A d \in Cancels : d # c => held'[d] = held[d]
      BY <1>1, <3>1 DEF Typed
    <3>4. /\ row' \in RowStates /\ (row = "completed" => row' = "completed")
          /\ active' \in BOOLEAN /\ pending' \in BOOLEAN /\ lifecycle' \in Lifecycles
          /\ settlement' \in Cancels \cup {NoCall} /\ held'[c] <= task.version
          /\ UNCHANGED <<task, local, pc, provider>>
          /\ record'[c].status # "completed"
      BY <1>1, <1>3, <3>1, <3>2, <3>3 DEF Typed
    <3> HIDE DEF p
    <3> QED BY <1>3, <3>1, <3>2, <3>3, <3>4, CancelWaits
  <2>2. CASE ~SideEffectHeld
    <3>1. Request(c, task.version)
      BY <1>3, <2>2 DEF BeginCancel
    <3>2. Fresh(task.version)
      BY DEF Fresh
    <3> QED BY <1>1, <1>3, <2>2, <3>1, <3>2, RequestKeeps
  <2> QED BY <2>1, <2>2
<1> QED BY <1>2, <1>3 DEF BeginCancel

LEMMA LockedCancelKeeps == ASSUME IInv, NEW c \in Cancels, LockedCancel(c) PROVE IInv'
<1>1. held[c] \in Nat /\ held[c] <= task.version /\ (held[c] = task.version => ~Terminal)
  BY DEF IInv, Safe, HeldIsCurrent, Typed, LockedCancel
<1> QED BY <1>1, RequestKeeps DEF LockedCancel

\* The end of a cancel that had made its request.
LEMMA EndCancelKeeps ==
  ASSUME IInv, NEW c \in Cancels, NEW s \in {"Cancelled", "Failed"}, EndCancel(c, s),
         cpc[c] \in Requested, UNCHANGED <<local, pc, held, provider>>,
         row' \in RowStates, row = "completed" => row' = "completed",
         active' \in BOOLEAN, pending' \in BOOLEAN
  PROVE  IInv'
<1> DEFINE done == "done"
           rejected == "rejected"
<1>1. Typed /\ c \in Calls /\ settlement' \in Cancels \cup {NoCall}
  BY DEF IInv, EndCancel, Typed, Calls
<1>2. /\ done \in CallLabels /\ done # "lock" /\ done \notin Requested
      /\ rejected \in CallLabels /\ rejected # "lock" /\ rejected \notin Requested
  BY DEF CallLabels, Requested
<1>3. s \in TerminalStates /\ s \in TaskStates \cup {"none"}
  BY DEF TaskStates, TerminalStates
<1>4. CASE /\ Fresh(held[c]) /\ task' = Moved(task, s) /\ record' = Answered(c, s)
           /\ lifecycle' = SettleRun(s) /\ cpc' = [cpc EXCEPT ![c] = done]
  <2>1. task.state = "CancelRequested" /\ task.version \in Nat /\ held[c] = task.version
    BY <1>1, <1>4 DEF Fresh, IInv, Safe, HeldIsCurrent, Typed, TaskRecords
  <2>2. ~Terminal /\ ~SideEffectHeld
    BY <2>1 DEF Terminal, TerminalStates, SideEffectHeld, CollaboratorWritesInReview, Working,
       IInv, Safe
  <2>3. /\ record' \in Records /\ \A d \in Calls : d # c => record'[d] = record[d]
        /\ record'[c] = [status |-> "completed", answer |-> s]
    BY <1>1, <1>3, <1>4, AnsweredIsTyped DEF Typed
  <2>4. lifecycle' \in Lifecycles
    BY <1>1, <1>3, <1>4, SettleIsTyped DEF SettleRun, Typed
  <2>5. /\ provider' \in Providers /\ QueueIsBounded' /\ held' \in [Cancels -> Nat]
        /\ held'[c] <= task.version + 1 /\ \A d \in Cancels : d # c => held'[d] = held[d]
        /\ provider'.completion = provider.completion /\ provider'.queue = provider.queue
    BY <1>1, <2>1 DEF QueueIsBounded, IInv, Safe, Typed
  <2>6. s \in {"CancelRequested", "Cancelled", "Failed"}
        /\ (record'[c].status = "completed" => s \in TerminalStates /\ record'[c].answer = s)
    BY <1>3, <2>3
  <2>7. /\ task' = Moved(task, s) /\ cpc' = [cpc EXCEPT ![c] = done]
        /\ UNCHANGED <<local, pc>> /\ settlement' \in Cancels \cup {NoCall}
    BY <1>1, <1>4
  <2> HIDE DEF done
  <2> QED BY <1>2, <2>2, <2>3, <2>4, <2>5, <2>6, <2>7, CancelMoves
<1>5. CASE cpc' = [cpc EXCEPT ![c] = rejected] /\ UNCHANGED <<task, record, lifecycle>>
  <2>1. record[c].status = "completed" => Terminal /\ record[c].answer = task.state
    BY DEF CancelAnswersTruth, IInv, Safe
  <2> HIDE DEF rejected
  <2> QED BY <1>1, <1>2, <1>5, <2>1, CancelWaits DEF Typed, IInv, Safe, HeldIsCurrent
<1> QED BY <1>4, <1>5 DEF EndCancel

LEMMA CancelStepKeeps == ASSUME IInv, NEW c \in Cancels, CancelStep(c) PROVE IInv'
<1>1. CASE LockedCancel(c)
  BY <1>1, LockedCancelKeeps
<1>2. CASE AwaitDrain(c)
  <2> DEFINE p == "drain"
  <2>1. /\ p \in CallLabels /\ p # "lock" /\ p \in Requested /\ cpc[c] \in Requested
        /\ cpc' = [cpc EXCEPT ![c] = p]
        /\ UNCHANGED <<durable, memory, local, pc, held, provider>>
    BY <1>2 DEF AwaitDrain, CallLabels, Requested
  <2>2. record[c].status = "completed" => Terminal /\ record[c].answer = task.state
    BY DEF CancelAnswersTruth, IInv, Safe
  <2> HIDE DEF p
  <2> QED BY <2>1, <2>2, CancelWaits DEF Typed, IInv, Safe, HeldIsCurrent, durable, memory
<1>3. CASE SettleCancel(c)
  BY <1>3, EndCancelKeeps DEF SettleCancel, Requested, RowStates, IInv, Typed
<1>4. CASE FailCancel(c)
  BY <1>4, EndCancelKeeps DEF FailCancel, GraceTimer, Requested, RowStates, IInv, Typed
<1> QED BY <1>1, <1>2, <1>3, <1>4 DEF CancelStep

-----------------------------------------------------------------------------
(* The adapter and the provider                                            *)

\* Whatever the provider does, a run that has completed keeps its completion and
\* gets no other event.
LEMMA ProviderKeeps ==
  ASSUME IInv, UNCHANGED <<durable, memory, local, pc, cpc, held>>,
         provider' \in Providers, QueueIsBounded',
         provider.completion # "none" =>
           provider'.completion = provider.completion /\ provider'.queue = provider.queue
  PROVE  IInv'
<1>1. Typed'
  BY DEF IInv, Typed, durable, memory, local
<1>2. HeldIsCurrent' /\ SeenIsCurrent' /\ StateIsMet' /\ DriverIsApart'
  BY DEF HeldIsCurrent, SeenIsCurrent, StateIsMet, DriverIsApart, Terminal, IInv, Safe,
     durable, local
<1>3. QueueIsConsumed' /\ CancelAnswersTruth' /\ CollaboratorWritesInReview'
      /\ CheckpointHasWholeRun'
  BY DEF QueueIsConsumed, CancelAnswersTruth, CollaboratorWritesInReview,
     CheckpointHasWholeRun, Terminal, IInv, Safe, durable, local
<1> QED BY <1>1, <1>2, <1>3 DEF IInv, Safe

LEMMA AdapterKeeps ==
  ASSUME IInv, AdapterStep \/ ProviderStarts \/ ProviderEmits \/ ProviderEnds PROVE IInv'
<1>1. /\ provider \in Providers /\ provider.queue + provider.left <= MaxEvents
      /\ provider.completion # "none" => ~provider.stopping
      /\ UNCHANGED <<durable, memory, local, pc, cpc, held>>
  BY DEF IInv, Typed, Safe, QueueIsBounded, AdapterStep, ProviderStops, StartRejects,
     ProviderStarts, ProviderEmits, ProviderEnds
<1>2. CASE AdapterStep
  <2>1. provider' \in Providers /\ QueueIsBounded'
    BY <1>1, <1>2
       DEF AdapterStep, ProviderStops, StartRejects, QueueIsBounded, Providers, Stages, Completions
  <2>2. provider.completion # "none" =>
          provider'.completion = provider.completion /\ provider'.queue = provider.queue
    BY <1>1, <1>2 DEF AdapterStep, ProviderStops, StartRejects, Providers
  <2> QED BY <1>1, <2>1, <2>2, ProviderKeeps
<1>3. CASE ProviderStarts
  <2>1. provider' \in Providers /\ QueueIsBounded'
    <3>1. CASE /\ provider.stage = "launching"
               /\ \/ provider' = [provider EXCEPT !.stage = "registered", !.alive = TRUE]
                  \/ provider' = [provider EXCEPT !.stage = "rejected"]
      BY <1>1, <3>1 DEF QueueIsBounded, Providers, Stages
    <3>2. CASE provider' = [provider EXCEPT !.stage = "ready"]
      BY <1>1, <3>2 DEF QueueIsBounded, Providers, Stages
    <3>3. ASSUME NEW a \in BOOLEAN,
                 provider' = [provider EXCEPT !.stage = "rejected", !.completion = "failed",
                                              !.alive = a, !.stopping = FALSE]
          PROVE  provider' \in Providers /\ QueueIsBounded'
      BY <1>1, <3>3 DEF QueueIsBounded, Providers, Stages, Completions
    <3> QED BY <1>3, <3>1, <3>2, <3>3 DEF ProviderStarts, ProviderSteps
  <2>2. provider.completion # "none" =>
          provider'.completion = provider.completion /\ provider'.queue = provider.queue
    BY <1>1, <1>3 DEF ProviderStarts, ProviderSteps, Providers
  <2> QED BY <1>1, <2>1, <2>2, ProviderKeeps
<1>4. CASE ProviderEmits
  <2>1. provider.completion = "none" /\ provider.queue + 1 \in 0 .. MaxEvents
        /\ provider.left - 1 \in 0 .. MaxEvents
    BY <1>1, <1>4 DEF ProviderEmits, Live, Providers
  <2>2. /\ provider' \in Providers
        /\ provider'.queue = provider.queue + 1 /\ provider'.left = provider.left - 1
        /\ provider'.completion = provider.completion
    BY <1>1, <1>4, <2>1 DEF ProviderEmits, Providers
  <2>3. provider.queue \in Nat /\ provider.left \in Nat
    BY <1>1 DEF Providers
  <2>4. QueueIsBounded'
    BY <1>1, <2>1, <2>2, <2>3 DEF QueueIsBounded
  <2> QED BY <1>1, <2>1, <2>2, <2>4, ProviderKeeps
<1>5. CASE ProviderEnds
  <2>1. provider.completion = "none" /\ provider' \in Providers /\ QueueIsBounded'
    BY <1>1, <1>5 DEF ProviderEnds, Live, QueueIsBounded, Providers, Completions
  <2> QED BY <1>1, <2>1, ProviderKeeps
<1> QED BY <1>2, <1>3, <1>4, <1>5

-----------------------------------------------------------------------------
(* The theorems                                                            *)

LEMMA RunStepKeeps == ASSUME IInv, RunStep PROVE IInv'
BY PrepareKeeps, LaunchKeeps, TerminalWinsKeeps, HandleReadyKeeps, NextEventKeeps,
   PublishedKeeps, WrittenKeeps, DrainedKeeps, CompletedKeeps, CompletedOtherwiseKeeps,
   SettledKeeps, CheckpointedKeeps, ThrowsKeeps, CatchKeeps DEF RunStep

LEMMA StepIInv == ASSUME IInv, [Next]_vars PROVE IInv'
<1>1. CASE UNCHANGED vars
  <2>1. provider' \in Providers /\ QueueIsBounded'
    BY <1>1 DEF vars, IInv, Typed, Safe, QueueIsBounded
  <2> QED BY <1>1, <2>1, ProviderKeeps DEF vars
<1>2. ASSUME NEW c \in Cancels, SettleCancel(c) PROVE IInv'
  BY <1>2, CancelStepKeeps DEF CancelStep
<1>3. ASSUME NEW s \in Starts, Start(s) \/ Join(s) \/ Joined(s) PROVE IInv'
  BY <1>3, StartKeeps, JoinKeeps, JoinedKeeps
<1>4. ASSUME NEW c \in Cancels, BeginCancel(c) \/ CancelStep(c) PROVE IInv'
  BY <1>4, BeginCancelKeeps, CancelStepKeeps
<1> QED BY <1>1, <1>2, <1>3, <1>4, StartRoundKeeps, RunStepKeeps, AdapterKeeps DEF Next

LEMMA InvariantHolds == Spec => []IInv
BY InitIInv, StepIInv, PTL DEF Spec

\* The rows, the maps and the program counters keep their types (TypeOK), for any
\* set of commands and any number of events.
THEOREM TypeCorrect == Spec => []TypeOK
<1>1. IInv => TypeOK
  BY TypedIsTypeOK DEF IInv
<1> QED BY <1>1, InvariantHolds, PTL

\* A cancel that was answered tells the truth for good: a version held by a cancel
\* or by the run is never the task's again once anyone has moved it.
THEOREM CancelAnswersTruthHolds == Spec => []CancelAnswersTruth
<1>1. IInv => CancelAnswersTruth
  BY DEF IInv, Safe
<1> QED BY <1>1, InvariantHolds, PTL

\* The collaborator writes and commits only in the review it was started for: no
\* cancel moves the task while the side effect is held.
THEOREM CollaboratorWritesInReviewHolds == Spec => []CollaboratorWritesInReview
<1>1. IInv => CollaboratorWritesInReview
  BY DEF IInv, Safe
<1> QED BY <1>1, InvariantHolds, PTL

\* A task at its checkpoint has the whole run behind it.
THEOREM CheckpointHasWholeRunHolds == Spec => []CheckpointHasWholeRun
<1>1. IInv => CheckpointHasWholeRun
  BY DEF IInv, Safe
<1> QED BY <1>1, InvariantHolds, PTL
=============================================================================
