-------------------------- MODULE FinalMerge_proofs --------------------------
(***************************************************************************)
(* Proofs about FinalMerge: mutual exclusion of the repository lock, type  *)
(* correctness, the safety of the merge, and what it implements.           *)
(*                                                                         *)
(* ControlInv is the invariant of the queue: a call that waits is in it, a *)
(* call inside the lock is its head.  TypeInv adds to TypeOK the two facts *)
(* about stored reads that the types of a task rest on: a version still    *)
(* current means the state a call read is still current (ReadsAreCurrent), *)
(* and an interrupted task has a recorded phase (PhaseIsRecorded).         *)
(*                                                                         *)
(* SafeInv strengthens the three invariants the runs check: a call past its *)
(* first validation carries a granted candidate of its task, its journal   *)
(* entry names the same commit (CallSafe); every entry was granted, and one *)
(* that is complete or applied has landed (EntrySafe); receipts and what    *)
(* git published were granted, and a candidate in the target ref has       *)
(* landed, whoever moved it there (HistorySafe).                           *)
(*                                                                         *)
(* Every write of a task is a transition of the state machine.  The callers *)
(* that write without comparing a version read the task in the same run of *)
(* the event loop; HeldInv is the invariant that says so: a call at such a *)
(* step holds the event loop and the task is in the state its transition   *)
(* starts from.  The other writes compare the version of the task they read *)
(* (ReadsAreCurrent) or read it in the step that writes it.  With that,    *)
(* FinalMerge implements PublishedTarget: Spec => Published!Spec.          *)
(***************************************************************************)
EXTENDS FinalMerge, TLAPS

USE ConstantsAssumption

-----------------------------------------------------------------------------
(* The queue of the lock *)

\* A call that waits is in the queue; a call in the lock is its head.
Queued(c) == pc[c] = "lock" => \E i \in 1 .. Len(lock) : lock[i] = c
Holding(c) == pc[c] \in Locked => lock # <<>> /\ Head(lock) = c
ControlInv ==
  /\ pc \in [Calls -> Locations] /\ busy \in Calls \cup {NoCall}
  /\ lock \in Seq(Calls)
  /\ \A c \in Calls : Queued(c) /\ Holding(c)

\* The step of a call that leaves the queue alone.
Walks(c) ==
  /\ lock' = lock /\ busy' \in {NoCall, c}
  /\ pc' \in [Calls -> Locations] /\ \A d \in Calls \ {c} : pc'[d] = pc[d]
  /\ pc'[c] # "lock" /\ (pc'[c] \in Locked => pc[c] \in Locked)
\* The step of a call that releases the lock.
Leaves(c) ==
  /\ pc[c] \in Locked /\ Release /\ busy' \in {NoCall, c}
  /\ pc' \in [Calls -> Locations] /\ \A d \in Calls \ {c} : pc'[d] = pc[d]
  /\ pc'[c] \in {"done", "announce"}

LEMMA WalkKeepsQueue ==
  ASSUME ControlInv, NEW c \in Calls, Walks(c)
  PROVE  ControlInv'
BY DEF ControlInv, Walks, Queued, Holding

LEMMA LeaveKeepsQueue ==
  ASSUME ControlInv, NEW c \in Calls, Leaves(c)
  PROVE  ControlInv'
<1>1. lock # <<>> /\ Head(lock) = c /\ lock' = Tail(lock) /\ lock \in Seq(Calls)
  BY DEF ControlInv, Leaves, Holding, Release
<1>2. lock' \in Seq(Calls) /\ Len(lock') = Len(lock) - 1 /\ lock[1] = c
      /\ \A i \in 2 .. Len(lock) : lock'[i - 1] = lock[i]
  BY <1>1
<1>3. pc' \in [Calls -> Locations] /\ busy' \in Calls \cup {NoCall}
  BY DEF ControlInv, Leaves, Locations
<1>4. ASSUME NEW d \in Calls PROVE Queued(d)'
  <2> SUFFICES ASSUME pc'[d] = "lock" PROVE \E i \in 1 .. Len(lock') : lock'[i] = d
    BY DEF Queued
  <2>1. d # c /\ pc[d] = "lock"
    BY DEF ControlInv, Leaves
  <2>2. PICK i \in 1 .. Len(lock) : lock[i] = d
    BY <2>1 DEF ControlInv, Queued
  <2>3. i # 1
    BY <2>1, <2>2, <1>2
  <2>4. i - 1 \in 1 .. Len(lock') /\ lock'[i - 1] = d
    BY <2>2, <2>3, <1>1, <1>2
  <2> QED BY <2>4
<1>5. ASSUME NEW d \in Calls PROVE Holding(d)'
  BY <1>1 DEF ControlInv, Leaves, Holding, Locked
<1> QED BY <1>2, <1>3, <1>4, <1>5 DEF ControlInv

LEMMA ListOwnersKeepsQueue ==
  ASSUME ControlInv, NEW c \in Calls, ListOwners(c)
  PROVE  ControlInv'
<1>1. CASE Done(c) /\ UNCHANGED lock
  <2>1. Walks(c)
    BY <1>1 DEF ControlInv, Walks, Done, Await, Locations, Locked
  <2> QED BY <2>1, WalkKeepsQueue
<1>2. CASE lock' = Append(lock, c) /\ Await(c, "lock")
  <2>1. lock \in Seq(Calls) /\ pc \in [Calls -> Locations]
    BY DEF ControlInv
  <2>2. lock' \in Seq(Calls) /\ Len(lock') = Len(lock) + 1 /\ lock'[Len(lock) + 1] = c
        /\ \A i \in 1 .. Len(lock) : lock'[i] = lock[i]
    BY <1>2, <2>1
  <2>3. pc' \in [Calls -> Locations] /\ busy' \in Calls \cup {NoCall}
    BY <1>2, <2>1 DEF Await, Locations
  <2>4. \A d \in Calls : Queued(d)'
    BY <1>2, <2>1, <2>2 DEF ControlInv, Queued, Await
  <2>5. \A d \in Calls : Holding(d)'
    BY <1>2, <2>1, <2>2 DEF ControlInv, Holding, Await, Locked
  <2> QED BY <2>2, <2>3, <2>4, <2>5 DEF ControlInv
<1> QED BY <1>1, <1>2 DEF ListOwners, memory

LEMMA EnterLockKeepsQueue ==
  ASSUME ControlInv, NEW c \in Calls, EnterLock(c)
  PROVE  ControlInv'
BY DEF ControlInv, EnterLock, LockGranted, At, Await, Queued, Holding, memory, Locations,
   Locked

LEMMA ControlStep == ControlInv /\ [Next]_vars => ControlInv'
<1> SUFFICES ASSUME ControlInv, [Next]_vars PROVE ControlInv'
  OBVIOUS
<1>0. pc \in [Calls -> Locations]
  BY DEF ControlInv
<1>1. ASSUME NEW c \in Calls, DecideRequest(c) PROVE Walks(c)
  BY <1>0, <1>1 DEF DecideRequest, Walks, At, Await, Keep, Done, memory, Locations, Locked
<1>2. ASSUME NEW c \in Calls, ApproveMerge(c) PROVE Walks(c)
  BY <1>0, <1>2 DEF ApproveMerge, Walks, At, Await, Keep, Done, memory, Locations, Locked
<1>3. ASSUME NEW c \in Calls, Validate(c) PROVE Walks(c)
  BY <1>0, <1>3 DEF Validate, Walks, At, Await, Keep, Done, memory, Locations, Locked
<1>4. ASSUME NEW c \in Calls, Invalidate(c) PROVE Walks(c)
  BY <1>0, <1>4 DEF Invalidate, Walks, At, Await, Keep, Done, memory, Locations, Locked
<1>5. ASSUME NEW c \in Calls, RecordIntent(c) PROVE Walks(c)
  BY <1>0, <1>5 DEF RecordIntent, Walks, At, Await, Keep, Done, memory, Locations, Locked
<1>6. ASSUME NEW c \in Calls, InvalidateExecuting(c) PROVE Walks(c)
  BY <1>0, <1>6
     DEF InvalidateExecuting, Walks, At, Await, Keep, Done, memory, Locations, Locked
<1>7. ASSUME NEW c \in Calls, SpawnGit(c) PROVE Walks(c)
  BY <1>0, <1>7 DEF SpawnGit, Walks, At, Await, Keep, Done, memory, Locations, Locked
<1>8. ASSUME NEW c \in Calls, Observe(c) PROVE Walks(c)
  BY <1>0, <1>8 DEF Observe, Walks, At, Await, Keep, Done, memory, Locations, Locked
<1>9. ASSUME NEW c \in Calls, AnnounceMerge(c) PROVE Walks(c)
  BY <1>0, <1>9 DEF AnnounceMerge, Walks, At, Await, Keep, Done, memory, Locations, Locked
<1>10. ASSUME NEW c \in Calls, CompleteMerge(c) PROVE Walks(c)
  BY <1>0, <1>10 DEF CompleteMerge, Walks, At, Await, Keep, Done, memory, Locations, Locked
<1>11. ASSUME NEW c \in Calls, RequestCancel(c) \/ SettleCancel(c) PROVE Walks(c)
  BY <1>0, <1>11 DEF RequestCancel, SettleCancel, Walks, At, Await, Keep, Done, memory, Locations, Locked
<1>12. ASSUME NEW c \in Calls, CandidateReady(c) PROVE Walks(c)
  BY <1>0, <1>12 DEF CandidateReady, Walks, At, Await, Keep, Done, memory, Locations, Locked
<1>13. ASSUME NEW c \in Calls, PresentCandidate(c) PROVE Walks(c)
  BY <1>0, <1>13
     DEF PresentCandidate, Walks, At, Await, Keep, Done, memory, Locations, Locked
<1>14. ASSUME NEW c \in Calls, InsertRequest(c) PROVE Walks(c)
  BY <1>0, <1>14 DEF InsertRequest, Walks, At, Await, Keep, Done, memory, Locations, Locked
<1>15. ASSUME NEW c \in Calls, CachePreview(c) PROVE Walks(c)
  BY <1>0, <1>15 DEF CachePreview, Walks, At, Await, Keep, Done, memory, Locations, Locked
<1>16. ASSUME NEW c \in Calls, Reconcile(c) PROVE Walks(c)
  BY <1>0, <1>16 DEF Reconcile, Walks, At, Await, Keep, Done, memory, Locations, Locked
<1>17. ASSUME NEW c \in Calls, ResumePhase(c) PROVE Walks(c)
  BY <1>0, <1>17 DEF ResumePhase, Walks, At, Await, Keep, Done, memory, Locations, Locked
<1>18. ASSUME NEW c \in Calls, CheckTarget(c) PROVE Walks(c) \/ Leaves(c)
  BY <1>0, <1>18 DEF CheckTarget, Walks, Leaves, Abort, At, Await, Keep, Done, memory,
     Locations, Locked
<1>19. ASSUME NEW c \in Calls, InvalidateLocked(c) PROVE Walks(c) \/ Leaves(c)
  BY <1>0, <1>19 DEF InvalidateLocked, Walks, Leaves, Abort, At, Await, Keep, Done,
     memory, Locations, Locked
<1>20. ASSUME NEW c \in Calls, AbortOperation(c) PROVE Walks(c) \/ Leaves(c)
  BY <1>0, <1>20 DEF AbortOperation, Walks, Leaves, Abort, At, Await, Keep, Done, memory,
     Locations, Locked
<1>21. ASSUME NEW c \in Calls, SettleOperation(c) PROVE Walks(c) \/ Leaves(c)
  BY <1>0, <1>21 DEF SettleOperation, Walks, Leaves, Abort, At, Await, Keep, Done,
     memory, Locations, Locked
<1>22. ASSUME NEW c \in Calls, ToolFails(c) PROVE Walks(c) \/ Leaves(c)
  BY <1>0, <1>22
     DEF ToolFails, Walks, Leaves, Abort, At, Await, Keep, Done, memory, Locations, Locked
<1>23. ASSUME NEW c \in Calls, Dispatch(c) PROVE Walks(c)
  <2>1. \A r \in requests : StartApprove(c, r) => Walks(c)
    BY <1>0 DEF StartApprove, Walks, Free, Await, memory, Locations, Locked
  <2>2. \A t \in Tasks : StartCancel(c, t) => Walks(c)
    BY <1>0 DEF StartCancel, Walks, Free, Await, memory, Locations, Locked
  <2>3. \A t \in Tasks : StartBuild(c, t) => Walks(c)
    BY <1>0 DEF StartBuild, Walks, Free, Await, memory, Locations, Locked
  <2>4. \A t \in Tasks : StartPreview(c, t) => Walks(c)
    BY <1>0 DEF StartPreview, Walks, Free, Await, memory, Locations, Locked
  <2>5. \A t, decision, selected : StartResolve(c, t, decision, selected) => Walks(c)
    BY <1>0 DEF StartResolve, Walks, Free, Await, memory, Locations, Locked
  <2> QED BY <1>23, <2>1, <2>2, <2>3, <2>4, <2>5 DEF Dispatch
<1>24. CASE Crash
  BY <1>0, <1>24 DEF ControlInv, Crash, Queued, Holding, Locations, Locked
<1>25. CASE UNCHANGED <<pc, busy, lock>>
  BY <1>25 DEF ControlInv, Queued, Holding
<1>26. ASSUME NEW c \in Calls, GitRuns(c) PROVE UNCHANGED <<pc, busy, lock>>
  BY <1>26 DEF GitRuns, memory
<1>27. ASSUME NEW t \in Tasks, RequestRevision(t) \/ MarkInterrupted(t)
       PROVE  UNCHANGED <<pc, busy, lock>>
  BY <1>27 DEF RequestRevision, MarkInterrupted, memory
<1>28. Restart \/ WorkerReady \/ UserGit => UNCHANGED <<pc, busy, lock>>
  BY DEF Restart, WorkerReady, UserGit, memory
<1>29. UNCHANGED vars => UNCHANGED <<pc, busy, lock>>
  BY DEF vars, memory
<1>30. ASSUME NEW c \in Calls, MergeStep(c) PROVE ControlInv'
  BY <1>30, <1>1, <1>2, <1>3, <1>4, <1>5, <1>6, <1>7, <1>8, <1>9, <1>10, <1>18, <1>19,
     <1>20, <1>21, WalkKeepsQueue, LeaveKeepsQueue, ListOwnersKeepsQueue,
     EnterLockKeepsQueue DEF MergeStep
<1>31. ASSUME NEW c \in Calls, OtherStep(c) PROVE ControlInv'
  BY <1>31, <1>11, <1>12, <1>13, <1>14, <1>15, <1>16, <1>17, WalkKeepsQueue DEF OtherStep
<1> QED
  BY <1>22, <1>23, <1>24, <1>25, <1>26, <1>27, <1>28, <1>29, <1>30, <1>31,
     WalkKeepsQueue, LeaveKeepsQueue DEF Next, CallStep

LEMMA InitControl == Init => ControlInv
BY DEF Init, ControlInv, Queued, Holding, Locations, Locked

LEMMA ControlCorrect == Spec => []ControlInv
BY InitControl, ControlStep, PTL DEF Spec

(* In one worker two merges are never both between the grant and the       *)
(* release of the repository lock (RepositoryLock.withLock), for any       *)
(* number of calls.                                                        *)
THEOREM MutualExclusion == Spec => []LockIsExclusive
<1>1. ControlInv => LockIsExclusive
  BY DEF ControlInv, Holding, LockIsExclusive
<1> QED BY <1>1, ControlCorrect, PTL

-----------------------------------------------------------------------------
(* Type correctness *)

\* What a call that awaits has read is what the task still is, or the version
\* tells that it is not.
Reading ==
  {"decide", "approveMerge", "cancel", "settleCancel", "build", "reconcile", "resume"}
StatesRead(l) ==
  CASE l \in {"decide", "approveMerge"} -> {"HumanApproval"}
    [] l = "cancel" -> TaskStates \ TerminalStates
    [] l = "settleCancel" -> {"CancelRequested"}
    [] l = "build" -> {"Revision"}
    [] OTHER -> {"Reconciling"}
CurrentRead(c) ==
  pc[c] \in Reading =>
    /\ call[c].version <= task[On(c)].version
    /\ pc[c] = "build" /\ Fresh(c) => task[On(c)].activeCandidateId < MaxCand
    /\ Fresh(c) => task[On(c)].state \in StatesRead(pc[c])
ReadsAreCurrent == \A c \in Calls : CurrentRead(c)
PhaseIsRecorded ==
  \A t \in Tasks : task[t].state \in {"Interrupted", "Reconciling"} =>
    task[t].interruptedFromState # NoPhase
TypeInv == TypeOK /\ ReadsAreCurrent /\ PhaseIsRecorded

LEMMA StatesAreStates ==
  /\ {"HumanApproval", "Merging", "Completed", "Cancelled", "CancelRequested", "Revision",
      "Candidate", "Interrupted", "Reconciling"} \subseteq TaskStates
  /\ Phases \ {NoPhase} \subseteq TaskStates \ {"Interrupted", "Reconciling"}
  /\ NonTerminalStates \ {"Interrupted", "Reconciling"} \subseteq Phases \ {NoPhase}
BY DEF TaskStates, NonTerminalStates, TerminalStates, Phases, NoPhase

LEMMA MovedIsATask ==
  ASSUME NEW r \in TaskRecord, NEW s \in TaskStates
  PROVE  /\ Moved(r, s) \in TaskRecord
         /\ Moved(r, s).state = s
         /\ Moved(r, s).version = r.version + 1
         /\ Moved(r, s).interruptedFromState = r.interruptedFromState
         /\ Moved(r, s).activeCandidateId = r.activeCandidateId
<1>1. \A n \in Nat : [r EXCEPT !.state = s, !.version = n] \in TaskRecord
  BY DEF TaskRecord
<1>2. r.version + 1 \in Nat
  BY DEF TaskRecord
<1>3. Moved(r, s) = [r EXCEPT !.state = s, !.version = r.version + 1]
  BY DEF Moved
<1>4. Moved(r, s) \in TaskRecord
  BY <1>1, <1>2, <1>3
<1>5. QED
  BY <1>4 DEF Moved, TaskRecord

\* A step writes nothing, or the next version of a task; and it does not bring
\* the task to an interruption without its phase.
NextVersion(r, n) ==
  /\ n \in TaskRecord /\ n.version > r.version
  /\ n.state \in {"Interrupted", "Reconciling"} => n.interruptedFromState # NoPhase
TaskUpdate ==
  /\ task' \in [Tasks -> TaskRecord]
  /\ \A t \in Tasks : task'[t] = task[t] \/ NextVersion(task[t], task'[t])

LEMMA NoUpdate == ASSUME TypeInv, task' = task PROVE TaskUpdate
BY DEF TypeInv, TypeOK, TaskUpdate

LEMMA WriteUpdates ==
  ASSUME TypeInv, NEW t \in Tasks, NEW n, n = task[t] \/ NextVersion(task[t], n),
         SetTask(t, n)
  PROVE  TaskUpdate
BY DEF TypeInv, TypeOK, TaskUpdate, SetTask, NextVersion

LEMMA MoveUpdates ==
  ASSUME TypeInv, NEW t \in Tasks, NEW s \in TaskStates \ {"Interrupted", "Reconciling"}
  PROVE  NextVersion(task[t], Moved(task[t], s))
<1>1. task[t] \in TaskRecord
  BY DEF TypeInv, TypeOK
<1>2. task[t].version \in Nat
  BY <1>1 DEF TaskRecord
<1> QED BY <1>1, <1>2, MovedIsATask DEF NextVersion

LEMMA InvalidatedUpdates ==
  ASSUME TypeInv, NEW t \in Tasks
  PROVE  Invalidated(t) = task[t] \/ NextVersion(task[t], Invalidated(t))
BY MoveUpdates, StatesAreStates DEF Invalidated

LEMMA AbortUpdates ==
  ASSUME TypeInv, NEW c \in Calls, Abort(c) PROVE TaskUpdate
<1>1. On(c) \in Tasks
  BY DEF TypeInv, TypeOK, CallRecord, On
<1> QED BY <1>1, MoveUpdates, WriteUpdates, StatesAreStates DEF Abort

LEMMA TaskStep == ASSUME TypeInv, Next PROVE TaskUpdate
<1>0. \A c \in Calls : On(c) \in Tasks
  BY DEF TypeInv, TypeOK, CallRecord, On
<1>1. ASSUME NEW c \in Calls, ApproveMerge(c) PROVE TaskUpdate
  BY <1>0, <1>1, MoveUpdates, WriteUpdates, NoUpdate, StatesAreStates DEF ApproveMerge
<1>2. ASSUME NEW c \in Calls, Invalidate(c) \/ InvalidateLocked(c) \/ InvalidateExecuting(c)
      PROVE  TaskUpdate
  BY <1>0, <1>2, InvalidatedUpdates, WriteUpdates
     DEF Invalidate, InvalidateLocked, InvalidateExecuting
<1>3. ASSUME NEW c \in Calls, ListOwners(c) PROVE TaskUpdate
  BY <1>0, <1>3, InvalidatedUpdates, WriteUpdates, NoUpdate DEF ListOwners
<1>4. ASSUME NEW c \in Calls, CheckTarget(c) \/ AbortOperation(c) \/ ToolFails(c)
      PROVE  TaskUpdate
  BY <1>4, AbortUpdates, NoUpdate DEF CheckTarget, AbortOperation, ToolFails
<1>5. ASSUME NEW c \in Calls, CompleteMerge(c) PROVE TaskUpdate
  BY <1>0, <1>5, MoveUpdates, WriteUpdates, StatesAreStates DEF CompleteMerge
<1>6. ASSUME NEW c \in Calls, RequestCancel(c) PROVE TaskUpdate
  BY <1>0, <1>6, MoveUpdates, WriteUpdates, NoUpdate, StatesAreStates
     DEF RequestCancel, CancelTarget
<1>7. ASSUME NEW c \in Calls, SettleCancel(c) \/ PresentCandidate(c) PROVE TaskUpdate
  BY <1>0, <1>7, MoveUpdates, WriteUpdates, NoUpdate, StatesAreStates
     DEF SettleCancel, PresentCandidate
<1>8. ASSUME NEW t \in Tasks, RequestRevision(t) PROVE TaskUpdate
  BY <1>8, MoveUpdates, WriteUpdates, StatesAreStates DEF RequestRevision
<1>9. ASSUME NEW c \in Calls, CandidateReady(c) PROVE TaskUpdate
  <2>1. CASE Fresh(c) /\ At(c, "build")
    <3> DEFINE r == Moved(task[On(c)], "Candidate")
               n == [r EXCEPT !.activeCandidateId = @ + 1]
    <3>1. r \in TaskRecord /\ NextVersion(task[On(c)], r) /\ r.state = "Candidate"
      BY <1>0, MoveUpdates, StatesAreStates, MovedIsATask DEF TypeInv, TypeOK
    <3>2. r.activeCandidateId < MaxCand
      <4>1. task[On(c)].activeCandidateId < MaxCand
        BY <2>1 DEF TypeInv, ReadsAreCurrent, CurrentRead, Reading, At
      <4>2. r.activeCandidateId = task[On(c)].activeCandidateId
        BY <1>0, MovedIsATask, StatesAreStates DEF TypeInv, TypeOK
      <4> QED BY <4>1, <4>2
    <3>3. r.activeCandidateId + 1 \in 1 .. MaxCand
      BY <3>1, <3>2 DEF TaskRecord
    <3>4. n \in TaskRecord /\ n.version = r.version /\ n.state = "Candidate"
      <4>1. \A k \in 1 .. MaxCand :
              LET m == [r EXCEPT !.activeCandidateId = k]
              IN  m \in TaskRecord /\ m.version = r.version /\ m.state = r.state
        BY <3>1 DEF TaskRecord
      <4>2. n = [r EXCEPT !.activeCandidateId = r.activeCandidateId + 1]
        OBVIOUS
      <4> HIDE DEF r, n
      <4> QED BY <3>1, <3>3, <4>1, <4>2
    <3>5. NextVersion(task[On(c)], n)
      BY <3>1, <3>4 DEF NextVersion
    <3> QED BY <1>0, <1>9, <2>1, <3>5, WriteUpdates, NoUpdate DEF CandidateReady
  <2> QED BY <1>9, <2>1, NoUpdate DEF CandidateReady
<1>10. ASSUME NEW t \in Tasks, MarkInterrupted(t) PROVE TaskUpdate
  <2> DEFINE r == Moved(task[t], "Interrupted")
             n == [r EXCEPT !.interruptedFromState = LostPhase(task[t])]
  <2>1. r \in TaskRecord /\ r.version = task[t].version + 1 /\ r.state = "Interrupted"
    BY MovedIsATask, StatesAreStates DEF TypeInv, TypeOK
  <2>2. task[t] \in TaskRecord /\ task[t].version \in Nat /\ task[t].state \in TaskStates
    BY DEF TypeInv, TypeOK, TaskRecord
  <2>3. LostPhase(task[t]) \in Phases \ {NoPhase}
    BY <1>10, <2>2, StatesAreStates
       DEF MarkInterrupted, Interruptible, LostPhase, TaskStates
  <2>4. n \in TaskRecord /\ n.version = r.version /\ n.interruptedFromState # NoPhase
    BY <2>1, <2>3 DEF TaskRecord
  <2>5. NextVersion(task[t], n)
    BY <2>1, <2>2, <2>4 DEF NextVersion
  <2> QED BY <1>10, <2>5, WriteUpdates DEF MarkInterrupted
<1>11. ASSUME NEW c \in Calls, NEW t \in Tasks, StartPreview(c, t) PROVE TaskUpdate
  <2> DEFINE r == Moved(task[t], "Reconciling")
  <2>1. task[t] \in TaskRecord /\ task[t].version \in Nat
    BY DEF TypeInv, TypeOK, TaskRecord
  <2>2. task[t].state = "Interrupted" => task[t].interruptedFromState # NoPhase
    BY DEF TypeInv, PhaseIsRecorded
  <2>3. /\ r \in TaskRecord /\ r.version = task[t].version + 1
        /\ r.interruptedFromState = task[t].interruptedFromState
    BY <2>1, MovedIsATask, StatesAreStates
  <2>4. task[t].state = "Interrupted" => NextVersion(task[t], r)
    BY <2>1, <2>2, <2>3 DEF NextVersion
  <2> QED BY <1>11, <2>4, WriteUpdates, NoUpdate DEF StartPreview
<1>12. ASSUME NEW c \in Calls, ResumePhase(c) PROVE TaskUpdate
  <2>1. CASE Fresh(c) /\ At(c, "resume")
    <3> DEFINE r == Moved(task[On(c)], ResumeTarget(c))
               n == [r EXCEPT !.interruptedFromState = NoPhase]
    <3>1. task[On(c)] \in TaskRecord /\ task[On(c)].version \in Nat
      BY <1>0 DEF TypeInv, TypeOK, TaskRecord
    <3>2. task[On(c)].interruptedFromState \in Phases \ {NoPhase}
      BY <1>0, <2>1, <3>1
         DEF TypeInv, ReadsAreCurrent, CurrentRead, StatesRead, PhaseIsRecorded,
         Reading, At, TaskRecord
    <3>3. ResumeTarget(c) \in TaskStates \ {"Interrupted", "Reconciling"}
      BY <3>2, StatesAreStates DEF ResumeTarget
    <3>4. r \in TaskRecord /\ NextVersion(task[On(c)], r) /\ r.state = ResumeTarget(c)
      BY <1>0, <3>1, <3>3, MoveUpdates, MovedIsATask
    <3>5. n \in TaskRecord /\ n.version = r.version /\ n.state = r.state
      BY <3>4 DEF TaskRecord, Phases
    <3>6. NextVersion(task[On(c)], n)
      BY <3>3, <3>4, <3>5 DEF NextVersion
    <3> QED BY <1>0, <1>12, <2>1, <3>6, WriteUpdates, NoUpdate DEF ResumePhase
  <2> QED BY <1>12, <2>1, NoUpdate DEF ResumePhase
<1>13. ASSUME NEW c \in Calls,
              \/ DecideRequest(c) \/ Validate(c) \/ EnterLock(c) \/ RecordIntent(c)
              \/ SpawnGit(c) \/ GitRuns(c) \/ Observe(c) \/ SettleOperation(c)
              \/ AnnounceMerge(c) \/ InsertRequest(c) \/ CachePreview(c) \/ Reconcile(c)
       PROVE  TaskUpdate
  BY <1>13, NoUpdate
     DEF DecideRequest, Validate, EnterLock, RecordIntent, SpawnGit, GitRuns,
     Observe, SettleOperation, AnnounceMerge, InsertRequest, CachePreview, Reconcile
<1>14. ASSUME NEW c \in Calls,
              \/ \E r \in requests : StartApprove(c, r)
              \/ \E t \in Tasks : StartBuild(c, t) \/ StartCancel(c, t)
              \/ \E t \in Tasks, decision \in Decisions, selected \in SUBSET Calls :
                   StartResolve(c, t, decision, selected)
       PROVE  TaskUpdate
  BY <1>14, NoUpdate DEF StartApprove, StartBuild, StartCancel, StartResolve
<1>15. Crash \/ Restart \/ WorkerReady \/ UserGit => TaskUpdate
  BY NoUpdate DEF Crash, Restart, WorkerReady, UserGit
<1>16. ASSUME NEW c \in Calls, Dispatch(c) PROVE TaskUpdate
  BY <1>11, <1>14, <1>16 DEF Dispatch
<1>17. ASSUME NEW c \in Calls, CallStep(c) \/ ToolFails(c) \/ GitRuns(c) PROVE TaskUpdate
  BY <1>1, <1>2, <1>3, <1>4, <1>5, <1>6, <1>7, <1>9, <1>12, <1>13, <1>17
     DEF CallStep, MergeStep, OtherStep
<1> QED BY <1>8, <1>10, <1>15, <1>16, <1>17 DEF Next

LEMMA StoreKeepsType ==
  ASSUME TypeInv, NEW c \in Calls, NEW locals \in CallRecord, Store(c, locals)
  PROVE  call' \in [Calls -> CallRecord]
BY DEF TypeInv, TypeOK, Store

LEMMA CallRecordUpdates ==
  ASSUME NEW r \in CallRecord, NEW t \in Tasks, NEW v \in Nat
  PROVE  /\ [r EXCEPT !.task = t, !.version = v] \in CallRecord
         /\ \A o \in Candidates :
              [r EXCEPT !.task = t, !.receipt = o, !.version = v] \in CallRecord
         /\ \A d \in Choices, w \in View, s \in SUBSET Calls :
              [r EXCEPT !.task = t, !.version = v, !.decision = d, !.seen = w, !.selected = s]
                \in CallRecord
BY DEF CallRecord

LEMMA CallsStep == ASSUME TypeInv, Next PROVE call' \in [Calls -> CallRecord]
<1>0. call \in [Calls -> CallRecord] /\ \A c \in Calls : On(c) \in Tasks
  BY DEF TypeInv, TypeOK, CallRecord, On
<1>1. \A t \in Tasks : /\ task[t].version \in Nat
                      /\ Active(t) \in Candidates /\ Active(t) \in Oids
  BY DEF TypeInv, TypeOK, TaskRecord, Active, Oids, Candidates
<1>1a. Decisions \subseteq Choices
  BY DEF Choices
<1>2. ASSUME NEW c \in Calls, NEW r \in requests, StartApprove(c, r)
      PROVE  call' \in [Calls -> CallRecord]
  <2>1. r.task \in Tasks /\ r.oid \in Candidates
    BY DEF TypeInv, TypeOK, Request
  <2>2. [call[c] EXCEPT !.task = r.task, !.receipt = r.oid, !.version = task[r.task].version]
          \in CallRecord
    BY <1>0, <1>1, <2>1, CallRecordUpdates
  <2> QED BY <1>2, <2>2, StoreKeepsType DEF StartApprove
<1>3. ASSUME NEW c \in Calls, Validate(c) \/ PresentCandidate(c)
      PROVE  call' \in [Calls -> CallRecord]
  <2>1. /\ [call[c] EXCEPT !.oid = Active(On(c))] \in CallRecord
        /\ [call[c] EXCEPT !.receipt = Active(On(c))] \in CallRecord
    BY <1>0, <1>1 DEF CallRecord
  <2> QED BY <1>3, <2>1, StoreKeepsType DEF Validate, PresentCandidate
<1>4. ASSUME NEW c \in Calls, ListOwners(c) PROVE call' \in [Calls -> CallRecord]
  <2>1. [call[c] EXCEPT !.mode = IF checkout = "none" THEN "cas" ELSE "ff"] \in CallRecord
    BY <1>0 DEF CallRecord, Modes
  <2> QED BY <1>0, <1>4, <2>1, StoreKeepsType DEF ListOwners
<1>5. ASSUME NEW c \in Calls, NEW t \in Tasks,
             StartCancel(c, t) \/ StartBuild(c, t) \/ StartPreview(c, t)
      PROVE  call' \in [Calls -> CallRecord]
  <2>1. [call[c] EXCEPT !.task = t] \in CallRecord
    BY <1>0 DEF CallRecord
  <2>2. [call[c] EXCEPT !.task = t, !.version = task[t].version] \in CallRecord
    BY <1>0, <1>1, CallRecordUpdates
  <2> QED BY <1>5, <2>1, <2>2, StoreKeepsType DEF StartCancel, StartBuild, StartPreview
<1>6. ASSUME NEW c \in Calls, NEW t \in Tasks, NEW decision \in Decisions,
             NEW selected \in SUBSET Calls, StartResolve(c, t, decision, selected)
      PROVE  call' \in [Calls -> CallRecord]
  <2>1. preview[t] \in View
    BY DEF TypeInv, TypeOK
  <2>2. [call[c] EXCEPT !.task = t, !.version = task[t].version, !.decision = decision,
                        !.seen = preview[t], !.selected = selected] \in CallRecord
    BY <1>0, <1>1, <1>1a, <2>1, CallRecordUpdates
  <2> QED BY <1>6, <2>2, StoreKeepsType DEF StartResolve
<1>7. ASSUME NEW c \in Calls, ResumePhase(c) \/ RequestCancel(c)
      PROVE  call' \in [Calls -> CallRecord]
  <2>1. [call[c] EXCEPT !.receipt = Active(On(c))] \in CallRecord
    BY <1>0, <1>1 DEF CallRecord
  <2>2. [call[c] EXCEPT !.version = @ + 1] \in CallRecord
    <3>1. call[c] \in CallRecord /\ call[c].version + 1 \in Nat
      BY <1>0 DEF CallRecord
    <3>2. \A n \in Nat : [call[c] EXCEPT !.version = n] \in CallRecord
      BY <3>1 DEF CallRecord
    <3> QED BY <3>1, <3>2
  <2> QED BY <1>0, <1>7, <2>1, <2>2, StoreKeepsType DEF ResumePhase, RequestCancel
<1>8. ASSUME NEW c \in Calls, MergeStep(c) PROVE call' \in [Calls -> CallRecord]
  <2>1. CASE Validate(c) \/ ListOwners(c)
    BY <1>3, <1>4, <2>1
  <2>2. CASE ~(Validate(c) \/ ListOwners(c))
    BY <1>0, <1>8, <2>2 DEF MergeStep, DecideRequest, ApproveMerge, Invalidate, EnterLock,
       InvalidateLocked, CheckTarget, RecordIntent, InvalidateExecuting, SpawnGit, Observe,
       SettleOperation, AbortOperation, AnnounceMerge, CompleteMerge
  <2> QED BY <2>1, <2>2
<1>9. ASSUME NEW c \in Calls, OtherStep(c) PROVE call' \in [Calls -> CallRecord]
  <2>1. CASE PresentCandidate(c) \/ ResumePhase(c) \/ RequestCancel(c)
    BY <1>3, <1>7, <2>1
  <2>2. CASE ~(PresentCandidate(c) \/ ResumePhase(c) \/ RequestCancel(c))
    BY <1>0, <1>9, <2>2 DEF OtherStep, RequestCancel, SettleCancel, CandidateReady, InsertRequest,
       CachePreview, Reconcile
  <2> QED BY <2>1, <2>2
<1>10. ASSUME NEW c \in Calls, Dispatch(c) PROVE call' \in [Calls -> CallRecord]
  BY <1>2, <1>5, <1>6, <1>10 DEF Dispatch
<1>11. ASSUME NEW c \in Calls, GitRuns(c) \/ ToolFails(c) PROVE call' = call
  BY <1>11 DEF GitRuns, ToolFails
<1>12. ASSUME NEW t \in Tasks, RequestRevision(t) \/ MarkInterrupted(t) PROVE call' = call
  BY <1>12 DEF RequestRevision, MarkInterrupted
<1>13. Crash \/ Restart \/ WorkerReady \/ UserGit => call' = call
  BY DEF Crash, Restart, WorkerReady, UserGit
<1> QED BY <1>0, <1>8, <1>9, <1>10, <1>11, <1>12, <1>13 DEF Next, CallStep

\* No call begins to read in the step.
Quiet ==
  \A d \in Calls : pc'[d] \in Reading => pc'[d] = pc[d] /\ call'[d] = call[d]

LEMMA ReadSurvives ==
  ASSUME TypeInv, TaskUpdate, NEW d \in Calls, pc'[d] \in Reading,
         pc'[d] = pc[d], call'[d] = call[d]
  PROVE  CurrentRead(d)'
<1>1. On(d)' = On(d)
  BY DEF On
<1>2. On(d) \in Tasks /\ call[d].version \in Nat /\ task[On(d)].version \in Nat
  BY DEF TypeInv, TypeOK, CallRecord, TaskRecord, On
<1>3. CASE task'[On(d)] = task[On(d)]
  BY <1>1, <1>3 DEF TypeInv, ReadsAreCurrent, CurrentRead, Fresh
<1>4. CASE NextVersion(task[On(d)], task'[On(d)])
  <2>1. task'[On(d)].version \in Nat /\ task'[On(d)].version > task[On(d)].version
    BY <1>4 DEF NextVersion, TaskRecord
  <2>2. call[d].version < task'[On(d)].version
    BY <1>1, <1>2, <2>1 DEF TypeInv, ReadsAreCurrent, CurrentRead
  <2> QED BY <1>1, <1>2, <2>1, <2>2 DEF CurrentRead, Fresh
<1> QED BY <1>2, <1>3, <1>4 DEF TaskUpdate

LEMMA QuietKeepsReads ==
  ASSUME TypeInv, TaskUpdate, Quiet PROVE ReadsAreCurrent'
BY ReadSurvives DEF Quiet, ReadsAreCurrent, CurrentRead

LEMMA ReadsStep == ASSUME TypeInv, Next PROVE ReadsAreCurrent'
<1>0. /\ pc \in [Calls -> Locations] /\ call \in [Calls -> CallRecord]
      /\ \A t \in Tasks : task[t].version \in Nat
  BY DEF TypeInv, TypeOK, TaskRecord
<1>1. TaskUpdate
  BY TaskStep
<1>2. ASSUME NEW c \in Calls, MergeStep(c), ~DecideRequest(c) PROVE Quiet
  <2> USE <1>0 DEF Quiet, Await, Keep, Done, Reading, Store
  <2>1. ApproveMerge(c) \/ Validate(c) \/ Invalidate(c) => Quiet
    BY DEF ApproveMerge, Validate, Invalidate
  <2>2. ListOwners(c) \/ EnterLock(c) \/ InvalidateLocked(c) \/ CheckTarget(c) => Quiet
    BY DEF ListOwners, EnterLock, InvalidateLocked, CheckTarget, Abort
  <2>3. RecordIntent(c) \/ InvalidateExecuting(c) \/ SpawnGit(c) \/ Observe(c) => Quiet
    BY DEF RecordIntent, InvalidateExecuting, SpawnGit, Observe
  <2>4. SettleOperation(c) \/ AbortOperation(c) \/ AnnounceMerge(c) \/ CompleteMerge(c)
          => Quiet
    BY DEF SettleOperation, AbortOperation, AnnounceMerge, CompleteMerge, Abort
  <2> QED BY <1>2, <2>1, <2>2, <2>3, <2>4 DEF MergeStep
<1>3. ASSUME NEW c \in Calls,
             \/ SettleCancel(c) \/ CandidateReady(c) \/ PresentCandidate(c)
             \/ InsertRequest(c) \/ CachePreview(c) \/ ResumePhase(c) \/ ToolFails(c)
      PROVE  Quiet
  BY <1>0, <1>3 DEF Quiet, Await, Keep, Done, Store, Reading, SettleCancel, CandidateReady,
     PresentCandidate, InsertRequest, CachePreview, ResumePhase, ToolFails, Abort
<1>4. ASSUME NEW c \in Calls, NEW t \in Tasks, StartPreview(c, t) PROVE Quiet
  BY <1>0, <1>4 DEF Quiet, Await, Keep, Done, Store, Reading, StartPreview
<1>5. Quiet => ReadsAreCurrent'
  BY <1>1, QuietKeepsReads
<1>6. ASSUME NEW c \in Calls, NEW t \in Tasks, StartBuild(c, t) PROVE ReadsAreCurrent'
  <2>1. task' = task /\ call'[c].task = t /\ call'[c].version = task[t].version
        /\ pc'[c] = "build" /\ task[t].activeCandidateId < MaxCand
        /\ task[t].state = "Revision"
    BY <1>0, <1>6 DEF StartBuild, Store, Await, CallRecord
  <2>2. CurrentRead(c)'
    BY <1>0, <2>1 DEF CurrentRead, StatesRead, On, Fresh
  <2>3. ASSUME NEW d \in Calls \ {c} PROVE CurrentRead(d)'
    BY <1>0, <1>6, <2>1
       DEF StartBuild, Store, Await, TypeInv, ReadsAreCurrent, CurrentRead, On,
       Fresh
  <2> QED BY <2>2, <2>3 DEF ReadsAreCurrent
<1>7. ASSUME NEW c \in Calls, NEW t \in Tasks, NEW decision \in Decisions,
             NEW selected \in SUBSET Calls, StartResolve(c, t, decision, selected)
      PROVE  ReadsAreCurrent'
  <2>1. task' = task /\ call'[c].task = t /\ call'[c].version = task[t].version
        /\ pc'[c] = "reconcile" /\ task[t].state = "Reconciling"
    BY <1>0, <1>7 DEF StartResolve, Store, Await, CallRecord
  <2>2. CurrentRead(c)'
    BY <1>0, <2>1 DEF CurrentRead, StatesRead, On, Fresh
  <2>3. ASSUME NEW d \in Calls \ {c} PROVE CurrentRead(d)'
    BY <1>0, <1>7, <2>1
       DEF StartResolve, Store, Await, TypeInv, ReadsAreCurrent, CurrentRead,
       On, Fresh
  <2> QED BY <2>2, <2>3 DEF ReadsAreCurrent
<1>13. ASSUME NEW c \in Calls, NEW r \in requests, StartApprove(c, r) PROVE ReadsAreCurrent'
  <2>1. /\ task' = task /\ call'[c].task = r.task /\ call'[c].version = task[r.task].version
        /\ pc'[c] \in {"validate", "decide"} /\ r.task \in Tasks
        /\ pc'[c] = "decide" => task[r.task].state = "HumanApproval"
    BY <1>0, <1>13 DEF StartApprove, Store, Await, CallRecord, TypeInv, TypeOK, Request
  <2>2. CurrentRead(c)'
    BY <1>0, <2>1 DEF CurrentRead, StatesRead, On, Fresh, Reading
  <2>3. ASSUME NEW d \in Calls \ {c} PROVE CurrentRead(d)'
    BY <1>0, <1>13, <2>1
       DEF StartApprove, Store, Await, TypeInv, ReadsAreCurrent, CurrentRead,
       On, Fresh
  <2> QED BY <2>2, <2>3 DEF ReadsAreCurrent
<1>14. ASSUME NEW c \in Calls, DecideRequest(c) PROVE ReadsAreCurrent'
  <2>1. /\ task' = task /\ call' = call /\ pc[c] = "decide"
        /\ pc'[c] \in {"approveMerge", "done"}
        /\ \A d \in Calls \ {c} : pc'[d] = pc[d]
    BY <1>0, <1>14 DEF DecideRequest, At, Await, Keep, Done
  <2> QED BY <2>1 DEF TypeInv, ReadsAreCurrent, CurrentRead, StatesRead, On, Fresh, Reading
<1>8. ASSUME NEW c \in Calls, Reconcile(c) PROVE ReadsAreCurrent'
  <2>1. task' = task /\ call' = call /\ pc[c] = "reconcile" /\ pc'[c] \in {"resume", "done"}
        /\ \A d \in Calls \ {c} : pc'[d] = pc[d]
    BY <1>0, <1>8 DEF Reconcile, At, Await, Keep, Done
  <2> QED BY <2>1 DEF TypeInv, ReadsAreCurrent, CurrentRead, StatesRead, On, Fresh, Reading
<1>9. ASSUME NEW c \in Calls, GitRuns(c) PROVE Quiet
  BY <1>9 DEF GitRuns, Quiet
<1>10. ASSUME NEW t \in Tasks, RequestRevision(t) \/ MarkInterrupted(t) PROVE Quiet
  BY <1>10 DEF RequestRevision, MarkInterrupted, Quiet
<1>11. Crash \/ Restart \/ WorkerReady \/ UserGit => Quiet
  BY DEF Crash, Restart, WorkerReady, UserGit, Quiet, Reading
<1>12. ASSUME NEW c \in Calls, NEW t \in Tasks, StartCancel(c, t) PROVE ReadsAreCurrent'
  <2>1. task' = task /\ call'[c].task = t /\ call'[c].version = task[t].version
        /\ pc'[c] = "cancel" /\ task[t].state \in TaskStates \ TerminalStates
    BY <1>0, <1>12 DEF StartCancel, Store, Await, CallRecord, TypeInv, TypeOK, TaskRecord
  <2>2. CurrentRead(c)'
    BY <1>0, <2>1 DEF CurrentRead, StatesRead, On, Fresh
  <2>3. ASSUME NEW d \in Calls \ {c} PROVE CurrentRead(d)'
    BY <1>0, <1>12, <2>1
       DEF StartCancel, Store, Await, TypeInv, ReadsAreCurrent, CurrentRead, On, Fresh
  <2> QED BY <2>2, <2>3 DEF ReadsAreCurrent
<1>15. ASSUME NEW c \in Calls, RequestCancel(c) PROVE ReadsAreCurrent'
  <2>1. CASE ~Fresh(c)
    <3>1. Quiet
      BY <1>0, <1>15, <2>1 DEF RequestCancel, Quiet, Done, Await, Reading
    <3> QED BY <1>5, <3>1
  <2>2. CASE Fresh(c)
    <3> DEFINE s == CancelTarget(task[On(c)])
               n == Moved(task[On(c)], s)
    <3>1. On(c) \in Tasks /\ call[c] \in CallRecord /\ task[On(c)] \in TaskRecord
      BY DEF TypeInv, TypeOK, CallRecord, On
    <3>2. s \in TaskStates
      BY StatesAreStates DEF CancelTarget
    <3>3. n \in TaskRecord /\ n.state = s /\ n.version = task[On(c)].version + 1
      BY <3>1, <3>2, MovedIsATask
    <3>4. task'[On(c)] = n /\ call' = [call EXCEPT ![c] = [call[c] EXCEPT !.version = @ + 1]]
          /\ pc' = [pc EXCEPT ![c] = IF s = "CancelRequested" THEN "settleCancel" ELSE "done"]
      BY <1>0, <1>15, <2>2, <3>1 DEF RequestCancel, SetTask, Store, Await, TypeInv, TypeOK
    <3>5. call'[c].task = call[c].task /\ call'[c].version = call[c].version + 1
      BY <1>0, <3>1, <3>4 DEF CallRecord
    <3>6. CurrentRead(c)'
      <4>1. On(c)' = On(c) /\ call[c].version = task[On(c)].version
        BY <2>2, <3>5 DEF On, Fresh
      <4>2. task'[On(c)].version = call'[c].version /\ task'[On(c)].state = s
        BY <3>3, <3>4, <3>5, <4>1
      <4>3. call'[c].version \in Nat
        BY <3>1, <3>5 DEF CallRecord
      <4> QED BY <1>0, <3>4, <4>1, <4>2, <4>3 DEF CurrentRead, StatesRead, Reading, Fresh
    <3>7. ASSUME NEW d \in Calls \ {c}, pc'[d] \in Reading PROVE CurrentRead(d)'
      <4>1. pc'[d] = pc[d] /\ call'[d] = call[d] /\ On(d)' = On(d)
        BY <1>0, <3>4 DEF On
      <4> QED BY <1>1, <3>7, <4>1, ReadSurvives
    <3> QED BY <3>6, <3>7 DEF ReadsAreCurrent, CurrentRead
  <2> QED BY <2>1, <2>2
<1>16. ASSUME NEW c \in Calls, Dispatch(c) PROVE ReadsAreCurrent'
  BY <1>4, <1>5, <1>6, <1>7, <1>12, <1>13, <1>16 DEF Dispatch
<1> QED BY <1>2, <1>3, <1>5, <1>8, <1>9, <1>10, <1>11, <1>14, <1>15, <1>16
        DEF Next, CallStep, OtherStep

LEMMA InitType == Init => TypeInv
<1> SUFFICES ASSUME Init PROVE TypeInv
  OBVIOUS
<1> USE DEF Init
<1>1. Base \in Oids /\ \A t \in Tasks : <<t, 1>> \in Candidates
  BY DEF Oids, Candidates
<1>2. task \in [Tasks -> TaskRecord]
  BY DEF TaskRecord, TaskStates, NonTerminalStates, Phases
<1>3. requests \subseteq Request
  BY <1>1 DEF Request
<1>4. journal \in [Calls -> Entry]
  BY <1>1 DEF NoEntry, Entry, Modes, Outcomes
<1>5. NoPreview \in View
  BY <1>1 DEF NoPreview, View, Observed, Unknown
<1>6. call \in [Calls -> CallRecord]
  BY <1>1, <1>5 DEF CallRecord, Modes, Choices
<1>7. TypeOK
  BY <1>1, <1>2, <1>3, <1>4, <1>5, <1>6, InitControl DEF TypeOK, ControlInv
<1>8. ReadsAreCurrent /\ PhaseIsRecorded
  BY DEF ReadsAreCurrent, CurrentRead, PhaseIsRecorded, Reading
<1> QED BY <1>7, <1>8 DEF TypeInv

LEMMA ApprovalsStep ==
  ASSUME TypeInv, Next
  PROVE  requests' \subseteq Request /\ receipts' \subseteq Receipt /\ granted' \subseteq Candidates
<1> DEFINE Typed == requests' \subseteq Request /\ receipts' \subseteq Receipt
                      /\ granted' \subseteq Candidates
<1>0. /\ requests \subseteq Request /\ receipts \subseteq Receipt /\ granted \subseteq Candidates
      /\ gen \in 1 .. MaxGen
      /\ \A c \in Calls : On(c) \in Tasks /\ call[c].receipt \in Candidates
  BY DEF TypeInv, TypeOK, CallRecord, On
<1>1. ASSUME NEW c \in Calls PROVE PendingRequest(c) \in Request
  BY <1>0 DEF PendingRequest, Request
<1>2. ASSUME NEW c \in Calls, DecideRequest(c) PROVE Typed
  <2>1. [PendingRequest(c) EXCEPT !.status = "decided"] \in Request
    BY <1>1 DEF Request
  <2>2. [oid |-> call[c].receipt, gen |-> gen] \in Receipt
    BY <1>0 DEF Receipt
  <2> QED BY <1>0, <1>2, <2>1, <2>2 DEF DecideRequest, approvals
<1>3. ASSUME NEW c \in Calls, InsertRequest(c) PROVE Typed
  BY <1>0, <1>1, <1>3 DEF InsertRequest
<1>4. CASE Restart
  BY <1>0, <1>4 DEF Restart, Surviving
<1>5. CASE UNCHANGED approvals
  BY <1>0, <1>5 DEF approvals
<1>6. ASSUME NEW c \in Calls, MergeStep(c) PROVE DecideRequest(c) \/ UNCHANGED approvals
  BY <1>6 DEF MergeStep, ApproveMerge, Validate, Invalidate, ListOwners, EnterLock,
     InvalidateLocked, CheckTarget, RecordIntent, InvalidateExecuting, SpawnGit, Observe,
     SettleOperation, AbortOperation, AnnounceMerge, CompleteMerge
<1>7. ASSUME NEW c \in Calls, OtherStep(c) PROVE InsertRequest(c) \/ UNCHANGED approvals
  BY <1>7 DEF OtherStep, RequestCancel, SettleCancel, CandidateReady, PresentCandidate, CachePreview,
     Reconcile, ResumePhase
<1>8. ASSUME NEW c \in Calls, Dispatch(c) \/ ToolFails(c) \/ GitRuns(c)
      PROVE  UNCHANGED approvals
  BY <1>8 DEF Dispatch, StartApprove, StartCancel, StartBuild, StartPreview, StartResolve,
     ToolFails, GitRuns
<1>9. ASSUME NEW t \in Tasks, RequestRevision(t) \/ MarkInterrupted(t)
      PROVE  UNCHANGED approvals
  BY <1>9 DEF RequestRevision, MarkInterrupted
<1>10. Crash \/ WorkerReady \/ UserGit => UNCHANGED approvals
  BY DEF Crash, WorkerReady, UserGit
<1> QED BY <1>2, <1>3, <1>4, <1>5, <1>6, <1>7, <1>8, <1>9, <1>10 DEF Next, CallStep

LEMMA ObservationsAreAView ==
  ASSUME TypeInv, NEW t \in Tasks PROVE Observations(t) \in View
<1>1. ASSUME NEW d \in Calls PROVE Observation(d) \in Observed
  <2>1. journal[d] \in Entry /\ target \in Oids /\ Base \in Oids
    BY DEF TypeInv, TypeOK, Oids
  <2> QED BY <2>1 DEF Observation, Observed, Entry, Outcomes
<1>2. Absent \in Observed
  BY DEF Absent, Observed, Oids
<1> QED BY <1>1, <1>2 DEF Observations, View

LEMMA JournalStep == ASSUME TypeInv, Next PROVE journal' \in [Calls -> Entry]
<1>0. journal \in [Calls -> Entry] /\ call \in [Calls -> CallRecord]
  BY DEF TypeInv, TypeOK
<1>1. ASSUME NEW c \in Calls, RecordIntent(c) PROVE journal' \in [Calls -> Entry]
  <2>1. call[c].mode \in Modes /\ call[c].oid \in Oids /\ Base \in Oids
    BY <1>0 DEF CallRecord, Oids
  <2>2. [NoEntry EXCEPT !.status = "executing", !.mode = call[c].mode, !.oid = call[c].oid]
          \in Entry
    BY <2>1 DEF NoEntry, Entry, Outcomes
  <2> QED BY <1>0, <1>1, <2>2 DEF RecordIntent
<1>2. ASSUME NEW c \in Calls, Observe(c) PROVE journal' \in [Calls -> Entry]
  <2>1. ObservedOutcomes(c) \subseteq Outcomes
    BY DEF ObservedOutcomes, Outcomes
  <2>2. PICK outcome \in Outcomes :
          journal' = [journal EXCEPT ![c].status = "observed", ![c].outcome = outcome]
    BY <1>2, <2>1 DEF Observe
  <2> QED BY <1>0, <2>2 DEF Entry
<1>3. ASSUME NEW c \in Calls, SettleOperation(c) PROVE journal' \in [Calls -> Entry]
  <2>1. PICK status \in {"completed", "needs_attention"} :
          journal' = [journal EXCEPT ![c].status = status]
    BY <1>3 DEF SettleOperation
  <2> QED BY <1>0, <2>1 DEF Entry
<1>4. ASSUME NEW c \in Calls, ToolFails(c) PROVE journal' \in [Calls -> Entry]
  BY <1>0, <1>4 DEF ToolFails, Entry, Outcomes
<1>5. ASSUME NEW c \in Calls, Reconcile(c) PROVE journal' \in [Calls -> Entry]
  <2> DEFINE Settled(d) == [journal[d] EXCEPT !.outcome = call[c].seen[d].outcome,
                                              !.status = ReconciledStatus(call[c].seen[d].outcome)]
  <2>1. ASSUME Observations(On(c)) = call[c].seen, NEW d \in ToReconcile(c)
        PROVE  Settled(d) \in Entry
    <3>1. d \in Incomplete(On(c)) /\ d \in Calls
      BY <2>1 DEF ToReconcile, Incomplete
    <3>2. call[c].seen[d].outcome = Observation(d).outcome
      BY <2>1, <3>1 DEF Observations
    <3>3. Observation(d).outcome \in Outcomes
      BY <1>0, <3>1 DEF Observation, Entry, Outcomes
    <3>4. ReconciledStatus(call[c].seen[d].outcome) \in {"completed", "needs_attention"}
      BY DEF ReconciledStatus
    <3>5. \A o \in Outcomes, k \in {"completed", "needs_attention"} :
            [journal[d] EXCEPT !.outcome = o, !.status = k] \in Entry
      BY <1>0, <3>1 DEF Entry
    <3> QED BY <3>2, <3>3, <3>4, <3>5
  <2>2. CASE Observations(On(c)) = call[c].seen
    <3>1. journal' = [d \in Calls |-> IF d \notin ToReconcile(c) THEN journal[d] ELSE Settled(d)]
      BY <1>5, <2>2 DEF Reconcile
    <3> HIDE DEF Settled
    <3> QED BY <1>0, <2>1, <2>2, <3>1
  <2>3. CASE Observations(On(c)) # call[c].seen
    BY <1>0, <1>5, <2>3 DEF Reconcile
  <2> QED BY <2>2, <2>3
<1>6. ASSUME NEW c \in Calls, MergeStep(c) PROVE journal' \in [Calls -> Entry]
  <2>1. CASE RecordIntent(c) \/ Observe(c) \/ SettleOperation(c)
    BY <1>1, <1>2, <1>3, <2>1
  <2>2. ~(RecordIntent(c) \/ Observe(c) \/ SettleOperation(c)) => journal' = journal
    BY <1>6 DEF MergeStep, DecideRequest, ApproveMerge, Validate, Invalidate,
       ListOwners, EnterLock, InvalidateLocked, CheckTarget, InvalidateExecuting, SpawnGit,
       AbortOperation, AnnounceMerge, CompleteMerge
  <2> QED BY <1>0, <2>1, <2>2
<1>7. ASSUME NEW c \in Calls, OtherStep(c) PROVE Reconcile(c) \/ journal' = journal
  BY <1>7 DEF OtherStep, RequestCancel, SettleCancel, CandidateReady, PresentCandidate, InsertRequest,
     CachePreview, ResumePhase
<1>8. ASSUME NEW c \in Calls, Dispatch(c) \/ GitRuns(c) PROVE journal' = journal
  BY <1>8 DEF Dispatch, StartApprove, StartCancel, StartBuild, StartPreview, StartResolve,
     GitRuns
<1>9. ASSUME NEW t \in Tasks, RequestRevision(t) \/ MarkInterrupted(t)
      PROVE  journal' = journal
  BY <1>9 DEF RequestRevision, MarkInterrupted
<1>10. Crash \/ Restart \/ WorkerReady \/ UserGit => journal' = journal
  BY DEF Crash, Restart, WorkerReady, UserGit
<1> QED BY <1>0, <1>4, <1>5, <1>6, <1>7, <1>8, <1>9, <1>10 DEF Next, CallStep

\* The tables, processes and files whose writes are few.
OtherTypes ==
  /\ announced \subseteq Tasks
  /\ target \in Oids /\ checkout \in CheckoutStates /\ drift \in 0 .. MaxDrift
  /\ published \subseteq Oids /\ landed \subseteq Oids
  /\ child \in [Calls -> {"none", "running", "exited"}]
  /\ worker \in {"up", "down", "starting"} /\ gen \in 1 .. MaxGen
  /\ preview \in [Tasks -> View]

LEMMA OtherTypesStep == ASSUME TypeInv, Next PROVE OtherTypes'
<1>0. OtherTypes /\ \A c \in Calls : On(c) \in Tasks /\ journal[c].oid \in Oids
  BY DEF TypeInv, TypeOK, OtherTypes, CallRecord, Entry, On
<1>1. UNCHANGED <<announced, repository, process, preview>> => OtherTypes'
  BY <1>0 DEF OtherTypes, repository, process
<1>2. ASSUME NEW c \in Calls, AnnounceMerge(c) PROVE OtherTypes'
  BY <1>0, <1>2 DEF AnnounceMerge, OtherTypes, repository, process, memory
<1>3. ASSUME NEW c \in Calls, SpawnGit(c) PROVE OtherTypes'
  BY <1>0, <1>3 DEF SpawnGit, OtherTypes, process, memory
<1>4. ASSUME NEW c \in Calls, GitRuns(c) PROVE OtherTypes'
  BY <1>0, <1>4 DEF GitRuns, OtherTypes, process, memory
<1>5. ASSUME NEW c \in Calls, CachePreview(c) PROVE OtherTypes'
  BY <1>0, <1>5, ObservationsAreAView DEF CachePreview, OtherTypes, repository, process
<1>6. CASE Crash
  <2>1. NoPreview \in View
    BY DEF NoPreview, View, Observed, Unknown, Oids
  <2> QED BY <1>0, <1>6, <2>1 DEF Crash, OtherTypes
<1>7. CASE Restart
  BY <1>0, <1>7 DEF Restart, OtherTypes, repository, memory
<1>8. CASE WorkerReady
  BY <1>0, <1>8 DEF WorkerReady, OtherTypes, repository, memory
<1>9. CASE UserGit
  BY <1>0, <1>9 DEF UserGit, Existing, OtherTypes, process, memory, Oids
<1>10. ASSUME NEW c \in Calls, MergeStep(c) PROVE OtherTypes'
  <2>1. CASE AnnounceMerge(c) \/ SpawnGit(c)
    BY <1>2, <1>3, <2>1
  <2>2. CASE ~(AnnounceMerge(c) \/ SpawnGit(c))
    BY <1>1, <1>10, <2>2 DEF MergeStep, DecideRequest, ApproveMerge, Validate, Invalidate,
       ListOwners, EnterLock, InvalidateLocked, CheckTarget, RecordIntent,
       InvalidateExecuting, Observe, SettleOperation, AbortOperation, CompleteMerge, memory
  <2> QED BY <2>1, <2>2
<1>11. ASSUME NEW c \in Calls, OtherStep(c) PROVE OtherTypes'
  <2>1. CASE CachePreview(c)
    BY <1>5, <2>1
  <2>2. CASE ~CachePreview(c)
    BY <1>1, <1>11, <2>2 DEF OtherStep, RequestCancel, SettleCancel, CandidateReady, PresentCandidate,
       InsertRequest, Reconcile, ResumePhase, memory
  <2> QED BY <2>1, <2>2
<1>12. ASSUME NEW c \in Calls, Dispatch(c) \/ ToolFails(c) PROVE OtherTypes'
  BY <1>1, <1>12 DEF Dispatch, StartApprove, StartCancel, StartBuild, StartPreview,
     StartResolve, ToolFails, memory
<1>13. ASSUME NEW t \in Tasks, RequestRevision(t) \/ MarkInterrupted(t) PROVE OtherTypes'
  BY <1>1, <1>13 DEF RequestRevision, MarkInterrupted, memory
<1> QED BY <1>4, <1>6, <1>7, <1>8, <1>9, <1>10, <1>11, <1>12, <1>13 DEF Next, CallStep

LEMMA TypeStep == ASSUME TypeInv, ControlInv', [Next]_vars PROVE TypeInv'
<1>1. CASE Next
  <2>1. TypeOK'
    BY <1>1, TaskStep, CallsStep, ApprovalsStep, JournalStep, OtherTypesStep
       DEF TypeOK, OtherTypes, ControlInv, TaskUpdate
  <2>2. ReadsAreCurrent'
    BY <1>1, ReadsStep
  <2>3. PhaseIsRecorded'
    BY <1>1, TaskStep DEF TypeInv, PhaseIsRecorded, TaskUpdate, NextVersion
  <2> QED BY <2>1, <2>2, <2>3 DEF TypeInv
<1>2. CASE UNCHANGED vars
  BY <1>2
     DEF vars, approvals, repository, process, memory, TypeInv, TypeOK, ReadsAreCurrent,
     CurrentRead, PhaseIsRecorded, On, Fresh
<1> QED BY <1>1, <1>2

LEMMA StrongTypeCorrect == Spec => []TypeInv
BY InitType, TypeStep, ControlCorrect, PTL DEF Spec

(* Every table, every call and every process stays in its range, for any   *)
(* number of tasks and calls.                                              *)
THEOREM TypeCorrect == Spec => []TypeOK
BY StrongTypeCorrect, PTL DEF TypeInv

-----------------------------------------------------------------------------
(* The safety of the merge *)

OidsOf(t) == {t} \X (1 .. MaxCand)

\* The labels between RecordIntent and the end of mergeApprovedCandidate.
Journaled ==
  {"invalidateExecuting", "execute", "git", "observe", "settle", "abort", "announce",
   "finish"}

\* What a call knows about the candidate it merges.
CallSafe(c) ==
  /\ pc[c] \in Merging => call[c].oid \in granted /\ call[c].oid \in OidsOf(On(c))
  /\ pc[c] \in Journaled => journal[c].oid = call[c].oid /\ journal[c].status # "none"
  /\ pc[c] \in {"announce", "finish"} => call[c].oid \in landed
  /\ pc[c] = "resume" /\ (\E d \in Calls : call[c].seen[d].outcome = "applied")
       => landed \cap OidsOf(On(c)) # {}
\* An entry of the journal is about an approved candidate and never ahead of it.
EntrySafe(c) ==
  /\ journal[c].status # "none" => journal[c].oid \in granted
  /\ child[c] = "running" => journal[c].status # "none"
  /\ journal[c].status = "completed" \/ journal[c].outcome = "applied"
       => journal[c].oid \in landed
HistorySafe ==
  /\ \A a \in receipts : a.oid \in granted
  /\ published \subseteq granted
  /\ target \in Candidates => target \in landed
SafeInv ==
  /\ \A c \in Calls : CallSafe(c) /\ EntrySafe(c)
  /\ HistorySafe
  /\ CompletedHasLanded

LEMMA InitSafe == Init => SafeInv
<1> SUFFICES ASSUME Init PROVE SafeInv
  OBVIOUS
<1> USE DEF Init
<1>1. ASSUME NEW c \in Calls PROVE CallSafe(c)
  BY DEF CallSafe, Merging, Locked, Journaled
<1>2. ASSUME NEW c \in Calls PROVE EntrySafe(c)
  BY DEF EntrySafe, NoEntry
<1>3. HistorySafe /\ CompletedHasLanded
  BY DEF HistorySafe, CompletedHasLanded
<1> QED BY <1>1, <1>2, <1>3 DEF SafeInv

-----------------------------------------------------------------------------
(* Approvals and the ref *)

\* The steps of a call that leave the approvals, or the ref, alone.
LEMMA WhoGrants ==
  ASSUME Next
  PROVE  \/ \E c \in Calls : DecideRequest(c)
         \/ Restart
         \/ receipts' = receipts /\ granted' = granted
<1>1. ASSUME NEW c \in Calls, MergeStep(c)
      PROVE  DecideRequest(c) \/ (receipts' = receipts /\ granted' = granted)
  BY <1>1
     DEF approvals, MergeStep, ApproveMerge, Validate, Invalidate, ListOwners, EnterLock,
     InvalidateLocked, CheckTarget, RecordIntent, InvalidateExecuting, SpawnGit, Observe,
     SettleOperation, AbortOperation, AnnounceMerge, CompleteMerge
<1>2. ASSUME NEW c \in Calls, OtherStep(c) PROVE receipts' = receipts /\ granted' = granted
  BY <1>2 DEF approvals, OtherStep, RequestCancel, SettleCancel, CandidateReady, PresentCandidate,
     InsertRequest, CachePreview, Reconcile, ResumePhase
<1>3. ASSUME NEW c \in Calls, Dispatch(c) \/ ToolFails(c) \/ GitRuns(c)
      PROVE  receipts' = receipts /\ granted' = granted
  BY <1>3 DEF approvals, Dispatch, StartApprove, StartCancel, StartBuild, StartPreview,
     StartResolve, ToolFails, GitRuns
<1>4. ASSUME NEW t \in Tasks, RequestRevision(t) \/ MarkInterrupted(t)
      PROVE  receipts' = receipts /\ granted' = granted
  BY <1>4 DEF approvals, RequestRevision, MarkInterrupted
<1>5. Crash \/ WorkerReady \/ UserGit => receipts' = receipts /\ granted' = granted
  BY DEF approvals, Crash, WorkerReady, UserGit
<1> QED BY <1>1, <1>2, <1>3, <1>4, <1>5 DEF Next, CallStep

LEMMA WhoMovesTheRef ==
  ASSUME Next
  PROVE  \/ \E c \in Calls : GitRuns(c)
         \/ UserGit
         \/ UNCHANGED <<target, published, landed>>
<1>1. ASSUME NEW c \in Calls, MergeStep(c) PROVE UNCHANGED <<target, published, landed>>
  BY <1>1 DEF repository, MergeStep, DecideRequest, ApproveMerge, Validate, Invalidate,
     ListOwners, EnterLock, InvalidateLocked, CheckTarget, RecordIntent, InvalidateExecuting,
     SpawnGit, Observe, SettleOperation, AbortOperation, AnnounceMerge, CompleteMerge
<1>2. ASSUME NEW c \in Calls, OtherStep(c) PROVE UNCHANGED <<target, published, landed>>
  BY <1>2 DEF repository, OtherStep, RequestCancel, SettleCancel, CandidateReady, PresentCandidate,
     InsertRequest, CachePreview, Reconcile, ResumePhase
<1>3. ASSUME NEW c \in Calls, Dispatch(c) \/ ToolFails(c)
      PROVE  UNCHANGED <<target, published, landed>>
  BY <1>3 DEF repository, Dispatch, StartApprove, StartCancel, StartBuild, StartPreview,
     StartResolve, ToolFails
<1>4. ASSUME NEW t \in Tasks, RequestRevision(t) \/ MarkInterrupted(t)
      PROVE  UNCHANGED <<target, published, landed>>
  BY <1>4 DEF repository, RequestRevision, MarkInterrupted
<1>5. Crash \/ Restart \/ WorkerReady => UNCHANGED <<target, published, landed>>
  BY DEF repository, Crash, Restart, WorkerReady
<1> QED BY <1>1, <1>2, <1>3, <1>4, <1>5 DEF Next, CallStep

LEMMA HistoryStep ==
  ASSUME TypeInv, SafeInv, Next
  PROVE  HistorySafe' /\ granted \subseteq granted' /\ landed \subseteq landed'
<1>1. /\ \A a \in receipts' : a.oid \in granted'
      /\ granted \subseteq granted'
  BY WhoGrants DEF SafeInv, HistorySafe, DecideRequest, Restart, Surviving, approvals
<1>2. /\ landed \subseteq landed'
      /\ published' \subseteq granted
      /\ target' \in Candidates => target' \in landed'
  <2>0. published \subseteq granted /\ (target \in Candidates => target \in landed)
    BY DEF SafeInv, HistorySafe
  <2>1. ASSUME NEW c \in Calls, GitRuns(c)
        PROVE  /\ landed \subseteq landed'
               /\ published' \subseteq granted
               /\ target' \in Candidates => target' \in landed'
    <3>1. journal[c].oid \in granted
      BY <2>1 DEF GitRuns, SafeInv, EntrySafe
    <3>2. CASE /\ target' = journal[c].oid
               /\ published' = published \cup {journal[c].oid}
               /\ landed' = landed \cup {journal[c].oid}
      BY <2>0, <3>1, <3>2
    <3>3. CASE UNCHANGED <<target, published, landed>>
      BY <2>0, <3>3
    <3> QED BY <2>1, <3>2, <3>3 DEF GitRuns
  <2>2. CASE UserGit
    BY <2>0, <2>2 DEF UserGit
  <2>3. CASE UNCHANGED <<target, published, landed>>
    BY <2>0, <2>3
  <2> QED BY <2>1, <2>2, <2>3, WhoMovesTheRef
<1> QED BY <1>1, <1>2 DEF HistorySafe

-----------------------------------------------------------------------------
(* The journal and git *)

EntryFrame(d) ==
  /\ journal'[d] = journal[d]
  /\ child'[d] = "running" => child[d] = "running"

LEMMA EntryFrameSafe ==
  ASSUME SafeInv, granted \subseteq granted', landed \subseteq landed', NEW d \in Calls,
         EntryFrame(d)
  PROVE  EntrySafe(d)'
BY DEF SafeInv, EntrySafe, EntryFrame

LEMMA EntryStep == ASSUME TypeInv, SafeInv, Next, NEW d \in Calls PROVE EntrySafe(d)'
<1>0. journal \in [Calls -> Entry] /\ child \in [Calls -> {"none", "running", "exited"}]
  BY DEF TypeInv, TypeOK
<1>1. granted \subseteq granted' /\ landed \subseteq landed'
  BY HistoryStep
<1>2. ASSUME NEW c \in Calls, RecordIntent(c) PROVE EntrySafe(d)'
  <2>1. call[c].oid \in granted /\ child' = child
    BY <1>2 DEF RecordIntent, repository, SafeInv, CallSafe, At, Merging, Locked
  <2>2. d = c => /\ journal'[d].oid \in granted /\ journal'[d].status = "executing"
                 /\ journal'[d].outcome = "none"
    BY <1>0, <1>2, <2>1 DEF RecordIntent, NoEntry
  <2>3. d # c => EntryFrame(d)
    BY <1>0, <1>2, <2>1 DEF RecordIntent, EntryFrame
  <2> QED BY <1>1, <2>2, <2>3, EntryFrameSafe DEF EntrySafe
<1>3. ASSUME NEW c \in Calls, SpawnGit(c) PROVE EntrySafe(d)'
  <2>1. journal[c].status # "none" /\ journal' = journal
    BY <1>3 DEF SpawnGit, SafeInv, CallSafe, At, Journaled
  <2>2. d # c => EntryFrame(d)
    BY <1>0, <1>3, <2>1 DEF SpawnGit, EntryFrame
  <2> QED BY <1>1, <2>1, <2>2, EntryFrameSafe DEF SafeInv, EntrySafe
<1>4. ASSUME NEW c \in Calls, Observe(c) PROVE EntrySafe(d)'
  <2>1. /\ call[c].oid \in OidsOf(On(c)) /\ journal[c].oid = call[c].oid
        /\ journal[c].status # "none" /\ child' = child /\ On(c) \in Tasks
    BY <1>4 DEF Observe, repository, SafeInv, CallSafe, At, Journaled, Merging, Locked,
       TypeInv, TypeOK, CallRecord, On
  <2>2. "applied" \in ObservedOutcomes(c) => journal[c].oid \in landed
    BY <2>1 DEF ObservedOutcomes, SafeInv, HistorySafe, OidsOf, Candidates
  <2>3. d = c => /\ journal'[d].oid = journal[d].oid /\ journal'[d].status = "observed"
                 /\ journal'[d].outcome \in ObservedOutcomes(c)
    BY <1>0, <1>4 DEF Observe, Entry
  <2>4. d # c => EntryFrame(d)
    BY <1>0, <1>4, <2>1 DEF Observe, EntryFrame
  <2> QED BY <1>1, <2>1, <2>2, <2>3, <2>4, EntryFrameSafe DEF SafeInv, EntrySafe
<1>5. ASSUME NEW c \in Calls, SettleOperation(c) PROVE EntrySafe(d)'
  <2>1. journal[c].status # "none" /\ child' = child
    BY <1>5 DEF SettleOperation, repository, SafeInv, CallSafe, At, Journaled
  <2>2. d = c => /\ journal'[d].oid = journal[d].oid /\ journal'[d].outcome = journal[d].outcome
                 /\ journal'[d].status \in {"completed", "needs_attention"}
                 /\ journal'[d].status = "completed" => journal[d].outcome = "applied"
    BY <1>0, <1>5 DEF SettleOperation, Entry
  <2>3. d # c => EntryFrame(d)
    BY <1>0, <1>5, <2>1 DEF SettleOperation, EntryFrame
  <2> QED BY <1>1, <2>1, <2>2, <2>3, EntryFrameSafe DEF SafeInv, EntrySafe
<1>6. ASSUME NEW c \in Calls, ToolFails(c) PROVE EntrySafe(d)'
  <2>1. child' = child
    BY <1>6 DEF ToolFails, repository
  <2>2. CASE journal' = journal
    BY <1>1, <2>1, <2>2, EntryFrameSafe DEF EntryFrame
  <2>3. CASE /\ At(c, "observe") \/ At(c, "git")
             /\ journal' = [journal EXCEPT ![c].status = "needs_attention",
                                           ![c].outcome = "uncertain"]
    <3>1. journal[c].status # "none"
      BY <2>3 DEF SafeInv, CallSafe, At, Journaled
    <3>2. d = c => /\ journal'[d].oid = journal[d].oid /\ journal'[d].outcome = "uncertain"
                   /\ journal'[d].status = "needs_attention"
      BY <1>0, <2>3 DEF Entry
    <3>3. d # c => EntryFrame(d)
      BY <1>0, <2>1, <2>3 DEF EntryFrame
    <3> QED BY <1>1, <2>1, <3>1, <3>2, <3>3, EntryFrameSafe DEF SafeInv, EntrySafe
  <2> QED BY <1>6, <2>2, <2>3 DEF ToolFails
<1>7. ASSUME NEW c \in Calls, Reconcile(c) PROVE EntrySafe(d)'
  <2>1. child' = child
    BY <1>7 DEF Reconcile, repository
  <2>2. CASE journal'[d] = journal[d]
    BY <1>1, <2>1, <2>2, EntryFrameSafe DEF EntryFrame
  <2>3. CASE Observations(On(c)) = call[c].seen /\ d \in ToReconcile(c)
    <3>1. d \in Incomplete(On(c)) /\ journal[d].status # "none" /\ On(c) \in Tasks
      BY <2>3 DEF ToReconcile, Incomplete, TypeInv, TypeOK, CallRecord, On
    <3>2. Observation(d).outcome = "applied" => journal[d].oid \in landed
      BY <3>1 DEF Observation, Incomplete, SafeInv, EntrySafe, HistorySafe, Candidates
    <3>3. call[c].seen[d].outcome = Observation(d).outcome
      BY <2>3, <3>1 DEF Observations
    <3>4. journal'[d] = [journal[d] EXCEPT
            !.outcome = call[c].seen[d].outcome,
            !.status = ReconciledStatus(call[c].seen[d].outcome)]
      BY <1>7, <2>3 DEF Reconcile
    <3>5. /\ journal'[d].oid = journal[d].oid
          /\ journal'[d].outcome = Observation(d).outcome
          /\ journal'[d].status = ReconciledStatus(Observation(d).outcome)
      BY <1>0, <3>3, <3>4 DEF Entry
    <3> QED BY <1>1, <2>1, <3>1, <3>2, <3>5 DEF SafeInv, EntrySafe, ReconciledStatus
  <2> QED BY <1>7, <2>2, <2>3 DEF Reconcile
<1>8. EntryFrame(d) => EntrySafe(d)'
  BY <1>1, EntryFrameSafe
<1>9. ASSUME NEW c \in Calls, MergeStep(c),
             ~(RecordIntent(c) \/ SpawnGit(c) \/ Observe(c) \/ SettleOperation(c))
      PROVE  EntryFrame(d)
  BY <1>9 DEF EntryFrame, repository, MergeStep, DecideRequest, ApproveMerge, Validate,
     Invalidate, ListOwners, EnterLock, InvalidateLocked, CheckTarget, InvalidateExecuting,
     AbortOperation, AnnounceMerge, CompleteMerge
<1>10. ASSUME NEW c \in Calls, OtherStep(c), ~Reconcile(c) PROVE EntryFrame(d)
  BY <1>10 DEF EntryFrame, repository, OtherStep, RequestCancel, SettleCancel, CandidateReady,
     PresentCandidate, InsertRequest, CachePreview, ResumePhase
<1>11. ASSUME NEW c \in Calls, Dispatch(c) PROVE EntryFrame(d)
  BY <1>11 DEF EntryFrame, repository, Dispatch, StartApprove, StartCancel, StartBuild,
     StartPreview, StartResolve
<1>12. ASSUME NEW c \in Calls, GitRuns(c) PROVE EntryFrame(d)
  BY <1>0, <1>12 DEF EntryFrame, GitRuns
<1>13. ASSUME NEW t \in Tasks, RequestRevision(t) \/ MarkInterrupted(t) PROVE EntryFrame(d)
  BY <1>13 DEF EntryFrame, repository, RequestRevision, MarkInterrupted
<1>14. Crash \/ Restart \/ WorkerReady \/ UserGit => EntryFrame(d)
  BY <1>0 DEF EntryFrame, repository, Crash, Restart, WorkerReady, UserGit
<1> QED BY <1>2, <1>3, <1>4, <1>5, <1>6, <1>7, <1>8, <1>9, <1>10, <1>11, <1>12, <1>13, <1>14
        DEF Next, CallStep

-----------------------------------------------------------------------------
(* The calls *)

\* A call that another step passes by, or that ends.
CallFrame(d) ==
  pc'[d] \in Merging \cup {"resume"} =>
    /\ pc'[d] = pc[d] /\ call'[d] = call[d]
    /\ journal'[d].oid = journal[d].oid
    /\ journal[d].status # "none" => journal'[d].status # "none"

LEMMA CallFrameSafe ==
  ASSUME SafeInv, granted \subseteq granted', landed \subseteq landed', NEW d \in Calls,
         CallFrame(d)
  PROVE  CallSafe(d)'
<1>0. Journaled \subseteq Merging /\ {"announce", "finish"} \subseteq Merging
  BY DEF Journaled, Merging, Locked
<1>1. CASE pc'[d] \notin Merging \cup {"resume"}
  BY <1>0, <1>1 DEF CallSafe
<1>2. CASE pc'[d] \in Merging \cup {"resume"}
  <2>1. pc'[d] = pc[d] /\ call'[d] = call[d] /\ On(d)' = On(d)
    BY <1>2 DEF CallFrame, On
  <2> QED BY <1>0, <1>2, <2>1 DEF CallFrame, SafeInv, CallSafe
<1> QED BY <1>1, <1>2

\* The walk from one label of the merge to the next, with the same locals.
Onward(c) ==
  /\ pc[c] \in Merging /\ pc'[c] # "resume"
  /\ call'[c].oid = call[c].oid /\ call'[c].task = call[c].task
  /\ pc'[c] \in Journaled =>
       /\ journal'[c].oid = call[c].oid /\ journal'[c].status # "none"
  /\ pc'[c] \in {"announce", "finish"} => call[c].oid \in landed

LEMMA OnwardSafe ==
  ASSUME SafeInv, granted \subseteq granted', landed \subseteq landed', NEW c \in Calls,
         Onward(c)
  PROVE  CallSafe(c)'
BY DEF SafeInv, CallSafe, Onward, On

LEMMA CallSafeStep == ASSUME TypeInv, SafeInv, Next, NEW d \in Calls PROVE CallSafe(d)'
<1>0. /\ pc \in [Calls -> Locations] /\ call \in [Calls -> CallRecord]
      /\ journal \in [Calls -> Entry] /\ \A c \in Calls : On(c) \in Tasks
  BY DEF TypeInv, TypeOK, CallRecord, On
<1>1. granted \subseteq granted' /\ landed \subseteq landed'
  BY HistoryStep
<1>2. ASSUME NEW c \in Calls, Validate(c), d = c PROVE CallSafe(d)'
  <2>1. CASE Valid(c) /\ pc'[c] = "owners"
    <3>1. Active(On(c)) \in granted
      BY <2>1 DEF Valid, SafeInv, HistorySafe
    <3>2. call'[c].oid = Active(On(c)) /\ call'[c].task = call[c].task
      BY <1>0, <1>2 DEF Validate, Store, CallRecord
    <3>3. Active(On(c)) \in OidsOf(On(c))
      BY <1>0 DEF Active, OidsOf, TypeInv, TypeOK, TaskRecord
    <3> QED BY <1>1, <1>2, <2>1, <3>1, <3>2, <3>3 DEF CallSafe, Journaled, On
  <2>2. CASE pc'[c] \in {"invalidate", "done"}
    BY <1>1, <1>2, <2>2, CallFrameSafe DEF CallFrame, Merging, Locked
  <2> QED BY <1>0, <1>2, <2>1, <2>2 DEF Validate, Await
<1>3. ASSUME NEW c \in Calls, d = c, ListOwners(c) PROVE CallSafe(d)'
  <2>1. CASE Done(c)
    BY <1>0, <1>1, <1>3, <2>1, CallFrameSafe DEF CallFrame, Merging, Locked, Done, Await
  <2>2. CASE /\ Store(c, [call[c] EXCEPT !.mode = IF checkout = "none" THEN "cas" ELSE "ff"])
             /\ Await(c, "lock")
    <3>1. /\ pc[c] \in Merging /\ pc'[c] = "lock"
          /\ call'[c].oid = call[c].oid /\ call'[c].task = call[c].task
      BY <1>0, <1>3, <2>2 DEF ListOwners, At, Await, Store, CallRecord, Merging
    <3> QED BY <1>1, <1>3, <3>1, OnwardSafe DEF Onward, Journaled
  <2> QED BY <1>3, <2>1, <2>2 DEF ListOwners
<1>4. ASSUME NEW c \in Calls, d = c, EnterLock(c) PROVE CallSafe(d)'
  <2>1. Onward(c)
    BY <1>0, <1>4 DEF EnterLock, At, Await, Onward, Merging, Locked, Journaled
  <2> QED BY <1>1, <1>4, <2>1, OnwardSafe
<1>5. ASSUME NEW c \in Calls, d = c, CheckTarget(c) PROVE CallSafe(d)'
  <2>1. CASE Done(c)
    BY <1>0, <1>1, <1>5, <2>1, CallFrameSafe DEF CallFrame, Merging, Locked, Done, Await
  <2>2. CASE Await(c, "journal")
    <3>1. Onward(c)
      BY <1>0, <1>5, <2>2 DEF CheckTarget, At, Await, Onward, Merging, Locked, Journaled
    <3> QED BY <1>1, <1>5, <3>1, OnwardSafe
  <2> QED BY <1>5, <2>1, <2>2 DEF CheckTarget, Abort
<1>6. ASSUME NEW c \in Calls, d = c, RecordIntent(c) PROVE CallSafe(d)'
  <2>1. journal'[c].oid = call[c].oid /\ journal'[c].status = "executing"
    BY <1>0, <1>6 DEF RecordIntent, NoEntry
  <2>2. Onward(c)
    BY <1>0, <1>6, <2>1 DEF RecordIntent, At, Await, Onward, Merging, Locked
  <2> QED BY <1>1, <1>6, <2>2, OnwardSafe
<1>7. ASSUME NEW c \in Calls, d = c, InvalidateExecuting(c) \/ SpawnGit(c) \/ Observe(c)
      PROVE  CallSafe(d)'
  <2>1. /\ pc[c] \in Journaled /\ pc'[c] \in {"observe", "git", "settle"} /\ call' = call
        /\ journal'[c].oid = journal[c].oid
        /\ journal[c].status # "none" => journal'[c].status # "none"
    BY <1>0, <1>7
       DEF InvalidateExecuting, SpawnGit, Observe, At, Await, Keep, Journaled, Entry
  <2>2. Onward(c)
    BY <2>1 DEF SafeInv, CallSafe, Onward, Journaled, Merging, Locked
  <2> QED BY <1>1, <1>7, <2>2, OnwardSafe
<1>8. ASSUME NEW c \in Calls, d = c, SettleOperation(c) PROVE CallSafe(d)'
  <2>1. /\ pc[c] = "settle" /\ call' = call /\ pc'[c] \in {"announce", "abort"}
        /\ journal'[c].oid = journal[c].oid /\ journal'[c].status # "none"
        /\ pc'[c] = "announce" => journal[c].outcome = "applied"
    BY <1>0, <1>8 DEF SettleOperation, At, Keep, Entry
  <2>2. pc'[c] = "announce" => call[c].oid \in landed
    BY <2>1 DEF SafeInv, CallSafe, EntrySafe, Journaled
  <2>3. Onward(c)
    BY <2>1, <2>2 DEF SafeInv, CallSafe, Onward, Journaled, Merging, Locked
  <2> QED BY <1>1, <1>8, <2>3, OnwardSafe
<1>9. ASSUME NEW c \in Calls, d = c, AnnounceMerge(c) PROVE CallSafe(d)'
  <2>1. Onward(c)
    BY <1>0, <1>9 DEF AnnounceMerge, At, Keep, SafeInv, CallSafe, Onward, Journaled, Merging
  <2> QED BY <1>1, <1>9, <2>1, OnwardSafe
<1>10. ASSUME NEW c \in Calls, d = c, ToolFails(c) PROVE CallSafe(d)'
  <2>1. CASE pc'[c] \in {"done"}
    BY <1>0, <1>1, <1>10, <2>1, CallFrameSafe DEF CallFrame, Merging, Locked
  <2>2. CASE pc'[c] \in {"observe", "abort"}
    <3>1. /\ pc[c] \in Journaled /\ call' = call /\ journal'[c].oid = journal[c].oid
          /\ journal[c].status # "none" => journal'[c].status # "none"
      BY <1>0, <1>10, <2>2 DEF ToolFails, At, Await, Keep, Done, Abort, Journaled, Entry
    <3>2. Onward(c)
      BY <2>2, <3>1 DEF SafeInv, CallSafe, Onward, Journaled, Merging, Locked
    <3> QED BY <1>1, <1>10, <3>2, OnwardSafe
  <2>3. pc'[c] \in {"done", "observe", "abort"}
    BY <1>0, <1>10 DEF ToolFails, Await, Keep, Done, Abort
  <2> QED BY <2>1, <2>2, <2>3
<1>11. ASSUME NEW c \in Calls, d = c, Reconcile(c) PROVE CallSafe(d)'
  <2>1. CASE pc'[c] = "done"
    BY <1>0, <1>1, <1>11, <2>1, CallFrameSafe DEF CallFrame, Merging, Locked
  <2>2. CASE Observations(On(c)) = call[c].seen /\ pc'[c] = "resume"
    <3>1. ASSUME NEW e \in Calls, call[c].seen[e].outcome = "applied"
          PROVE  landed \cap OidsOf(On(c)) # {}
      <4>1. e \in Incomplete(On(c))
        BY <2>2, <3>1 DEF Observations, Absent
      <4>2. Observation(e).outcome = "applied"
        BY <2>2, <3>1, <4>1 DEF Observations
      <4>3. journal[e].oid \in OidsOf(On(c)) /\ journal[e].oid \in Candidates
        BY <1>0, <4>1 DEF Incomplete, OidsOf, Candidates
      <4>4. journal[e].oid \in landed
        BY <4>2, <4>3 DEF Observation, SafeInv, EntrySafe, HistorySafe
      <4> QED BY <4>3, <4>4
    <3>2. call' = call /\ On(c)' = On(c)
      BY <1>11 DEF Reconcile, On
    <3>3. landed \cap OidsOf(On(c)) # {} => landed' \cap OidsOf(On(c)) # {}
      BY <1>1
    <3> QED BY <1>11, <2>2, <3>1, <3>2, <3>3 DEF CallSafe, Merging, Locked, Journaled
  <2> QED BY <1>0, <1>11, <2>1, <2>2 DEF Reconcile, Keep, Done, Await
<1>12. CallFrame(d) => CallSafe(d)'
  BY <1>1, CallFrameSafe
<1>13. ASSUME NEW c \in Calls, d # c,
              \/ MergeStep(c) \/ ToolFails(c) \/ Dispatch(c)
              \/ OtherStep(c) /\ ~Reconcile(c)
       PROVE  CallFrame(d)
  <2> USE <1>0, <1>13 DEF CallFrame, Await, Keep, Done, Store
  <2>1. CASE DecideRequest(c) \/ ApproveMerge(c) \/ Validate(c) \/ Invalidate(c)
    BY <2>1 DEF DecideRequest, ApproveMerge, Validate, Invalidate
  <2>2. CASE ListOwners(c) \/ EnterLock(c) \/ InvalidateLocked(c) \/ CheckTarget(c)
    BY <2>2 DEF ListOwners, EnterLock, InvalidateLocked, CheckTarget, Abort
  <2>3. CASE RecordIntent(c) \/ InvalidateExecuting(c) \/ SpawnGit(c) \/ Observe(c)
    BY <2>3 DEF RecordIntent, InvalidateExecuting, SpawnGit, Observe
  <2>4. CASE SettleOperation(c) \/ AbortOperation(c) \/ AnnounceMerge(c) \/ CompleteMerge(c)
    BY <2>4 DEF SettleOperation, AbortOperation, AnnounceMerge, CompleteMerge, Abort
  <2>5. CASE ToolFails(c)
    BY <2>5 DEF ToolFails, Abort
  <2>6. CASE Dispatch(c)
    BY <2>6 DEF Dispatch, StartApprove, StartCancel, StartBuild, StartPreview, StartResolve
  <2>7. CASE OtherStep(c) /\ ~Reconcile(c)
    BY <2>7 DEF OtherStep, RequestCancel, SettleCancel, CandidateReady, PresentCandidate, InsertRequest,
       CachePreview, ResumePhase
  <2> QED BY <2>1, <2>2, <2>3, <2>4, <2>5, <2>6, <2>7 DEF MergeStep
<1>14. ASSUME NEW c \in Calls, d # c, Reconcile(c) PROVE CallFrame(d)
  <2>1. pc'[d] = pc[d] /\ call' = call
    BY <1>0, <1>14 DEF Reconcile, Keep, Done, Await
  <2>2. journal'[d].oid = journal[d].oid
        /\ (journal[d].status # "none" => journal'[d].status # "none")
    <3>1. CASE journal'[d] = journal[d]
      BY <3>1
    <3>2. CASE journal'[d] = [journal[d] EXCEPT
                 !.outcome = call[c].seen[d].outcome,
                 !.status = ReconciledStatus(call[c].seen[d].outcome)]
      BY <1>0, <3>2 DEF Entry, ReconciledStatus
    <3> QED BY <1>14, <3>1, <3>2 DEF Reconcile
  <2> QED BY <2>1, <2>2 DEF CallFrame
<1>15. ASSUME NEW c \in Calls, d = c,
              \/ DecideRequest(c) \/ ApproveMerge(c) \/ Invalidate(c) \/ InvalidateLocked(c)
              \/ AbortOperation(c) \/ CompleteMerge(c) \/ Dispatch(c)
              \/ OtherStep(c) /\ ~Reconcile(c)
       PROVE  CallFrame(d)
  <2> USE <1>0, <1>15 DEF CallFrame, Await, Keep, Done, Store, Merging, Locked
  <2>1. CASE DecideRequest(c) \/ ApproveMerge(c) \/ Invalidate(c) \/ InvalidateLocked(c)
    BY <2>1 DEF DecideRequest, ApproveMerge, Invalidate, InvalidateLocked
  <2>2. CASE AbortOperation(c) \/ CompleteMerge(c)
    BY <2>2 DEF AbortOperation, CompleteMerge, Abort
  <2>3. CASE Dispatch(c)
    <3>1. \A r \in requests : StartApprove(c, r) => pc'[c] \in {"validate", "decide"}
      BY DEF StartApprove
    <3>2. \A t \in Tasks : StartCancel(c, t) => pc'[c] = "cancel"
      BY DEF StartCancel
    <3>3. \A t \in Tasks : StartBuild(c, t) => pc'[c] = "build"
      BY DEF StartBuild
    <3>4. \A t \in Tasks : StartPreview(c, t) => pc'[c] = "preview"
      BY DEF StartPreview
    <3>5. \A t, decision, selected :
            StartResolve(c, t, decision, selected) => pc'[c] = "reconcile"
      BY DEF StartResolve
    <3>6. pc'[c] \in {"validate", "decide", "cancel", "build", "preview", "reconcile"}
      BY <2>3, <3>1, <3>2, <3>3, <3>4, <3>5 DEF Dispatch
    <3> QED BY <3>6
  <2>4. CASE RequestCancel(c) \/ SettleCancel(c) \/ CandidateReady(c) \/ PresentCandidate(c)
    <3>1. pc'[c] \in {"done", "settleCancel", "present", "request"}
      BY <2>4 DEF RequestCancel, SettleCancel, CandidateReady, PresentCandidate
    <3> QED BY <3>1
  <2>5. CASE InsertRequest(c) \/ CachePreview(c)
    BY <2>5 DEF InsertRequest, CachePreview
  <2>6. CASE ResumePhase(c)
    <3>1. pc'[c] \in {"request", "done"}
      BY <2>6 DEF ResumePhase
    <3> QED BY <3>1
  <2> QED BY <2>1, <2>2, <2>3, <2>4, <2>5, <2>6 DEF OtherStep
<1>16. ASSUME NEW c \in Calls, GitRuns(c) PROVE CallFrame(d)
  BY <1>16 DEF GitRuns, CallFrame
<1>17. ASSUME NEW t \in Tasks, RequestRevision(t) \/ MarkInterrupted(t) PROVE CallFrame(d)
  BY <1>17 DEF RequestRevision, MarkInterrupted, CallFrame
<1>18. Crash \/ Restart \/ WorkerReady \/ UserGit => CallFrame(d)
  BY DEF Crash, Restart, WorkerReady, UserGit, CallFrame, Merging, Locked
<1>19. ASSUME NEW c \in Calls, MergeStep(c) PROVE CallSafe(d)'
  BY <1>2, <1>3, <1>4, <1>5, <1>6, <1>7, <1>8, <1>9, <1>12, <1>13, <1>15, <1>19
     DEF MergeStep
<1>20. ASSUME NEW c \in Calls, OtherStep(c) PROVE CallSafe(d)'
  BY <1>11, <1>12, <1>13, <1>14, <1>15, <1>20
<1>21. ASSUME NEW c \in Calls, Dispatch(c) \/ ToolFails(c) PROVE CallSafe(d)'
  BY <1>10, <1>12, <1>13, <1>15, <1>21
<1> QED BY <1>12, <1>16, <1>17, <1>18, <1>19, <1>20, <1>21 DEF Next, CallStep

-----------------------------------------------------------------------------
(* Completion *)

\* A step that does not bring a task to Completed.
Uncompleting ==
  \A t \in Tasks : task'[t].state = "Completed" => task[t].state = "Completed"

LEMMA MoveStates ==
  ASSUME TypeInv, NEW t \in Tasks
  PROVE  /\ \A s \in TaskStates : Moved(task[t], s).state = s
         /\ Invalidated(t).state \in {"HumanApproval", task[t].state}
<1>1. task[t] \in TaskRecord
  BY DEF TypeInv, TypeOK
<1>2. \A s \in TaskStates : Moved(task[t], s).state = s
  BY <1>1, MovedIsATask
<1> QED BY <1>2, StatesAreStates DEF Invalidated

LEMMA WriteUncompleting ==
  ASSUME TypeInv, NEW t \in Tasks, NEW n, SetTask(t, n),
         n.state # "Completed" \/ n.state = task[t].state
  PROVE  Uncompleting
BY DEF TypeInv, TypeOK, SetTask, Uncompleting

LEMMA CompletedStep == ASSUME TypeInv, SafeInv, Next PROVE CompletedHasLanded'
<1>0. \A c \in Calls : On(c) \in Tasks
  BY DEF TypeInv, TypeOK, CallRecord, On
<1>1. landed \subseteq landed'
  BY HistoryStep
<1>2. Uncompleting => CompletedHasLanded'
  BY <1>1 DEF Uncompleting, SafeInv, CompletedHasLanded
<1>10. task' = task => Uncompleting
  BY DEF Uncompleting
<1>3. ASSUME NEW c \in Calls, CompleteMerge(c) PROVE CompletedHasLanded'
  <2>1. call[c].oid \in landed /\ call[c].oid \in OidsOf(On(c))
    BY <1>3 DEF CompleteMerge, At, SafeInv, CallSafe, Merging
  <2>2. \A t \in Tasks \ {On(c)} : task'[t] = task[t]
    BY <1>3 DEF CompleteMerge, SetTask, TypeInv, TypeOK
  <2> QED BY <1>1, <2>1, <2>2 DEF SafeInv, CompletedHasLanded, OidsOf
<1>4. ASSUME NEW c \in Calls, ResumePhase(c) PROVE CompletedHasLanded'
  <2>1. CASE task' = task
    BY <1>2, <2>1 DEF Uncompleting
  <2>2. CASE /\ Fresh(c) /\ At(c, "resume")
             /\ SetTask(On(c), [Moved(task[On(c)], ResumeTarget(c))
                                  EXCEPT !.interruptedFromState = NoPhase])
    <3>1. /\ task[On(c)] \in TaskRecord
          /\ task[On(c)].interruptedFromState \in Phases \ {NoPhase}
      BY <1>0, <2>2
         DEF TypeInv, TypeOK, ReadsAreCurrent, CurrentRead, StatesRead, PhaseIsRecorded,
         Reading, At, TaskRecord
    <3>2. ResumeTarget(c) \in TaskStates
      BY <3>1, StatesAreStates DEF ResumeTarget
    <3>3. Moved(task[On(c)], ResumeTarget(c)) \in TaskRecord
          /\ Moved(task[On(c)], ResumeTarget(c)).state = ResumeTarget(c)
      BY <3>1, <3>2, MovedIsATask
    <3>4. task'[On(c)].state = ResumeTarget(c)
          /\ \A t \in Tasks \ {On(c)} : task'[t] = task[t]
      BY <1>0, <2>2, <3>3 DEF SetTask, TypeInv, TypeOK, TaskRecord
    <3>5. "Completed" \notin Phases
      BY DEF Phases, NonTerminalStates, NoPhase
    <3>6. ResumeTarget(c) = "Completed" => \E d \in Calls : call[c].seen[d].outcome = "applied"
      BY <3>1, <3>5 DEF ResumeTarget
    <3>7. ResumeTarget(c) = "Completed" => landed \cap OidsOf(On(c)) # {}
      BY <2>2, <3>6 DEF At, SafeInv, CallSafe
    <3> QED BY <1>1, <3>4, <3>7 DEF SafeInv, CompletedHasLanded, OidsOf
  <2> QED BY <1>4, <2>1, <2>2 DEF ResumePhase
<1>5. ASSUME NEW c \in Calls, MergeStep(c), ~CompleteMerge(c) PROVE Uncompleting
  <2>1. CASE \/ ApproveMerge(c) \/ Invalidate(c) \/ ListOwners(c) \/ InvalidateLocked(c)
             \/ CheckTarget(c) \/ InvalidateExecuting(c) \/ AbortOperation(c)
    BY <1>0, <1>10, <2>1, MoveStates, StatesAreStates, WriteUncompleting
       DEF ApproveMerge, Invalidate, ListOwners, InvalidateLocked, CheckTarget,
           InvalidateExecuting, AbortOperation, Abort
  <2>2. CASE ~(\/ ApproveMerge(c) \/ Invalidate(c) \/ ListOwners(c) \/ InvalidateLocked(c)
               \/ CheckTarget(c) \/ InvalidateExecuting(c) \/ AbortOperation(c))
    BY <1>5, <1>10, <2>2 DEF MergeStep, DecideRequest, Validate, EnterLock, RecordIntent,
       SpawnGit, Observe, SettleOperation, AnnounceMerge
  <2> QED BY <2>1, <2>2
<1>6. ASSUME NEW c \in Calls, OtherStep(c), ~ResumePhase(c) PROVE Uncompleting
  <2>1. CASE RequestCancel(c) \/ SettleCancel(c) \/ PresentCandidate(c)
    BY <1>0, <1>10, <2>1, MoveStates, StatesAreStates, WriteUncompleting
       DEF RequestCancel, SettleCancel, PresentCandidate, CancelTarget
  <2>2. CASE CandidateReady(c)
    <3> DEFINE r == Moved(task[On(c)], "Candidate")
    <3>1. r \in TaskRecord /\ r.state = "Candidate"
      BY <1>0, MovedIsATask, StatesAreStates DEF TypeInv, TypeOK
    <3>2. [r EXCEPT !.activeCandidateId = @ + 1].state = "Candidate"
      BY <3>1 DEF TaskRecord
    <3> QED BY <1>0, <1>10, <2>2, <3>2, WriteUncompleting DEF CandidateReady
  <2>3. CASE ~(RequestCancel(c) \/ SettleCancel(c) \/ PresentCandidate(c) \/ CandidateReady(c))
    BY <1>6, <1>10, <2>3 DEF OtherStep, InsertRequest, CachePreview, Reconcile
  <2> QED BY <2>1, <2>2, <2>3
<1>7. ASSUME NEW c \in Calls, Dispatch(c) \/ ToolFails(c) \/ GitRuns(c) PROVE Uncompleting
  <2>1. CASE ToolFails(c)
    BY <1>0, <1>10, <2>1, MoveStates, StatesAreStates, WriteUncompleting
       DEF ToolFails, Abort
  <2>2. ASSUME NEW t \in Tasks, StartPreview(c, t) PROVE Uncompleting
    BY <1>10, <2>2, MoveStates, StatesAreStates, WriteUncompleting DEF StartPreview
  <2>3. CASE GitRuns(c) \/ (Dispatch(c) /\ ~ \E t \in Tasks : StartPreview(c, t))
    BY <1>10, <2>3 DEF GitRuns, Dispatch, StartApprove, StartCancel, StartBuild, StartResolve
  <2> QED BY <1>7, <2>1, <2>2, <2>3 DEF Dispatch
<1>8. ASSUME NEW t \in Tasks, RequestRevision(t) \/ MarkInterrupted(t) PROVE Uncompleting
  <2>1. CASE RequestRevision(t)
    BY <2>1, MoveStates, StatesAreStates, WriteUncompleting DEF RequestRevision
  <2>2. CASE MarkInterrupted(t)
    <3> DEFINE r == Moved(task[t], "Interrupted")
    <3>1. r \in TaskRecord /\ r.state = "Interrupted"
      BY MovedIsATask, StatesAreStates DEF TypeInv, TypeOK
    <3>2. [r EXCEPT !.interruptedFromState = LostPhase(task[t])].state = "Interrupted"
      BY <3>1 DEF TaskRecord
    <3> QED BY <2>2, <3>2, WriteUncompleting DEF MarkInterrupted
  <2> QED BY <1>8, <2>1, <2>2
<1>9. Crash \/ Restart \/ WorkerReady \/ UserGit => Uncompleting
  BY DEF Crash, Restart, WorkerReady, UserGit, Uncompleting
<1> QED BY <1>2, <1>3, <1>4, <1>5, <1>6, <1>7, <1>8, <1>9 DEF Next, CallStep

-----------------------------------------------------------------------------
(* The theorems *)

LEMMA SafeStep == ASSUME TypeInv, SafeInv, [Next]_vars PROVE SafeInv'
<1>1. CASE Next
  BY <1>1, CallSafeStep, EntryStep, HistoryStep, CompletedStep DEF SafeInv
<1>2. CASE UNCHANGED vars
  BY <1>2 DEF vars, approvals, repository, process, memory, SafeInv, CallSafe, EntrySafe,
     HistorySafe, CompletedHasLanded, On
<1> QED BY <1>1, <1>2

LEMMA SafeCorrect == Spec => []SafeInv
BY InitSafe, SafeStep, StrongTypeCorrect, PTL DEF Spec

(* Git never moves the target ref to a candidate no human approved, in any *)
(* interleaving of approvals, revisions, crashes, recoveries and the       *)
(* user's own git (FinalApprovalService, MergeService, GitManager).        *)
THEOREM OnlyApprovedLandsHolds == Spec => []OnlyApprovedLands
<1>1. SafeInv => OnlyApprovedLands
  BY DEF SafeInv, HistorySafe, OnlyApprovedLands
<1> QED BY <1>1, SafeCorrect, PTL

(* A task that was completed, by the merge or by a recovery, had one of    *)
(* its candidates on the target ref (mergeCompleted, RecoveryCoordinator). *)
THEOREM CompletedHasLandedHolds == Spec => []CompletedHasLanded
BY SafeCorrect, PTL DEF SafeInv

(* An operation the journal calls completed or applied moved the ref       *)
(* (JournaledOperationRunner, OperationJournal.reconcile).                 *)
THEOREM JournalIsTruthfulHolds == Spec => []JournalIsTruthful
<1>1. SafeInv => JournalIsTruthful
  BY DEF SafeInv, EntrySafe, JournalIsTruthful
<1> QED BY <1>1, SafeCorrect, PTL

-----------------------------------------------------------------------------
(* What holds while a call keeps the event loop *)

Held(c) ==
  /\ pc[c] \notin {"idle", "done"} => worker = "up"
  /\ pc[c] = "present" => busy = c /\ task[On(c)].state = "Candidate"
HeldInv == \A c \in Calls : Held(c)

\* A step of a call: it has the event loop, and moves its own counter only.
Turn(c) ==
  /\ worker = "up" /\ worker' = "up" /\ busy \in {NoCall, c}
  /\ \A d \in Calls \ {c} : pc'[d] = pc[d]

LEMMA TurnOfMerge == ASSUME TypeInv, NEW c \in Calls, MergeStep(c)
                     PROVE  Turn(c) /\ pc'[c] # "present"
<1> USE DEF TypeInv, TypeOK, Turn, At, Await, Keep, Done, process
<1>1. CASE DecideRequest(c) \/ ApproveMerge(c) \/ Validate(c) \/ Invalidate(c)
  BY <1>1 DEF DecideRequest, ApproveMerge, Validate, Invalidate
<1>2. CASE ListOwners(c) \/ EnterLock(c) \/ InvalidateLocked(c) \/ CheckTarget(c)
  BY <1>2 DEF ListOwners, EnterLock, InvalidateLocked, CheckTarget, Abort
<1>3. CASE RecordIntent(c) \/ InvalidateExecuting(c) \/ SpawnGit(c) \/ Observe(c)
  BY <1>3 DEF RecordIntent, InvalidateExecuting, SpawnGit, Observe
<1>4. CASE SettleOperation(c) \/ AbortOperation(c) \/ AnnounceMerge(c) \/ CompleteMerge(c)
  BY <1>4 DEF SettleOperation, AbortOperation, AnnounceMerge, CompleteMerge, Abort
<1> QED BY <1>1, <1>2, <1>3, <1>4 DEF MergeStep

LEMMA TurnOfOther == ASSUME TypeInv, NEW c \in Calls, OtherStep(c)
                     PROVE  Turn(c) /\ (pc'[c] = "present" => CandidateReady(c))
<1> USE DEF TypeInv, TypeOK, Turn, At, Await, Keep, Done, process
<1>1. CASE RequestCancel(c) \/ SettleCancel(c) \/ PresentCandidate(c) \/ InsertRequest(c)
             \/ CachePreview(c)
  BY <1>1 DEF RequestCancel, SettleCancel, PresentCandidate, InsertRequest, CachePreview
<1>2. CASE CandidateReady(c)
  BY <1>2 DEF CandidateReady
<1>3. CASE Reconcile(c) \/ ResumePhase(c)
  BY <1>3 DEF Reconcile, ResumePhase
<1> QED BY <1>1, <1>2, <1>3 DEF OtherStep

LEMMA TurnOfDispatch ==
  ASSUME TypeInv, NEW c \in Calls, Dispatch(c)
  PROVE  Turn(c) /\ pc'[c] # "present"
<1> USE DEF TypeInv, TypeOK, Turn, Free, Await, Keep, Done, process
<1> DEFINE Good == Turn(c) /\ pc'[c] # "present"
<1>1. ASSUME NEW r \in requests, StartApprove(c, r) PROVE Good
  BY <1>1 DEF StartApprove
<1>2. ASSUME NEW t \in Tasks, StartCancel(c, t) \/ StartBuild(c, t) \/ StartPreview(c, t)
      PROVE  Good
  BY <1>2 DEF StartCancel, StartBuild, StartPreview
<1>3. ASSUME NEW t, NEW decision, NEW selected, StartResolve(c, t, decision, selected)
      PROVE  Good
  BY <1>3 DEF StartResolve
<1> QED BY <1>1, <1>2, <1>3 DEF Dispatch

LEMMA TurnOfFailure == ASSUME TypeInv, NEW c \in Calls, ToolFails(c)
                       PROVE  Turn(c) /\ pc'[c] # "present"
BY DEF TypeInv, TypeOK, Turn, At, Await, Keep, Done, process, ToolFails, Abort

LEMMA CandidateStateAfter ==
  ASSUME TypeInv, NEW c \in Calls, CandidateReady(c), pc'[c] = "present"
  PROVE  busy' = c /\ task'[On(c)].state = "Candidate" /\ call' = call
<1>0. /\ pc \in [Calls -> Locations] /\ task \in [Tasks -> TaskRecord]
      /\ On(c) \in Tasks
  BY DEF TypeInv, TypeOK, CallRecord, On
<1> DEFINE r == Moved(task[On(c)], "Candidate")
<1>1. r \in TaskRecord /\ r.state = "Candidate"
  BY <1>0, MovedIsATask, StatesAreStates
<1>2. [r EXCEPT !.activeCandidateId = @ + 1].state = "Candidate"
  BY <1>1 DEF TaskRecord
<1>3. busy' = c /\ call' = call
      /\ SetTask(On(c), [r EXCEPT !.activeCandidateId = @ + 1])
  BY <1>0 DEF CandidateReady, Keep, Done, Await
<1> HIDE DEF r
<1> QED BY <1>0, <1>2, <1>3 DEF SetTask

LEMMA HeldStep == ASSUME TypeInv, HeldInv, Next PROVE HeldInv'
<1> SUFFICES ASSUME NEW d \in Calls PROVE Held(d)'
  BY DEF HeldInv
<1>0. pc \in [Calls -> Locations] /\ Held(d) /\ On(d) \in Tasks
  BY DEF TypeInv, TypeOK, HeldInv, CallRecord, On
<1>1. ASSUME NEW c \in Calls, d # c, Turn(c) PROVE Held(d)'
  BY <1>0, <1>1 DEF Turn, Held
<1>2. ASSUME Turn(d), pc'[d] # "present" PROVE Held(d)'
  BY <1>2 DEF Turn, Held
<1>3. ASSUME NEW c \in Calls, MergeStep(c) \/ ToolFails(c) PROVE Held(d)'
  BY <1>1, <1>2, <1>3, TurnOfMerge, TurnOfFailure
<1>4. ASSUME NEW c \in Calls, OtherStep(c) PROVE Held(d)'
  <2>1. CASE pc'[c] = "present" /\ d = c
    BY <1>4, <2>1, TurnOfOther, CandidateStateAfter DEF Turn, Held, On
  <2> QED BY <1>1, <1>2, <1>4, <2>1, TurnOfOther
<1>5. ASSUME NEW c \in Calls, Dispatch(c) PROVE Held(d)'
  BY <1>1, <1>2, <1>5, TurnOfDispatch
<1>6. ASSUME NEW c \in Calls, GitRuns(c) PROVE Held(d)'
  BY <1>0, <1>6 DEF GitRuns, process, Held, On
<1>7. ASSUME NEW t \in Tasks, RequestRevision(t) PROVE Held(d)'
  BY <1>0, <1>7 DEF RequestRevision, process, Held
<1>8. ASSUME NEW t \in Tasks, MarkInterrupted(t) PROVE Held(d)'
  BY <1>0, <1>8 DEF MarkInterrupted, process, Held
<1>9. CASE Crash
  BY <1>0, <1>9 DEF Crash, Held
<1>10. CASE Restart \/ WorkerReady
  BY <1>0, <1>10 DEF Restart, WorkerReady, Held
<1>11. CASE UserGit
  BY <1>0, <1>11 DEF UserGit, process, Held, On
<1> QED BY <1>3, <1>4, <1>5, <1>6, <1>7, <1>8, <1>9, <1>10, <1>11 DEF Next, CallStep

LEMMA InitHeld == Init => HeldInv
BY DEF Init, HeldInv, Held

LEMMA HeldStutters == HeldInv /\ UNCHANGED vars => HeldInv'
BY DEF HeldInv, Held, vars, process, On

LEMMA HeldCorrect == Spec => []HeldInv
<1>1. TypeInv /\ HeldInv /\ [Next]_vars => HeldInv'
  BY HeldStep, HeldStutters
<1> QED BY <1>1, InitHeld, StrongTypeCorrect, PTL DEF Spec

-----------------------------------------------------------------------------
(* The transitions of the state machine *)

\* No two moves of the closing switch share state and action.
LEMMA PlainMovesAgree ==
  ASSUME NEW x \in PlainMoves, NEW y \in PlainMoves, x[1] = y[1], x[2] = y[2]
  PROVE  x = y
BY DEF PlainMoves

\* The step of t is one the state machine allows.
LegalMove(r, n) == \E a \in Actions : Legal(r, a) /\ n = After(r, a)

LEMMA PlainMoveIsLegal ==
  ASSUME NEW r, NEW type, NEW s, <<r.state, type, s>> \in PlainMoves,
         type \in {"requestHumanApproval", "approveMerge", "mergeCompleted",
                  "approvalInvalidated", "cancelSettled", "beginReconciliation"}
  PROVE  LegalMove(r, Moved(r, s))
<1> DEFINE a == [type |-> type] 
           m == <<r.state, type, s>>
<1>1. a \in Actions
  BY DEF Actions
<1>2. m \in PlainMoves /\ m[1] = r.state /\ m[2] = a.type /\ m[3] = s
  OBVIOUS
<1>3. r.state \notin TerminalStates
  BY DEF PlainMoves, TerminalStates
<1>4. Legal(r, a)
  BY <1>2, <1>3 DEF Legal
<1>5. (CHOOSE x \in PlainMoves : x[1] = r.state /\ x[2] = a.type) = m
  BY <1>2, PlainMovesAgree
<1>6. After(r, a) = Moved(r, s)
  BY <1>2, <1>5 DEF After
<1> QED BY <1>1, <1>4, <1>6 DEF LegalMove

LEMMA CancelIsLegal ==
  ASSUME NEW r, r.state \notin TerminalStates PROVE LegalMove(r, Moved(r, CancelTarget(r)))
<1>1. [type |-> "cancel"] \in Actions /\ Legal(r, [type |-> "cancel"])
  BY DEF Actions, Legal
<1>2. After(r, [type |-> "cancel"]) = Moved(r, CancelTarget(r))
  BY DEF After
<1> QED BY <1>1, <1>2 DEF LegalMove

LEMMA CandidateIsLegal ==
  ASSUME NEW r \in TaskRecord, r.state = "Revision", r.activeCandidateId < MaxCand
  PROVE  LegalMove(r, [Moved(r, "Candidate") EXCEPT !.activeCandidateId = @ + 1])
<1> DEFINE k == r.activeCandidateId + 1
           a == [type |-> "candidateReady", candidateId |-> k]
<1>1. k \in 1 .. MaxCand
  BY DEF TaskRecord
<1>2. a \in Actions
  BY <1>1 DEF Actions
<1>3. Legal(r, a)
  BY DEF Legal, PlainMoves, TerminalStates
<1>4. After(r, a) = [Moved(r, "Candidate") EXCEPT !.activeCandidateId = k]
  BY DEF After
<1>5. Moved(r, "Candidate").activeCandidateId = r.activeCandidateId
      /\ Moved(r, "Candidate") \in TaskRecord
  BY MovedIsATask, StatesAreStates
<1>6. [Moved(r, "Candidate") EXCEPT !.activeCandidateId = @ + 1]
        = [Moved(r, "Candidate") EXCEPT !.activeCandidateId = k]
  BY <1>5
<1> HIDE DEF a, k
<1> QED BY <1>2, <1>3, <1>4, <1>6 DEF LegalMove

LEMMA LossIsLegal ==
  ASSUME NEW r, r.state \notin TerminalStates
  PROVE  LegalMove(r, [Moved(r, "Interrupted") EXCEPT !.interruptedFromState = LostPhase(r)])
<1>1. [type |-> "processLoss"] \in Actions /\ Legal(r, [type |-> "processLoss"])
  BY DEF Actions, Legal
<1>2. After(r, [type |-> "processLoss"])
        = [Moved(r, "Interrupted") EXCEPT !.interruptedFromState = LostPhase(r)]
  BY DEF After
<1> QED BY <1>1, <1>2 DEF LegalMove

LEMMA RevisionIsLegal ==
  ASSUME NEW r \in TaskRecord, r.state = "HumanApproval"
  PROVE  LegalMove(r, Moved(r, "Revision"))
<1> DEFINE a == [type |-> "requestHumanRevision"]
           n == Moved(r, "Revision")
<1>1. a \in Actions /\ Legal(r, a)
  BY DEF Actions, Legal, TerminalStates
<1>2. n \in TaskRecord
  BY MovedIsATask, StatesAreStates
<1>3. After(r, a) = [n EXCEPT !.humanRevisionCount = @ + 1, !.revisionKind = "human_directed"]
  BY DEF After
<1>4. \A x, y : [n EXCEPT !.humanRevisionCount = x, !.revisionKind = y] = n
  BY <1>2 DEF TaskRecord
<1>5. After(r, a) = n
  BY <1>3, <1>4
<1> QED BY <1>1, <1>5 DEF LegalMove

LEMMA ResumeIsLegal ==
  ASSUME NEW r, r.state = "Reconciling", NEW s \in TaskStates,
         s \in ReconciliationOutcomes \cup {r.interruptedFromState}
  PROVE  LegalMove(r, [Moved(r, s) EXCEPT !.interruptedFromState = NoPhase])
<1> DEFINE a == [type |-> "resumeRecordedPhase", target |-> s]
<1>1. a \in Actions
  BY DEF Actions
<1>2. s # NoPhase
  BY DEF TaskStates, NonTerminalStates, TerminalStates, NoPhase
<1>3. Legal(r, a)
  BY <1>2 DEF Legal, TerminalStates
<1>4. After(r, a) = [Moved(r, s) EXCEPT !.interruptedFromState = NoPhase]
  BY DEF After
<1> QED BY <1>1, <1>3, <1>4 DEF LegalMove

\* A step that writes a task moves one task as the state machine allows, and
\* writes neither the approvals nor the repository.
TaskWrite ==
  \E t \in Tasks :
    /\ task' = [task EXCEPT ![t] = task'[t]]
    /\ LegalMove(task[t], task'[t])
    /\ UNCHANGED <<target, granted, published, landed>>
WriteStep == task' = task \/ TaskWrite

LEMMA WriteIsLegal ==
  ASSUME TypeInv, NEW t \in Tasks, NEW n, SetTask(t, n),
         n = task[t] \/ LegalMove(task[t], n), UNCHANGED <<target, granted, published, landed>>
  PROVE  WriteStep
<1>1. task \in [Tasks -> TaskRecord] /\ task' = [task EXCEPT ![t] = n] /\ task'[t] = n
  BY DEF TypeInv, TypeOK, SetTask
<1>2. CASE n = task[t]
  BY <1>1, <1>2 DEF WriteStep
<1>3. CASE LegalMove(task[t], n)
  BY <1>1, <1>3 DEF WriteStep, TaskWrite
<1> QED BY <1>2, <1>3

LEMMA InvalidatedIsLegal ==
  ASSUME NEW t \in Tasks
  PROVE  Invalidated(t) = task[t] \/ LegalMove(task[t], Invalidated(t))
<1>1. {<<"Merging", "approvalInvalidated", "HumanApproval">>,
       <<"HumanApproval", "approvalInvalidated", "HumanApproval">>} \subseteq PlainMoves
  BY DEF PlainMoves
<1> QED BY <1>1, PlainMoveIsLegal DEF Invalidated

LEMMA AbortIsLegal ==
  ASSUME TypeInv, NEW c \in Calls, Abort(c), UNCHANGED <<target, granted, published, landed>>
  PROVE  WriteStep
<1>1. On(c) \in Tasks
  BY DEF TypeInv, TypeOK, CallRecord, On
<1>2. task[On(c)].state = "Merging" => LegalMove(task[On(c)], Moved(task[On(c)], "HumanApproval"))
  BY InvalidatedIsLegal, PlainMoveIsLegal DEF PlainMoves
<1> QED BY <1>1, <1>2, WriteIsLegal DEF Abort

LEMMA MoveStep == ASSUME TypeInv, HeldInv, Next PROVE WriteStep
<1>0. /\ task \in [Tasks -> TaskRecord] /\ \A c \in Calls : On(c) \in Tasks
      /\ call \in [Calls -> CallRecord]
  BY DEF TypeInv, TypeOK, CallRecord, On
<1> DEFINE Aside == UNCHANGED <<target, granted, published, landed>>
<1>2. ASSUME NEW c \in Calls, ApproveMerge(c) PROVE WriteStep
  <2>1. Fresh(c) /\ At(c, "approveMerge") => task[On(c)].state = "HumanApproval"
    BY DEF TypeInv, ReadsAreCurrent, CurrentRead, StatesRead, Reading, At
  <2>2. <<"HumanApproval", "approveMerge", "Merging">> \in PlainMoves
    BY DEF PlainMoves
  <2>3. Aside
    BY <1>2 DEF ApproveMerge, approvals, repository
  <2> QED BY <1>0, <1>2, <2>1, <2>2, <2>3, PlainMoveIsLegal, WriteIsLegal
             DEF ApproveMerge, WriteStep
<1>3. ASSUME NEW c \in Calls,
             Invalidate(c) \/ InvalidateLocked(c) \/ InvalidateExecuting(c) \/ ListOwners(c)
      PROVE  WriteStep
  <2>1. Aside
    BY <1>3 DEF Invalidate, InvalidateLocked, InvalidateExecuting, ListOwners, approvals,
       repository
  <2> QED BY <1>0, <1>3, <2>1, InvalidatedIsLegal, WriteIsLegal
          DEF Invalidate, InvalidateLocked, InvalidateExecuting, ListOwners, WriteStep
<1>4. ASSUME NEW c \in Calls, CheckTarget(c) \/ AbortOperation(c) \/ ToolFails(c)
      PROVE  WriteStep
  <2>1. Aside
    BY <1>4 DEF CheckTarget, AbortOperation, ToolFails, approvals, repository
  <2> QED BY <1>4, <2>1, AbortIsLegal DEF CheckTarget, AbortOperation, ToolFails, WriteStep
<1>5. ASSUME NEW c \in Calls, CompleteMerge(c) PROVE WriteStep
  <2>1. <<"Merging", "mergeCompleted", "Completed">> \in PlainMoves
    BY DEF PlainMoves
  <2>2. Aside
    BY <1>5 DEF CompleteMerge, approvals, repository
  <2> QED BY <1>0, <1>5, <2>1, <2>2, PlainMoveIsLegal, WriteIsLegal DEF CompleteMerge
<1>6. ASSUME NEW c \in Calls, RequestCancel(c) PROVE WriteStep
  <2>1. Aside
    BY <1>6 DEF RequestCancel, approvals, repository
  <2>2. Fresh(c) /\ At(c, "cancel") => task[On(c)].state \notin TerminalStates
    BY DEF TypeInv, ReadsAreCurrent, CurrentRead, StatesRead, Reading, At
  <2> QED BY <1>0, <1>6, <2>1, <2>2, CancelIsLegal, WriteIsLegal DEF RequestCancel, WriteStep
<1>7. ASSUME NEW c \in Calls, SettleCancel(c) PROVE WriteStep
  <2>1. Fresh(c) /\ At(c, "settleCancel") => task[On(c)].state = "CancelRequested"
    BY DEF TypeInv, ReadsAreCurrent, CurrentRead, StatesRead, Reading, At
  <2>2. <<"CancelRequested", "cancelSettled", "Cancelled">> \in PlainMoves
    BY DEF PlainMoves
  <2>3. Aside
    BY <1>7 DEF SettleCancel, approvals, repository
  <2> QED BY <1>0, <1>7, <2>1, <2>2, <2>3, PlainMoveIsLegal, WriteIsLegal
          DEF SettleCancel, WriteStep
<1>8. ASSUME NEW c \in Calls, PresentCandidate(c) PROVE WriteStep
  <2>1. task[On(c)].state = "Candidate"
    BY <1>8 DEF PresentCandidate, At, HeldInv, Held
  <2>2. <<"Candidate", "requestHumanApproval", "HumanApproval">> \in PlainMoves
    BY DEF PlainMoves
  <2>3. Aside
    BY <1>8 DEF PresentCandidate, approvals, repository
  <2> QED BY <1>0, <1>8, <2>1, <2>2, <2>3, PlainMoveIsLegal, WriteIsLegal
             DEF PresentCandidate
<1>9. ASSUME NEW t \in Tasks, RequestRevision(t) PROVE WriteStep
  <2>1. Aside
    BY <1>9 DEF RequestRevision, approvals, repository
  <2> QED BY <1>0, <1>9, <2>1, RevisionIsLegal, WriteIsLegal DEF RequestRevision
<1>10. ASSUME NEW c \in Calls, CandidateReady(c) PROVE WriteStep
  <2>1. Fresh(c) /\ At(c, "build") =>
          task[On(c)].state = "Revision" /\ task[On(c)].activeCandidateId < MaxCand
    BY DEF TypeInv, ReadsAreCurrent, CurrentRead, StatesRead, Reading, At
  <2>2. Aside
    BY <1>10 DEF CandidateReady, approvals, repository
  <2> QED BY <1>0, <1>10, <2>1, <2>2, CandidateIsLegal, WriteIsLegal
             DEF CandidateReady, WriteStep
<1>11. ASSUME NEW t \in Tasks, MarkInterrupted(t) PROVE WriteStep
  <2>1. Aside
    BY <1>11 DEF MarkInterrupted, approvals, repository
  <2>2. task[t].state \notin TerminalStates
    BY <1>11 DEF MarkInterrupted, Interruptible
  <2> QED BY <1>0, <1>11, <2>1, <2>2, LossIsLegal, WriteIsLegal DEF MarkInterrupted
<1>12. ASSUME NEW c \in Calls, NEW t \in Tasks, StartPreview(c, t) PROVE WriteStep
  <2>1. <<"Interrupted", "beginReconciliation", "Reconciling">> \in PlainMoves
    BY DEF PlainMoves
  <2>2. Aside
    BY <1>12 DEF StartPreview, approvals, repository
  <2> QED BY <1>12, <2>1, <2>2, PlainMoveIsLegal, WriteIsLegal DEF StartPreview, WriteStep
<1>13. ASSUME NEW c \in Calls, ResumePhase(c) PROVE WriteStep
  <2>1. Aside
    BY <1>13 DEF ResumePhase, approvals, repository
  <2>2. CASE Fresh(c) /\ At(c, "resume")
    <3>1. task[On(c)].state = "Reconciling"
      BY <2>2 DEF TypeInv, ReadsAreCurrent, CurrentRead, StatesRead, Reading, At
    <3>2. task[On(c)].interruptedFromState \in TaskStates
      BY <1>0, <3>1, StatesAreStates DEF TypeInv, PhaseIsRecorded, TaskRecord
    <3>3. /\ ResumeTarget(c) \in TaskStates
          /\ ResumeTarget(c) \in ReconciliationOutcomes \cup {task[On(c)].interruptedFromState}
      BY <3>2, StatesAreStates DEF ResumeTarget, ReconciliationOutcomes
    <3> QED BY <1>0, <1>13, <2>1, <3>1, <3>3, ResumeIsLegal, WriteIsLegal
            DEF ResumePhase, WriteStep
  <2> QED BY <1>13, <2>2 DEF ResumePhase, WriteStep
<1>14. ASSUME NEW c \in Calls, MergeStep(c) PROVE WriteStep
  <2>1. CASE \/ DecideRequest(c) \/ Validate(c) \/ EnterLock(c) \/ RecordIntent(c)
             \/ SpawnGit(c) \/ Observe(c) \/ SettleOperation(c) \/ AnnounceMerge(c)
    BY <2>1
       DEF WriteStep, DecideRequest, Validate, EnterLock, RecordIntent, SpawnGit, Observe,
       SettleOperation, AnnounceMerge
  <2> QED BY <1>2, <1>3, <1>4, <1>5, <1>14, <2>1 DEF MergeStep
<1>15. ASSUME NEW c \in Calls, OtherStep(c) PROVE WriteStep
  <2>1. CASE InsertRequest(c) \/ CachePreview(c) \/ Reconcile(c)
    BY <2>1 DEF WriteStep, InsertRequest, CachePreview, Reconcile
  <2> QED BY <1>6, <1>7, <1>8, <1>10, <1>13, <1>15, <2>1 DEF OtherStep
<1>16. ASSUME NEW c \in Calls, Dispatch(c) PROVE WriteStep
  <2>1. ASSUME NEW r \in requests, StartApprove(c, r) PROVE WriteStep
    BY <2>1 DEF StartApprove, WriteStep
  <2>2. ASSUME NEW t \in Tasks, StartBuild(c, t) \/ StartCancel(c, t) PROVE WriteStep
    BY <2>2 DEF StartBuild, StartCancel, WriteStep
  <2>3. ASSUME NEW t, NEW decision, NEW selected, StartResolve(c, t, decision, selected)
        PROVE  WriteStep
    BY <2>3 DEF StartResolve, WriteStep
  <2> QED BY <1>12, <1>16, <2>1, <2>2, <2>3 DEF Dispatch
<1>17. ASSUME NEW c \in Calls, GitRuns(c) PROVE WriteStep
  BY <1>17 DEF GitRuns, WriteStep
<1>18. Crash \/ Restart \/ WorkerReady \/ UserGit => WriteStep
  BY DEF Crash, Restart, WorkerReady, UserGit, WriteStep
<1> QED BY <1>4, <1>9, <1>11, <1>14, <1>15, <1>16, <1>17, <1>18 DEF Next, CallStep

(* Every change of a task record is one transitionTask allows, for every   *)
(* caller and every interleaving of their awaits (TaskRepository           *)
(* .applyTransition and the services that call it).                        *)
THEOREM MovesAreLegalHolds == Spec => MovesAreLegal
<1> DEFINE Move == \A t \in Tasks : task'[t] # task[t] =>
                     \E a \in Actions : Legal(task[t], a) /\ task'[t] = After(task[t], a)
<1>1. TypeInv /\ HeldInv /\ [Next]_vars => [Move]_vars
  <2> SUFFICES ASSUME TypeInv, HeldInv, Next PROVE Move
    OBVIOUS
  <2>1. task \in [Tasks -> TaskRecord] /\ WriteStep
    BY MoveStep DEF TypeInv, TypeOK
  <2> QED BY <2>1 DEF WriteStep, TaskWrite, LegalMove
<1>2. Spec => [][Move]_vars
  BY <1>1, StrongTypeCorrect, HeldCorrect, PTL DEF Spec
<1> QED BY <1>2 DEF MovesAreLegal

-----------------------------------------------------------------------------
(* The final merge implements what it promises.  The mapping keeps the      *)
(* target and the three histories as they are and reads the phase of a task   *)
(* off its state.  A step of FinalMerge that writes a task, decides a       *)
(* request or moves the ref maps to the step of PublishedTarget of the same *)
(* effect; every other step stutters.  The guards of those steps come from  *)
(* the invariants: the oid a git process carries was granted (EntrySafe), a *)
(* completed task has a landed candidate (CompletedHasLanded), a closed     *)
(* task is never written again (WriteStep).                                 *)

PhaseOf == [t \in Tasks |-> Phase(t)]

LEMMA SamePhase == ASSUME task' = task PROVE PhaseOf' = PhaseOf
BY DEF PhaseOf, Phase

LEMMA InitImplements == Init => Published!Init
BY DEF Init, Published!Init, Phase

LEMMA WriteImplements ==
  ASSUME TypeInv, TaskWrite, CompletedHasLanded'
  PROVE  Published!Next \/ UNCHANGED Published!vars
<1> PICK t \in Tasks : /\ task' = [task EXCEPT ![t] = task'[t]]
                       /\ LegalMove(task[t], task'[t])
                       /\ UNCHANGED <<target, granted, published, landed>>
  BY DEF TaskWrite
<1>1. task[t].state \notin TerminalStates /\ Phase(t) = "open"
  BY DEF LegalMove, Legal, Phase, TerminalStates
<1>2. PhaseOf' = [PhaseOf EXCEPT ![t] = Phase(t)']
  BY DEF PhaseOf, Phase, TypeInv, TypeOK
<1>3. CASE Phase(t)' = "open"
  <2>1. PhaseOf[t] = Phase(t)
    BY DEF PhaseOf
  <2>2. [PhaseOf EXCEPT ![t] = PhaseOf[t]] = PhaseOf
    BY DEF PhaseOf
  <2>3. PhaseOf' = PhaseOf
    BY <1>1, <1>2, <1>3, <2>1, <2>2
  <2> QED BY <2>3 DEF Published!vars, PhaseOf
<1>4. CASE Phase(t)' = "completed"
  <2>1. Published!Owned(t) \cap landed # {}
    BY <1>4 DEF CompletedHasLanded, Phase, Published!Owned
  <2>2. Published!Complete(t)
    BY <1>1, <1>2, <1>4, <2>1 DEF Published!Complete, PhaseOf
  <2> QED BY <2>2 DEF Published!Next
<1>5. CASE Phase(t)' = "closed"
  <2>1. Published!Close(t)
    BY <1>1, <1>2, <1>5 DEF Published!Close, PhaseOf
  <2> QED BY <2>1 DEF Published!Next
<1> QED BY <1>3, <1>4, <1>5 DEF Phase

LEMMA DecideImplements ==
  ASSUME TypeInv, NEW c \in Calls, DecideRequest(c)
  PROVE  Published!Next \/ UNCHANGED Published!vars
<1>1. call[c].receipt \in Candidates
  BY DEF TypeInv, TypeOK, CallRecord
<1>2. UNCHANGED <<target, published, landed>> /\ PhaseOf' = PhaseOf
  BY SamePhase DEF DecideRequest, repository
<1>3. granted' = granted \/ granted' = granted \cup {call[c].receipt}
  BY DEF DecideRequest, approvals
<1>4. CASE granted' = granted
  BY <1>2, <1>4 DEF Published!vars, PhaseOf
<1>5. CASE granted' = granted \cup {call[c].receipt}
  <2>1. Published!Grant(call[c].receipt)
    BY <1>2, <1>5 DEF Published!Grant, PhaseOf
  <2> QED BY <1>1, <2>1 DEF Published!Next, Published!Candidates, Candidates
<1> QED BY <1>3, <1>4, <1>5

LEMMA GitImplements ==
  ASSUME TypeInv, SafeInv, NEW c \in Calls, GitRuns(c)
  PROVE  Published!Next \/ UNCHANGED Published!vars
<1> DEFINE o == journal[c].oid
<1>1. o \in granted /\ o \in Candidates
  BY DEF GitRuns, SafeInv, EntrySafe, TypeInv, TypeOK
<1>2. granted' = granted /\ PhaseOf' = PhaseOf
  BY SamePhase DEF GitRuns, approvals
<1>3. CASE /\ GitMoves(c)
           /\ target' = o /\ published' = published \cup {o} /\ landed' = landed \cup {o}
  <2>1. target = Base \/ target \in Ancestors[o]
    BY <1>3 DEF GitMoves
  <2>2. Published!Land(o)
    BY <1>1, <1>2, <1>3, <2>1 DEF Published!Land, PhaseOf
  <2> QED BY <1>1, <2>2 DEF Published!Next, Published!Candidates, Candidates
<1>4. CASE UNCHANGED <<target, published, landed>>
  BY <1>2, <1>4 DEF Published!vars, PhaseOf
<1> QED BY <1>3, <1>4 DEF GitRuns

LEMMA UserGitImplements ==
  ASSUME UserGit PROVE Published!Next \/ UNCHANGED Published!vars
<1>1. UNCHANGED <<granted, published>> /\ PhaseOf' = PhaseOf
  BY SamePhase DEF UserGit, approvals
<1>2. CASE target' \in Existing /\ landed' = landed \cup ({target'} \cap Candidates)
  <2>1. Published!Drift(target')
    BY <1>1, <1>2 DEF Published!Drift, Published!Candidates, Candidates, PhaseOf
  <2>2. target' \in Published!Candidates \cup {Base} \cup Others
    BY <1>2 DEF Existing, Oids, Published!Candidates, Candidates
  <2> QED BY <2>1, <2>2 DEF Published!Next
<1>3. CASE UNCHANGED <<target, landed>>
  BY <1>1, <1>3 DEF Published!vars, PhaseOf
<1> QED BY <1>2, <1>3 DEF UserGit

\* A step that neither decides a request nor moves the ref nor writes a task.
LEMMA QuietStep ==
  ASSUME Next, task' = task
  PROVE  \/ \E c \in Calls : DecideRequest(c) \/ GitRuns(c)
         \/ UserGit
         \/ UNCHANGED Published!vars
<1>1. PhaseOf' = PhaseOf
  BY SamePhase
<1>2. Restart => UNCHANGED <<granted, target, published, landed>>
  BY DEF Restart, repository
<1> QED BY <1>1, <1>2, WhoGrants, WhoMovesTheRef DEF Published!vars, PhaseOf

LEMMA StepImplements ==
  ASSUME TypeInv, HeldInv, SafeInv, SafeInv', [Next]_vars
  PROVE  [Published!Next]_(Published!vars)
<1>1. CASE Next
  <2>1. CASE TaskWrite
    BY <2>1, WriteImplements DEF SafeInv
  <2>2. CASE task' = task
    BY <1>1, <2>2, QuietStep, DecideImplements, GitImplements, UserGitImplements
  <2> QED BY <1>1, <2>1, <2>2, MoveStep DEF WriteStep
<1>2. CASE UNCHANGED vars
  <2>1. PhaseOf' = PhaseOf /\ UNCHANGED <<target, granted, published, landed>>
    BY <1>2, SamePhase DEF vars, approvals, repository
  <2> QED BY <2>1 DEF Published!vars, PhaseOf
<1> QED BY <1>1, <1>2

(* What the component promises holds of every run, with every interleaving  *)
(* of its calls, crash, restart and recovery: Spec implements               *)
(* PublishedTarget.                                                         *)
THEOREM Implementation == Spec => ImplementsPublishedTarget
<1>1. TypeInv /\ HeldInv /\ SafeInv /\ SafeInv' /\ [Next]_vars => [Published!Next]_(Published!vars)
  BY StepImplements
<1> QED BY <1>1, InitImplements, StrongTypeCorrect, HeldCorrect, SafeCorrect, PTL
        DEF Spec, ImplementsPublishedTarget, Published!Spec
=============================================================================
