----------------------- MODULE WorkerSupervisor_proofs -----------------------
(***************************************************************************)
(* Proofs about WorkerSupervisor for every set of generations and          *)
(* requests and every bound: its type invariant, the uniqueness of the     *)
(* database owner and the protection of the lease.                         *)
(***************************************************************************)
EXTENDS WorkerSupervisor, TLAPS

USE SupervisorAssumption DEF SupervisorAssumption

Messages == {"ready", "rejected", Quit} \cup Requests
Records == [status : Statuses, generation : Generations \cup {None}]
Boxes == [Generations -> Seq(Messages)]

Rows == [owner : Generations \cup {None, Previous}, fresh : BOOLEAN]

LEMMA RowsAreTyped ==
  /\ NoLease \in Rows
  /\ \A g \in Generations \cup {Previous} : [owner |-> g, fresh |-> TRUE] \in Rows
  /\ \A row \in Rows, b \in BOOLEAN : [row EXCEPT !.fresh = b] \in Rows
BY DEF Rows, NoLease

LEMMA SettledIsTyped ==
  ASSUME request \in [Requests -> Records], NEW reason \in Statuses
  PROVE  Settled(reason) \in [Requests -> Records]
<1>1. \A r \in Requests : [request[r] EXCEPT !.status = reason] \in Records
  BY DEF Records
<1> QED BY <1>1 DEF Settled, Waiting

LEMMA NextBackoffIsTyped ==
  ASSUME NEW i \in 0 .. LastBackoff PROVE NextBackoff(i) \in 0 .. LastBackoff
BY DEF NextBackoff

LEMMA ReadIsTyped ==
  ASSUME outbox \in Boxes, active \in Generations, outbox[active] # <<>>, Read
  PROVE  outbox' \in Boxes
<1>1. Tail(outbox[active]) \in Seq(Messages)
  BY DEF Boxes
<1> QED BY <1>1 DEF Read, Boxes

LEMMA PostIsTyped ==
  ASSUME outbox \in Boxes, NEW g \in Generations, NEW m \in Messages, Post(g, m)
  PROVE  outbox' \in Boxes
<1>1. Append(outbox[g], m) \in Seq(Messages)
  BY DEF Boxes
<1> QED BY <1>1 DEF Post, Boxes

LEMMA ForgottenIsTyped ==
  ASSUME outbox \in Boxes, NEW g PROVE [outbox EXCEPT ![g] = <<>>] \in Boxes
<1>1. <<>> \in Seq(Messages)
  OBVIOUS
<1> QED BY <1>1 DEF Boxes

Typed ==
  /\ state \in {"idle", "starting", "ready", "stopping", "stopped"}
  /\ active \in Generations \cup {None}
  /\ start \in {"none", "pending", "resolved", "rejected"}
  /\ restartIndex \in 0 .. LastBackoff
  /\ timers \subseteq {"restart", "handshake", "stable", "deadline"}
  /\ request \in [Requests -> Records]
  /\ seen \in {"none", "ready", "disconnected", "rejected"}
  /\ child \in [Generations -> {"dead", "forked", "starting", "serving", "deaf"}]
  /\ killed \subseteq Generations
  /\ inbox \in [Generations -> SUBSET (Requests \cup {Quit})]
  /\ outbox \in Boxes
  /\ lease \in Rows
  /\ faults \in 0 .. MaxFaults /\ stalls \in 0 .. MaxStalls

\* While the deadline of stop is armed, the child it will detach is attached.
DeadlineAttached ==
  "deadline" \in timers => timers = {"deadline"} /\ Ending /\ active \in Generations
IInv == Typed /\ DeadlineAttached

LEMMA TypedIsTypeOK == Typed <=> TypeOK
BY DEF Typed, TypeOK, Records, Boxes, Messages, Rows

LEMMA TypedInit == Init => Typed
<1> SUFFICES ASSUME Init PROVE Typed
  OBVIOUS
<1>1. <<>> \in Seq(Messages)
  OBVIOUS
<1>2. outbox \in Boxes
  BY <1>1 DEF Init, Boxes
<1>3. [status |-> "unsent", generation |-> None] \in Records
  BY DEF Records, Statuses
<1>4. request \in [Requests -> Records]
  BY <1>3 DEF Init
<1>5. restartIndex \in 0 .. LastBackoff /\ faults \in 0 .. MaxFaults /\ stalls \in 0 .. MaxStalls
  BY DEF Init
<1>6. lease \in Rows
  BY RowsAreTyped DEF Init
<1>7. /\ child \in [Generations -> {"dead", "forked", "starting", "serving", "deaf"}]
      /\ inbox \in [Generations -> SUBSET (Requests \cup {Quit})]
  BY DEF Init
<1> QED BY <1>2, <1>4, <1>5, <1>6, <1>7 DEF Init, Typed

LEMMA FaultIsTyped ==
  ASSUME faults \in 0 .. MaxFaults, Fault PROVE faults' \in 0 .. MaxFaults
BY DEF Fault

LEMMA ScheduleIsTyped ==
  ASSUME Typed, NEW armed \in SUBSET {"restart", "handshake", "stable", "deadline"},
         ScheduleReplacement(armed)
  PROVE  /\ timers' \subseteq {"restart", "handshake", "stable", "deadline"}
         /\ restartIndex' \in 0 .. LastBackoff
BY NextBackoffIsTyped DEF Typed, ScheduleReplacement

LEMMA SpawnIsTyped ==
  ASSUME Typed, NEW armed \in SUBSET {"restart", "handshake", "stable", "deadline"},
         Spawn(armed), UNCHANGED <<request, seen, lease, stalls>>,
         start' \in {"none", "pending", "resolved", "rejected"}
  PROVE  Typed'
<1>1. CASE ForkFailed(armed)
  BY <1>1, ScheduleIsTyped, FaultIsTyped DEF ForkFailed, Typed
<1>2. ASSUME NEW g \in Generations, Forked(g, armed) PROVE Typed'
  BY <1>2, ForgottenIsTyped DEF Forked, Typed
<1> QED BY <1>1, <1>2 DEF Spawn

LEMMA FailIsTyped ==
  ASSUME Typed, NEW kill \in BOOLEAN, NEW event \in {"disconnected", "rejected"},
         Fail(kill, event), faults' \in 0 .. MaxFaults
  PROVE  Typed'
<1>1. Settled("disconnected") \in [Requests -> Records]
  BY SettledIsTyped DEF Typed, Statuses
<1>2. timers' \subseteq {"restart", "handshake", "stable", "deadline"}
      /\ restartIndex' \in 0 .. LastBackoff
  BY ScheduleIsTyped DEF Fail, Typed
<1> QED BY <1>1, <1>2, ForgottenIsTyped DEF Fail, Disconnected, Sentenced, Typed

LEMMA TypedStep == IInv /\ [Next]_vars => Typed'
<1> SUFFICES ASSUME Typed, DeadlineAttached, [Next]_vars PROVE Typed'
  BY DEF IInv
<1>1. CASE SupervisorStep
  <2>1. CASE Start
    BY <2>1, SpawnIsTyped DEF Start, Typed
  <2>2. CASE RestartFires
    BY <2>2, SpawnIsTyped DEF RestartFires, Fired, Typed
  <2>3. CASE HandshakeTimeout
    BY <2>3, FailIsTyped, FaultIsTyped DEF HandshakeTimeout, Typed
  <2>4. CASE ChildExits
    BY <2>4, FailIsTyped DEF ChildExits, Typed
  <2>5. CASE StableReset
    BY <2>5 DEF StableReset, Typed
  <2>6. CASE ReceiveReady
    <3>1. outbox' \in Boxes
      BY <2>6, ReadIsTyped DEF ReceiveReady, Message, Typed
    <3> QED BY <2>6, <3>1 DEF ReceiveReady, Typed
  <2>7. CASE ReceiveRejected
    <3>1. CASE Ending
      <4>1. outbox' \in Boxes
        BY <2>7, <3>1, ReadIsTyped DEF ReceiveRejected, Message, Typed
      <4> QED BY <2>7, <3>1, <4>1 DEF ReceiveRejected, Typed
    <3>2. CASE ~Ending
      BY <2>7, <3>2, FailIsTyped DEF ReceiveRejected, Typed
    <3> QED BY <3>1, <3>2
  <2>8. CASE Stop
    <3>1. Settled("stopping") \in [Requests -> Records]
      BY SettledIsTyped DEF Typed, Statuses
    <3> QED BY <2>8, <3>1 DEF Stop, Typed
  <2>9. CASE ReceivePrepared
    BY <2>9, ForgottenIsTyped DEF ReceivePrepared, Message, Stopped, Sentenced, Typed
  <2>10. CASE StopDeadline
    <3>1. active \in Generations
      BY <2>10 DEF StopDeadline, DeadlineAttached
    <3> QED BY <2>10, <3>1, ForgottenIsTyped DEF StopDeadline, Stopped, Sentenced, Typed
  <2>11. ASSUME NEW r \in Requests, SendRequest(r) PROVE Typed'
    BY <2>11 DEF SendRequest, Typed, Records, Statuses
  <2>12. ASSUME NEW r \in Requests, ReceiveResponse(r) PROVE Typed'
    <3>1. outbox' \in Boxes
      BY <2>12, ReadIsTyped DEF ReceiveResponse, Message, Typed
    <3>2. request' \in [Requests -> Records]
      BY <2>12 DEF ReceiveResponse, Typed, Records, Statuses
    <3> QED BY <2>12, <3>1, <3>2 DEF ReceiveResponse, Typed
  <2> QED BY <1>1, <2>1, <2>2, <2>3, <2>4, <2>5, <2>6, <2>7, <2>8, <2>9, <2>10, <2>11, <2>12
      DEF SupervisorStep
<1>2. CASE LeaseExpires
  <2>1. lease' \in Rows
    BY <1>2, RowsAreTyped DEF LeaseExpires, Typed
  <2>2. stalls' \in 0 .. MaxStalls
    BY <1>2 DEF LeaseExpires, Typed
  <2> QED BY <1>2, <2>1, <2>2 DEF LeaseExpires, supervisor, Typed
<1>3. ASSUME NEW g \in Generations, WorkerStep(g) PROVE Typed'
  <2> USE DEF supervisor, Becomes
  <2>1. CASE Acquire(g)
    <3>1. outbox' \in Boxes
      BY <2>1, PostIsTyped DEF Acquire, Messages, Typed
    <3>2. lease' \in Rows
      BY <2>1, RowsAreTyped DEF Acquire, Typed
    <3> QED BY <2>1, <3>1, <3>2 DEF Acquire, Typed
  <2>2. CASE BecomeReady(g)
    BY <2>2, PostIsTyped DEF BecomeReady, Messages, Typed
  <2>3. CASE StartupFails(g)
    BY <2>3, FaultIsTyped, RowsAreTyped DEF StartupFails, Release, Typed
  <2>4. CASE PrepareQuit(g)
    BY <2>4, PostIsTyped, RowsAreTyped DEF PrepareQuit, Release, Messages, Typed
  <2>5. CASE Heartbeat(g)
    BY <2>5, RowsAreTyped DEF Heartbeat, Typed
  <2>6. CASE Die(g)
    BY <2>6, FaultIsTyped DEF Die, Typed
  <2>7. ASSUME NEW r \in Requests, Handle(g, r) PROVE Typed'
    BY <2>7, PostIsTyped DEF Handle, Messages, Typed
  <2>8. ASSUME NEW r \in Requests, HandlerBreaks(g, r) PROVE Typed'
    BY <2>8, FaultIsTyped, RowsAreTyped DEF HandlerBreaks, Release, Typed
  <2> QED BY <1>3, <2>1, <2>2, <2>3, <2>4, <2>5, <2>6, <2>7, <2>8 DEF WorkerStep
<1>4. CASE UNCHANGED vars
  BY <1>4 DEF vars, Typed
<1> QED BY <1>1, <1>2, <1>3, <1>4 DEF Next

LEMMA DeadlineStep == IInv /\ [Next]_vars => DeadlineAttached'
<1> SUFFICES ASSUME Typed, DeadlineAttached, [Next]_vars PROVE DeadlineAttached'
  BY DEF IInv
<1> USE DEF DeadlineAttached, Ending
<1>1. ASSUME NEW armed, Spawn(armed), "deadline" \notin armed PROVE "deadline" \notin timers'
  BY <1>1 DEF Spawn, ForkFailed, Forked, ScheduleReplacement
<1>2. ASSUME NEW kill, NEW event, Fail(kill, event) PROVE "deadline" \notin timers'
  BY <1>2 DEF Fail, ScheduleReplacement
<1>3. CASE SupervisorStep
  <2>1. CASE Start
    BY <2>1, <1>1 DEF Start
  <2>2. CASE RestartFires
    BY <2>2, <1>1 DEF RestartFires, Fired
  <2>3. CASE HandshakeTimeout
    BY <2>3, <1>2 DEF HandshakeTimeout
  <2>4. CASE ChildExits
    BY <2>4, <1>2 DEF ChildExits
  <2>5. CASE StableReset
    BY <2>5 DEF StableReset
  <2>6. CASE ReceiveReady
    BY <2>6 DEF ReceiveReady
  <2>7. CASE ReceiveRejected
    BY <2>7, <1>2 DEF ReceiveRejected
  <2>8. CASE Stop
    BY <2>8 DEF Stop, Typed
  <2>9. CASE ReceivePrepared \/ StopDeadline
    BY <2>9 DEF ReceivePrepared, StopDeadline, Stopped
  <2>10. ASSUME NEW r \in Requests, SendRequest(r) \/ ReceiveResponse(r)
         PROVE  DeadlineAttached'
    BY <2>10 DEF SendRequest, ReceiveResponse
  <2> QED BY <1>3, <2>1, <2>2, <2>3, <2>4, <2>5, <2>6, <2>7, <2>8, <2>9, <2>10
      DEF SupervisorStep
<1>4. ASSUME UNCHANGED <<state, active, timers>> PROVE DeadlineAttached'
  BY <1>4
<1>5. CASE LeaseExpires
  BY <1>5, <1>4 DEF LeaseExpires, supervisor
<1>6. ASSUME NEW g \in Generations, WorkerStep(g) PROVE UNCHANGED supervisor
  BY <1>6 DEF WorkerStep, Acquire, BecomeReady, StartupFails, PrepareQuit, Heartbeat, Die,
              Handle, HandlerBreaks
<1> QED BY <1>3, <1>4, <1>5, <1>6 DEF Next, vars, supervisor

LEMMA Inductive == Spec => []IInv
<1>1. Init => DeadlineAttached
  BY DEF Init, DeadlineAttached
<1>2. Init => IInv
  BY <1>1, TypedInit DEF IInv
<1>3. IInv /\ [Next]_vars => IInv'
  BY TypedStep, DeadlineStep DEF IInv
<1> QED BY <1>2, <1>3, PTL DEF Spec

(* Every variable of the supervisor, the workers and the lease keeps its   *)
(* type: the backoff index stays inside restartBackoffMs, whatever fails.  *)
THEOREM TypeCorrect == Spec => []TypeOK
<1>1. IInv => TypeOK
  BY TypedIsTypeOK DEF IInv
<1> QED BY <1>1, Inductive, PTL

-----------------------------------------------------------------------------
(***************************************************************************)
(* The lease.  While nobody stalled, whoever works on the database is the  *)
(* owner of a fresh row; a fresh row always has an owner.                  *)
(***************************************************************************)
OwnersHoldTheLease == stalls = 0 => \A g \in Owners : lease.owner = g /\ lease.fresh
FreshIsOwned == lease.fresh => lease.owner # None
LeaseInv == OwnersHoldTheLease /\ FreshIsOwned

\* The steps of the supervisor change neither the lease nor who is an owner.
LEMMA SupervisorKeepsOwners ==
  ASSUME IInv, SupervisorStep
  PROVE  UNCHANGED <<lease, stalls>> /\ Owners' = Owners
<1>1. ASSUME NEW armed, Spawn(armed) PROVE Owners' = Owners
  <2>1. ASSUME NEW g \in Generations, Forked(g, armed) PROVE Owners' = Owners
    BY <2>1 DEF Forked, Unused, Alive, Owners, IInv, Typed
  <2>2. ASSUME ForkFailed(armed) PROVE Owners' = Owners
    BY <2>2 DEF ForkFailed, Owners
  <2> QED BY <1>1, <2>1, <2>2 DEF Spawn
<1>2. CASE Start
  BY <1>2, <1>1 DEF Start
<1>3. CASE RestartFires
  BY <1>3, <1>1 DEF RestartFires
<1>4. CASE ~(Start \/ RestartFires)
  <2>1. UNCHANGED <<lease, stalls, child>>
    BY <1>4 DEF SupervisorStep, HandshakeTimeout, ChildExits, StableReset, ReceiveReady,
                ReceiveRejected, Stop, ReceivePrepared, StopDeadline, Stopped, SendRequest,
                ReceiveResponse, Fail
  <2> QED BY <2>1 DEF Owners
<1> QED BY <1>2, <1>3, <1>4

LEMMA LeaseInvStep == IInv /\ LeaseInv /\ [Next]_vars => LeaseInv'
<1> SUFFICES ASSUME IInv, LeaseInv, [Next]_vars PROVE LeaseInv'
  OBVIOUS
<1> USE DEF LeaseInv, OwnersHoldTheLease, FreshIsOwned
<1>1. CASE SupervisorStep
  BY <1>1, SupervisorKeepsOwners
<1>2. CASE LeaseExpires
  <2>1. Owners' = Owners /\ Owners \subseteq Alive
    BY <1>2 DEF LeaseExpires, Owners, Alive
  <2>2. ~lease'.fresh /\ lease'.owner = lease.owner
    BY <1>2 DEF LeaseExpires, IInv, Typed, Rows
  <2>3. stalls' = 0 => stalls = 0 /\ lease.owner \notin Alive
    BY <1>2 DEF LeaseExpires, IInv, Typed
  <2> QED BY <2>1, <2>2, <2>3
<1>3. ASSUME NEW g \in Generations, WorkerStep(g) PROVE LeaseInv'
  <2> USE DEF IInv, Typed, Becomes, Owners
  <2>1. CASE Acquire(g)
    BY <2>1 DEF Acquire, Held
  <2>2. CASE BecomeReady(g)
    BY <2>2 DEF BecomeReady
  <2>3. ASSUME UNCHANGED stalls, Release(g), Owners' = Owners \ {g} PROVE LeaseInv'
    BY <2>3 DEF Release, NoLease
  <2>4. CASE StartupFails(g)
    BY <2>4, <2>3 DEF StartupFails
  <2>5. CASE PrepareQuit(g)
    BY <2>5, <2>3 DEF PrepareQuit
  <2>6. CASE Heartbeat(g)
    <3>1. CASE lease.owner = g
      <4>1. lease'.owner = g /\ UNCHANGED <<child, stalls>>
        BY <2>6, <3>1 DEF Heartbeat, Rows
      <4>2. lease'.fresh
        BY <2>6, <3>1 DEF Heartbeat, Rows
      <4>3. g # None
        OBVIOUS
      <4>4. Owners' = Owners
        BY <4>1
      <4>5. OwnersHoldTheLease'
        BY <3>1, <4>1, <4>2, <4>4
      <4>6. FreshIsOwned'
        BY <4>1, <4>3
      <4> QED BY <4>5, <4>6
    <3>2. CASE lease.owner # g
      BY <2>6, <3>2 DEF Heartbeat
    <3> QED BY <3>1, <3>2
  <2>7. CASE Die(g)
    BY <2>7 DEF Die
  <2>8. ASSUME NEW r \in Requests, Handle(g, r) PROVE LeaseInv'
    BY <2>8 DEF Handle
  <2>9. ASSUME NEW r \in Requests, HandlerBreaks(g, r) PROVE LeaseInv'
    BY <2>9, <2>3 DEF HandlerBreaks
  <2> QED BY <1>3, <2>1, <2>2, <2>4, <2>5, <2>6, <2>7, <2>8, <2>9 DEF WorkerStep
<1>4. CASE UNCHANGED vars
  BY <1>4 DEF vars, Owners
<1> QED BY <1>1, <1>2, <1>3, <1>4 DEF Next

LEMMA LeaseInvInit == Init => LeaseInv
BY DEF Init, LeaseInv, OwnersHoldTheLease, FreshIsOwned, Owners, NoLease

(* As long as no live worker lost its lease, at most one worker works on   *)
(* the database, however often workers crash and are replaced.             *)
THEOREM SoleOwnerHolds == Spec => []SoleOwner
<1>1. LeaseInv => SoleOwner
  BY DEF LeaseInv, OwnersHoldTheLease, SoleOwner
<1> QED BY <1>1, LeaseInvInit, LeaseInvStep, Inductive, PTL DEF Spec

(* No worker takes or deletes the fresh lease of another one.              *)
THEOREM LeaseIsRespectedHolds == Spec => LeaseIsRespected
<1> DEFINE Step == lease.fresh /\ lease'.owner # lease.owner
                     => lease.owner \in Owners /\ lease.owner \notin Owners'
<1>1. ASSUME IInv, LeaseInv, [Next]_vars PROVE [Step]_vars
  <2> SUFFICES ASSUME lease.fresh, lease'.owner # lease.owner
               PROVE  lease.owner \in Owners /\ lease.owner \notin Owners'
    OBVIOUS
  <2>1. lease.owner # None
    BY <1>1 DEF LeaseInv, FreshIsOwned
  <2>2. CASE SupervisorStep
    BY <2>2, <1>1, SupervisorKeepsOwners
  <2>3. CASE LeaseExpires
    <3>1. lease \in Rows
      BY <1>1 DEF IInv, Typed
    <3>2. lease' = [lease EXCEPT !.fresh = FALSE]
      BY <2>3 DEF LeaseExpires
    <3>3. lease'.owner = lease.owner
      BY <3>1, <3>2 DEF Rows
    <3> QED BY <3>3
  <2>4. ASSUME NEW g \in Generations, WorkerStep(g)
        PROVE  lease.owner \in Owners /\ lease.owner \notin Owners'
    <3> USE <1>1, <2>1 DEF IInv, Typed, Becomes, Owners
    <3>1. CASE Acquire(g)
      BY <3>1 DEF Acquire, Held
    <3>2. CASE StartupFails(g)
      BY <3>2 DEF StartupFails, Release
    <3>3. CASE PrepareQuit(g)
      BY <3>3 DEF PrepareQuit, Release
    <3>4. CASE Heartbeat(g)
      BY <3>4 DEF Heartbeat, Rows
    <3>5. ASSUME NEW r \in Requests, HandlerBreaks(g, r)
          PROVE  lease.owner \in Owners /\ lease.owner \notin Owners'
      BY <3>5 DEF HandlerBreaks, Release
    <3>6. ASSUME UNCHANGED lease PROVE FALSE
      BY <3>6
    <3> QED BY <2>4, <3>1, <3>2, <3>3, <3>4, <3>5, <3>6
        DEF WorkerStep, BecomeReady, Die, Handle
  <2>5. CASE UNCHANGED vars
    BY <2>5 DEF vars
  <2> QED BY <1>1, <2>2, <2>3, <2>4, <2>5 DEF Next
<1> QED BY <1>1, LeaseInvInit, LeaseInvStep, Inductive, PTL DEF Spec, LeaseIsRespected

-----------------------------------------------------------------------------
(***************************************************************************)
(* The supervisor's own invariant: a child is attached or a replacement is *)
(* scheduled, and only a ready supervisor has somebody waiting.            *)
(***************************************************************************)
RestartWhileStarting == "restart" \in timers => state = "starting" /\ active = None
ReadyIsAttached == state = "ready" => active # None
UnstartedIsIdle == start = "none" => state \in {"idle", "stopping", "stopped"}
IdleIsEmpty == state = "idle" => active = None /\ timers = {}
SupervisorInv ==
  /\ AttachedOrScheduled /\ RestartWhileStarting /\ ReadyIsAttached
  /\ UnstartedIsIdle /\ IdleIsEmpty /\ WaitingFollowsWorker

LEMMA SettledWaits ==
  ASSUME IInv, NEW reason \in {"disconnected", "stopping"}, request' = Settled(reason)
  PROVE  Waiting' = {}
<1> SUFFICES ASSUME NEW r \in Requests, request'[r].status = "waiting" PROVE FALSE
  BY DEF Waiting
<1>1. CASE r \in Waiting
  <2>1. request[r] \in Records
    BY DEF IInv, Typed
  <2>2. [request[r] EXCEPT !.status = reason].status = reason
    BY <2>1 DEF Records
  <2> QED BY <1>1, <2>2 DEF Settled
<1>2. CASE r \notin Waiting
  BY <1>2 DEF Settled, Waiting
<1> QED BY <1>1, <1>2

LEMMA SupervisorInvInit == Init => SupervisorInv
BY DEF Init, SupervisorInv, AttachedOrScheduled, RestartWhileStarting, ReadyIsAttached,
       UnstartedIsIdle, IdleIsEmpty, WaitingFollowsWorker, Waiting

LEMMA SupervisorInvStep == IInv /\ SupervisorInv /\ [Next]_vars => SupervisorInv'
<1> SUFFICES ASSUME IInv, SupervisorInv, [Next]_vars PROVE SupervisorInv'
  OBVIOUS
<1> USE DEF AttachedOrScheduled, RestartWhileStarting, ReadyIsAttached, UnstartedIsIdle,
            IdleIsEmpty, Ending
<1> DEFINE Control == /\ AttachedOrScheduled /\ RestartWhileStarting /\ ReadyIsAttached
                      /\ UnstartedIsIdle /\ IdleIsEmpty
<1>1. SupervisorInv <=> Control /\ WaitingFollowsWorker
  BY DEF SupervisorInv
<1>2. ASSUME UNCHANGED <<state, active, start, timers, request>> PROVE SupervisorInv'
  BY <1>2 DEF SupervisorInv, WaitingFollowsWorker, Waiting
<1>3. ASSUME NEW armed, Spawn(armed), "restart" \notin armed, start' # "none"
      PROVE  Control'
  <2>1. ASSUME NEW g \in Generations, Forked(g, armed) PROVE Control'
    BY <1>3, <2>1 DEF Forked
  <2>2. ASSUME ForkFailed(armed) PROVE Control'
    BY <1>3, <2>2 DEF ForkFailed, ScheduleReplacement
  <2> QED BY <1>3, <2>1, <2>2 DEF Spawn
<1>4. ASSUME NEW kill, NEW event, Fail(kill, event) PROVE SupervisorInv'
  <2>1. Waiting' = {}
    BY <1>4, SettledWaits DEF Fail, Disconnected
  <2>2. Control'
    BY <1>4 DEF Fail, ScheduleReplacement, SupervisorInv
  <2> QED BY <2>1, <2>2 DEF SupervisorInv, WaitingFollowsWorker
<1>5. ASSUME state # "ready", UNCHANGED request, Control' PROVE SupervisorInv'
  BY <1>1, <1>5 DEF SupervisorInv, WaitingFollowsWorker, Waiting
<1>6. CASE SupervisorStep
  <2>1. CASE Start
    BY <2>1, <1>3, <1>5 DEF Start, SupervisorInv
  <2>2. CASE RestartFires
    <3>1. start # "none" /\ state # "ready"
      BY <2>2 DEF RestartFires, SupervisorInv
    <3> QED BY <2>2, <3>1, <1>3, <1>5 DEF RestartFires, Fired
  <2>3. CASE HandshakeTimeout
    BY <2>3, <1>4 DEF HandshakeTimeout
  <2>4. CASE ChildExits
    BY <2>4, <1>4 DEF ChildExits
  <2>5. CASE StableReset
    BY <2>5 DEF StableReset, SupervisorInv, WaitingFollowsWorker, Waiting
  <2>6. CASE ReceiveReady
    BY <2>6 DEF ReceiveReady, Message, SupervisorInv, WaitingFollowsWorker, Waiting
  <2>7. CASE ReceiveRejected
    BY <2>7, <1>2, <1>4 DEF ReceiveRejected
  <2>8. CASE Stop
    <3>1. Waiting' = {}
      BY <2>8, SettledWaits DEF Stop
    <3>2. Control'
      BY <2>8 DEF Stop, SupervisorInv
    <3> QED BY <3>1, <3>2 DEF SupervisorInv, WaitingFollowsWorker
  <2>9. CASE ReceivePrepared \/ StopDeadline
    <3>1. Waiting = {}
      <4>1. state # "ready"
        BY <2>9 DEF ReceivePrepared, StopDeadline, IInv, DeadlineAttached
      <4> QED BY <4>1 DEF SupervisorInv, WaitingFollowsWorker
    <3>2. Control'
      BY <2>9 DEF ReceivePrepared, StopDeadline, Stopped, SupervisorInv
    <3>3. UNCHANGED request
      BY <2>9 DEF ReceivePrepared, StopDeadline, Stopped
    <3> QED BY <3>1, <3>2, <3>3 DEF SupervisorInv, WaitingFollowsWorker, Waiting
  <2>10. ASSUME NEW r \in Requests, SendRequest(r) PROVE SupervisorInv'
    BY <2>10 DEF SendRequest, SupervisorInv, WaitingFollowsWorker, Waiting, IInv, Typed
  <2>11. ASSUME NEW r \in Requests, ReceiveResponse(r) PROVE SupervisorInv'
    BY <2>11 DEF ReceiveResponse, SupervisorInv, WaitingFollowsWorker, Waiting, IInv, Typed,
                 Records
  <2> QED BY <1>6, <2>1, <2>2, <2>3, <2>4, <2>5, <2>6, <2>7, <2>8, <2>9, <2>10, <2>11
      DEF SupervisorStep
<1>7. CASE LeaseExpires
  BY <1>7, <1>2 DEF LeaseExpires, supervisor
<1>8. ASSUME NEW g \in Generations, WorkerStep(g) PROVE UNCHANGED supervisor
  BY <1>8 DEF WorkerStep, Acquire, BecomeReady, StartupFails, PrepareQuit, Heartbeat, Die,
              Handle, HandlerBreaks
<1> QED BY <1>2, <1>6, <1>7, <1>8 DEF Next, vars, supervisor

LEMMA SupervisorIsInv == Spec => []SupervisorInv
BY SupervisorInvInit, SupervisorInvStep, Inductive, PTL DEF Spec

(* A running supervisor has a child or has scheduled one, never both.      *)
THEOREM AttachedOrScheduledHolds == Spec => []AttachedOrScheduled
<1>1. SupervisorInv => AttachedOrScheduled
  BY DEF SupervisorInv
<1> QED BY <1>1, SupervisorIsInv, PTL

(* A request that waits was sent to the worker that is attached and ready. *)
THEOREM WaitingFollowsWorkerHolds == Spec => []WaitingFollowsWorker
<1>1. SupervisorInv => WaitingFollowsWorker
  BY DEF SupervisorInv
<1> QED BY <1>1, SupervisorIsInv, PTL

-----------------------------------------------------------------------------
(* What the subscribers have seen.  A worker that was announced is ready   *)
(* still, until fail tells them or stop begins.                            *)

ReadyIsShown == seen = "ready" => state \in {"ready", "stopping", "stopped"}

LEMMA ReadyIsShownStep ==
  ASSUME SupervisorInv, ReadyIsShown, [Next]_vars PROVE ReadyIsShown'
<1> USE DEF ReadyIsShown, Ending
<1>1. ASSUME UNCHANGED <<state, seen>> PROVE ReadyIsShown'
  BY <1>1
<1>2. ASSUME NEW armed, Spawn(armed), state \notin {"ready", "stopping", "stopped"},
             UNCHANGED seen
      PROVE  ReadyIsShown'
  BY <1>2
<1>3. ASSUME NEW kill, NEW event, event # "ready", Fail(kill, event) PROVE ReadyIsShown'
  BY <1>3 DEF Fail
<1>4. CASE SupervisorStep
  <2>1. CASE Start
    BY <2>1, <1>2 DEF Start, SupervisorInv, UnstartedIsIdle
  <2>2. CASE RestartFires
    BY <2>2, <1>2 DEF RestartFires, SupervisorInv, RestartWhileStarting
  <2>3. CASE HandshakeTimeout \/ ChildExits
    BY <2>3, <1>3 DEF HandshakeTimeout, ChildExits
  <2>4. CASE ReceiveRejected
    BY <2>4, <1>1, <1>3 DEF ReceiveRejected
  <2>5. CASE ReceiveReady
    BY <2>5 DEF ReceiveReady
  <2>6. CASE Stop
    BY <2>6 DEF Stop
  <2>7. CASE ReceivePrepared \/ StopDeadline
    BY <2>7 DEF ReceivePrepared, StopDeadline, Stopped
  <2>8. CASE StableReset \/ \E r \in Requests : SendRequest(r) \/ ReceiveResponse(r)
    BY <2>8, <1>1 DEF StableReset, SendRequest, ReceiveResponse
  <2> QED BY <1>4, <2>1, <2>2, <2>3, <2>4, <2>5, <2>6, <2>7, <2>8 DEF SupervisorStep
<1>5. CASE LeaseExpires
  BY <1>5, <1>1 DEF LeaseExpires, supervisor
<1>6. ASSUME NEW g \in Generations, WorkerStep(g) PROVE ReadyIsShown'
  BY <1>6, <1>1 DEF WorkerStep, Acquire, BecomeReady, StartupFails, PrepareQuit, Heartbeat,
                    Die, Handle, HandlerBreaks, supervisor
<1>7. CASE UNCHANGED vars
  BY <1>7, <1>1 DEF vars
<1> QED BY <1>4, <1>5, <1>6, <1>7 DEF Next

(* Whoever saw a worker ready is told of its end before another is seen.   *)
THEOREM GenerationsAlternateHolds == Spec => GenerationsAlternate
<1> DEFINE Step == seen = "ready" /\ active' # active /\ ~Ending' =>
                     seen' \in {"disconnected", "rejected"}
<1>1. ASSUME SupervisorInv, ReadyIsShown, [Next]_vars PROVE [Step]_vars
  <2> SUFFICES ASSUME seen = "ready", active' # active, ~Ending'
               PROVE  seen' \in {"disconnected", "rejected"}
    OBVIOUS
  <2>1. state \in {"ready", "stopping", "stopped"}
    BY <1>1 DEF ReadyIsShown
  <2>2. CASE SupervisorStep
    <3>1. ~Start /\ ~RestartFires
      BY <2>1, <1>1 DEF Start, RestartFires, SupervisorInv, UnstartedIsIdle,
                        RestartWhileStarting, Ending
    <3>2. CASE HandshakeTimeout \/ ChildExits \/ ReceiveRejected
      BY <3>2 DEF HandshakeTimeout, ChildExits, ReceiveRejected, Fail
    <3>3. ~(ReceivePrepared \/ StopDeadline)
      BY DEF ReceivePrepared, StopDeadline, Stopped, Ending
    <3>4. ~(ReceiveReady \/ StableReset \/ Stop)
      BY DEF ReceiveReady, StableReset, Stop
    <3>5. ~\E r \in Requests : SendRequest(r) \/ ReceiveResponse(r)
      BY DEF SendRequest, ReceiveResponse
    <3> QED BY <2>2, <3>1, <3>2, <3>3, <3>4, <3>5 DEF SupervisorStep
  <2>3. CASE LeaseExpires
    BY <2>3 DEF LeaseExpires, supervisor
  <2>4. ASSUME NEW g \in Generations, WorkerStep(g) PROVE FALSE
    BY <2>4 DEF WorkerStep, Acquire, BecomeReady, StartupFails, PrepareQuit, Heartbeat, Die,
                Handle, HandlerBreaks, supervisor
  <2>5. CASE UNCHANGED vars
    BY <2>5 DEF vars
  <2> QED BY <1>1, <2>2, <2>3, <2>4, <2>5 DEF Next
<1>2. Init => ReadyIsShown
  BY DEF Init, ReadyIsShown
<1> QED BY <1>1, <1>2, ReadyIsShownStep, SupervisorIsInv, PTL DEF Spec, GenerationsAlternate

-----------------------------------------------------------------------------
(***************************************************************************)
(* The processes.  A worker that answered stop has given the lease up: it  *)
(* is deaf, so the supervisor may forget it without killing it.            *)
(***************************************************************************)
Gone == {"deaf", "dead"}
QuitMeansDeaf ==
  \A g \in Generations : (\E i \in DOMAIN outbox[g] : outbox[g][i] = Quit) => child[g] \in Gone

LEMMA ReadKeepsAnswers ==
  ASSUME Typed, QuitMeansDeaf, active \in Generations, outbox[active] # <<>>, Read,
         UNCHANGED child
  PROVE  QuitMeansDeaf'
<1> SUFFICES ASSUME NEW g \in Generations, NEW i \in DOMAIN outbox'[g], outbox'[g][i] = Quit
             PROVE  child[g] \in Gone
  BY DEF QuitMeansDeaf
<1>1. outbox[active] \in Seq(Messages) /\ outbox \in Boxes
  BY DEF Typed, Boxes
<1>2. CASE g = active
  <2>1. outbox'[g] = Tail(outbox[g])
    BY <1>1, <1>2 DEF Read, Boxes
  <2>2. i + 1 \in DOMAIN outbox[g] /\ outbox[g][i + 1] = Quit
    BY <1>1, <1>2, <2>1
  <2> QED BY <2>2 DEF QuitMeansDeaf
<1>3. CASE g # active
  BY <1>1, <1>3 DEF Read, Boxes, QuitMeansDeaf
<1> QED BY <1>2, <1>3

LEMMA ForgettingKeepsAnswers ==
  ASSUME Typed, QuitMeansDeaf, NEW h, outbox' = [outbox EXCEPT ![h] = <<>>],
         \A g \in Generations : g # h => child'[g] = child[g]
  PROVE  QuitMeansDeaf'
<1> SUFFICES ASSUME NEW g \in Generations, NEW i \in DOMAIN outbox'[g], outbox'[g][i] = Quit
             PROVE  child'[g] \in Gone
  BY DEF QuitMeansDeaf
<1>1. g # h
  BY DEF Typed, Boxes
<1> QED BY <1>1 DEF Typed, Boxes, QuitMeansDeaf

LEMMA PostKeepsAnswers ==
  ASSUME Typed, QuitMeansDeaf, NEW h \in Generations, NEW m \in Messages, Post(h, m),
         \A g \in Generations : g # h => child'[g] = child[g],
         child[h] \in Gone => child'[h] \in Gone,
         m = Quit => child'[h] \in Gone
  PROVE  QuitMeansDeaf'
<1> SUFFICES ASSUME NEW g \in Generations, NEW i \in DOMAIN outbox'[g], outbox'[g][i] = Quit
             PROVE  child'[g] \in Gone
  BY DEF QuitMeansDeaf
<1>1. outbox[g] \in Seq(Messages) /\ outbox \in Boxes
  BY DEF Typed, Boxes
<1>2. CASE outbox'[g] = outbox[g]
  BY <1>2 DEF QuitMeansDeaf
<1>3. CASE outbox'[g] # outbox[g]
  <2>1. g = h /\ outbox'[g] = Append(outbox[g], m)
    BY <1>1, <1>3 DEF Post, Boxes
  <2>2. CASE i = Len(outbox[g]) + 1
    BY <1>1, <2>1, <2>2
  <2>3. CASE i # Len(outbox[g]) + 1
    <3>1. i \in DOMAIN outbox[g] /\ outbox[g][i] = Quit
      BY <1>1, <2>1, <2>3
    <3> QED BY <2>1, <3>1 DEF QuitMeansDeaf
  <2> QED BY <2>2, <2>3
<1> QED BY <1>2, <1>3

LEMMA LivesKeepAnswers ==
  ASSUME Typed, QuitMeansDeaf, UNCHANGED outbox,
         \A g \in Generations : child[g] \in Gone => child'[g] \in Gone
  PROVE  QuitMeansDeaf'
BY DEF QuitMeansDeaf

ProcessInv == QuitMeansDeaf /\ NoWorkerLeftBehind

\* A step of the supervisor that starts no worker leaves behind only whom it
\* killed, and whom it found dead or deaf.
LEMMA NobodyLeftBehind ==
  ASSUME NoWorkerLeftBehind, UNCHANGED child, killed \subseteq killed',
         ~(state = "stopped" /\ state' # "stopped"),
         \/ active' = active
         \/ active \in killed' \/ active = None \/ child[active] = "dead"
         \/ state' = "stopped" /\ child[active] = "deaf"
  PROVE  NoWorkerLeftBehind'
BY DEF NoWorkerLeftBehind, Alive

LEMMA SpawnKeepsProcesses ==
  ASSUME IInv, ProcessInv, NEW armed, Spawn(armed), active = None, state # "stopped"
  PROVE  ProcessInv'
<1>1. \A g \in Alive : g \in killed
  BY DEF ProcessInv, NoWorkerLeftBehind, Alive
<1>2. CASE ForkFailed(armed)
  BY <1>1, <1>2, LivesKeepAnswers DEF ForkFailed, ProcessInv, NoWorkerLeftBehind, Alive, IInv
<1>3. ASSUME NEW g \in Generations, Forked(g, armed) PROVE ProcessInv'
  <2>1. /\ active' = g /\ killed' = killed \ {g}
        /\ \A h \in Generations : h # g => child'[h] = child[h]
    BY <1>3 DEF Forked, IInv, Typed
  <2>2. QuitMeansDeaf'
    BY <1>3, <2>1, ForgettingKeepsAnswers DEF Forked, ProcessInv, IInv
  <2>3. NoWorkerLeftBehind'
    BY <1>1, <2>1 DEF NoWorkerLeftBehind, Alive
  <2> QED BY <2>2, <2>3 DEF ProcessInv
<1> QED BY <1>2, <1>3 DEF Spawn

LEMMA FailKeepsProcesses ==
  ASSUME IInv, ProcessInv, NEW kill \in BOOLEAN, NEW event, Fail(kill, event),
         kill \/ child[active] = "dead"
  PROVE  ProcessInv'
<1>1. QuitMeansDeaf'
  BY ForgettingKeepsAnswers DEF Fail, ProcessInv, IInv
<1>2. NoWorkerLeftBehind'
  BY NobodyLeftBehind DEF Fail, Sentenced, Ending, ProcessInv
<1> QED BY <1>1, <1>2 DEF ProcessInv

LEMMA SupervisorKeepsProcesses ==
  ASSUME IInv, SupervisorInv, ProcessInv, SupervisorStep PROVE ProcessInv'
<1> USE DEF Ending
<1>1. ASSUME UNCHANGED <<state, active, child, killed, outbox>> PROVE ProcessInv'
  BY <1>1, LivesKeepAnswers, NobodyLeftBehind DEF ProcessInv, IInv
<1>2. CASE Start
  <2>1. active = None /\ state # "stopped"
    BY <1>2 DEF Start, SupervisorInv, UnstartedIsIdle, IdleIsEmpty
  <2> QED BY <1>2, <2>1, SpawnKeepsProcesses DEF Start
<1>3. CASE RestartFires
  <2>1. active = None /\ state # "stopped"
    BY <1>3 DEF RestartFires, SupervisorInv, RestartWhileStarting
  <2> QED BY <1>3, <2>1, SpawnKeepsProcesses DEF RestartFires
<1>4. CASE HandshakeTimeout \/ ChildExits
  BY <1>4, FailKeepsProcesses DEF HandshakeTimeout, ChildExits
<1>5. CASE StableReset
  BY <1>5, <1>1 DEF StableReset
<1>6. ASSUME NEW m, Message(m), Read, UNCHANGED <<active, child, killed>>,
             ~(state = "stopped" /\ state' # "stopped")
      PROVE  ProcessInv'
  <2>1. active \in Generations
    BY <1>6 DEF Message, IInv, Typed
  <2>2. QuitMeansDeaf'
    BY <1>6, <2>1, ReadKeepsAnswers DEF Message, ProcessInv, IInv
  <2>3. NoWorkerLeftBehind'
    BY <1>6, NobodyLeftBehind DEF ProcessInv
  <2> QED BY <2>2, <2>3 DEF ProcessInv
<1>7. CASE ReceiveReady
  BY <1>6, <1>7 DEF ReceiveReady
<1>8. CASE ReceiveRejected
  <2>1. CASE Ending
    BY <1>6, <1>8, <2>1 DEF ReceiveRejected
  <2>2. CASE ~Ending
    BY <1>8, <2>2, FailKeepsProcesses DEF ReceiveRejected
  <2> QED BY <2>1, <2>2
<1>9. ASSUME NEW r \in Requests, SendRequest(r) \/ ReceiveResponse(r) PROVE ProcessInv'
  BY <1>1, <1>6, <1>9 DEF SendRequest, ReceiveResponse
<1>10. CASE Stop
  BY <1>10, LivesKeepAnswers, NobodyLeftBehind DEF Stop, ProcessInv, IInv
<1>11. ASSUME NEW prepared \in BOOLEAN, "deadline" \in timers, Stopped(prepared),
              prepared => child[active] \in Gone
       PROVE  ProcessInv'
  <2>1. active \in Generations
    BY <1>11 DEF IInv, DeadlineAttached
  <2>2. QuitMeansDeaf'
    BY <1>11, ForgettingKeepsAnswers DEF Stopped, ProcessInv, IInv
  <2>3. NoWorkerLeftBehind'
    BY <1>11, <2>1, NobodyLeftBehind DEF Stopped, Sentenced, Gone, ProcessInv
  <2> QED BY <2>2, <2>3 DEF ProcessInv
<1>12. CASE ReceivePrepared
  <2>1. /\ active \in Generations
        /\ outbox[active] \in Seq(Messages) /\ outbox[active] # <<>>
        /\ Head(outbox[active]) = Quit
    BY <1>12 DEF ReceivePrepared, Message, IInv, Typed, Boxes
  <2>2. 1 \in DOMAIN outbox[active] /\ outbox[active][1] = Quit
    BY <2>1
  <2>3. child[active] \in Gone
    BY <2>1, <2>2 DEF ProcessInv, QuitMeansDeaf
  <2> QED BY <1>11, <1>12, <2>3 DEF ReceivePrepared
<1>13. CASE StopDeadline
  BY <1>11, <1>13 DEF StopDeadline
<1> QED BY <1>2, <1>3, <1>4, <1>5, <1>7, <1>8, <1>9, <1>10, <1>12, <1>13 DEF SupervisorStep

\* A worker's own step: one that gave up stays so, and nobody else's life changes.
LEMMA WorkerKeepsProcesses ==
  ASSUME IInv, ProcessInv, NEW g \in Generations, WorkerStep(g)
  PROVE  ProcessInv'
<1> USE DEF Gone
<1>1. Typed /\ child \in [Generations -> {"dead", "forked", "starting", "serving", "deaf"}]
  BY DEF IInv, Typed
<1>2. ASSUME UNCHANGED <<state, active, killed>>,
             \A h \in Generations : h # g => child'[h] = child[h],
             child[g] = "dead" => child'[g] = "dead",
             child[g] = "deaf" => child'[g] \in Gone
      PROVE  NoWorkerLeftBehind'
  BY <1>2 DEF ProcessInv, NoWorkerLeftBehind, Alive
<1>3. ASSUME UNCHANGED <<state, active, killed, outbox>>, NEW s \in Gone \cup {"starting"},
             child' = [child EXCEPT ![g] = s], child[g] = "dead" => s = "dead",
             child[g] = "deaf" => s \in Gone
      PROVE  ProcessInv'
  BY <1>1, <1>2, <1>3, LivesKeepAnswers DEF ProcessInv
<1>4. ASSUME UNCHANGED <<state, active, killed, child, outbox>> PROVE ProcessInv'
  BY <1>1, <1>2, <1>4, LivesKeepAnswers DEF ProcessInv
<1>5. ASSUME UNCHANGED <<state, active, killed>>, NEW s, NEW m \in Messages,
             child' = [child EXCEPT ![g] = s], Post(g, m), child[g] \notin Gone,
             m = Quit => s = "deaf"
      PROVE  ProcessInv'
  BY <1>1, <1>2, <1>5, PostKeepsAnswers DEF ProcessInv
<1>6. CASE Acquire(g)
  BY <1>3, <1>5, <1>6 DEF Acquire, Becomes, supervisor, Messages
<1>7. CASE BecomeReady(g)
  BY <1>5, <1>7 DEF BecomeReady, Becomes, supervisor, Messages
<1>8. CASE StartupFails(g)
  BY <1>3, <1>8 DEF StartupFails, Becomes, supervisor
<1>9. CASE PrepareQuit(g)
  BY <1>5, <1>9 DEF PrepareQuit, Becomes, supervisor, Messages
<1>10. CASE Heartbeat(g)
  BY <1>3, <1>4, <1>10 DEF Heartbeat, Becomes, supervisor
<1>11. CASE Die(g)
  BY <1>3, <1>11 DEF Die, Becomes, supervisor
<1>12. ASSUME NEW r \in Requests, Handle(g, r) PROVE ProcessInv'
  <2>1. r \in Messages /\ r # Quit
    BY <1>12 DEF Handle, Messages
  <2>2. child' = [child EXCEPT ![g] = child[g]]
    BY <1>1, <1>12 DEF Handle
  <2> QED BY <1>5, <1>12, <2>1, <2>2 DEF Handle, supervisor
<1>13. ASSUME NEW r \in Requests, HandlerBreaks(g, r) PROVE ProcessInv'
  BY <1>3, <1>13 DEF HandlerBreaks, Becomes, supervisor
<1> QED BY <1>6, <1>7, <1>8, <1>9, <1>10, <1>11, <1>12, <1>13 DEF WorkerStep

(* No worker process is left behind by a failure, a rejection or stop.     *)
THEOREM NoWorkerLeftBehindHolds == Spec => []NoWorkerLeftBehind
<1>1. Init => ProcessInv
  BY DEF Init, ProcessInv, QuitMeansDeaf, NoWorkerLeftBehind, Alive
<1>2. ASSUME IInv, SupervisorInv, ProcessInv, [Next]_vars PROVE ProcessInv'
  <2>1. CASE SupervisorStep
    BY <1>2, <2>1, SupervisorKeepsProcesses
  <2>2. CASE LeaseExpires
    BY <1>2, <2>2, LivesKeepAnswers DEF LeaseExpires, supervisor, ProcessInv,
       NoWorkerLeftBehind, Alive, IInv
  <2>3. ASSUME NEW g \in Generations, WorkerStep(g) PROVE ProcessInv'
    BY <1>2, <2>3, WorkerKeepsProcesses
  <2>4. CASE UNCHANGED vars
    BY <1>2, <2>4, LivesKeepAnswers DEF vars, ProcessInv, NoWorkerLeftBehind, Alive, IInv
  <2> QED BY <1>2, <2>1, <2>2, <2>3, <2>4 DEF Next
<1>3. ProcessInv => NoWorkerLeftBehind
  BY DEF ProcessInv
<1> QED BY <1>1, <1>2, <1>3, Inductive, SupervisorIsInv, PTL DEF Spec
=============================================================================
