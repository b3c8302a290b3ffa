-------------------------- MODULE WorkerSupervisor --------------------------
(***************************************************************************)
(* The worker process, its supervisor in the main process and the durable  *)
(* lease between them (main/worker/supervisor.ts, worker/runtime.ts,       *)
(* worker/storage/worker-lease-store.ts).  The supervisor forks one worker *)
(* per generation, hears it through messages and its exit event, and       *)
(* replaces it after a backoff.  A worker owns the database while it holds *)
(* the one lease row, which it refreshes with a heartbeat; a row that is   *)
(* not fresh may be taken over.                                            *)
(*                                                                         *)
(* A generation is a UUID: only its identity matters, so one that nothing  *)
(* remembers any more is reused and Generations stays finite.              *)
(***************************************************************************)
EXTENDS Integers, Sequences

CONSTANTS
  Generations, \* the worker generations
  Previous,    \* the generation a lease row of an earlier app run may name
  None,        \* no generation
  Requests,    \* the requests of the renderer, each sent at most once
  Quit,        \* the worker.prepareQuit request of stop
  LastBackoff, \* the last index of restartBackoffMs
  MaxFaults,   \* crashes, failed forks, slow starts and broken handlers
  MaxStalls    \* leases that expire although their owner is alive

ASSUME SupervisorAssumption ==
  /\ LastBackoff \in Nat /\ MaxFaults \in Nat /\ MaxStalls \in Nat
  /\ None \notin Generations /\ Previous \notin Generations /\ Previous # None
  /\ Quit \notin Requests \cup {"ready", "rejected"}

VARIABLES
  state,        \* the supervisor: idle, starting, ready, stopping, stopped
  active,       \* the generation whose child is attached, or None
  start,        \* the promise of start()
  restartIndex, \* the next entry of restartBackoffMs
  timers,       \* the armed timers: restart, handshake, stable, deadline
  request,      \* what became of every request, and for which generation
  seen,         \* the last worker event every subscriber saw
  child,        \* the state of every worker process
  killed,       \* the children that were sent a kill
  inbox,        \* the requests posted to a child and not yet handled
  outbox,       \* the messages of a child the supervisor has not yet read
  lease,        \* the lease row: its owner, and whether it is fresh
  faults,       \* the faults so far, bounded by MaxFaults
  stalls        \* the leases lost by live owners, bounded by MaxStalls

supervisor == <<state, active, start, restartIndex, timers, request, seen>>
vars == <<state, active, start, restartIndex, timers, request, seen,
          child, killed, inbox, outbox, lease, faults, stalls>>

NoLease == [owner |-> None, fresh |-> FALSE]

Init ==
  /\ state = "idle" /\ active = None /\ start = "none" /\ restartIndex = 0
  /\ timers = {} /\ seen = "none"
  /\ request = [r \in Requests |-> [status |-> "unsent", generation |-> None]]
  /\ child = [g \in Generations |-> "dead"] /\ killed = {}
  /\ inbox = [g \in Generations |-> {}] /\ outbox = [g \in Generations |-> <<>>]
  /\ lease \in {NoLease, [owner |-> Previous, fresh |-> TRUE]}
  /\ faults = 0 /\ stalls = 0

Alive == {g \in Generations : child[g] # "dead"}
\* The workers that have the database open to work on it.
Owners == {g \in Generations : child[g] \in {"starting", "serving"}}
Waiting == {r \in Requests : request[r].status = "waiting"}
Ending == state \in {"stopping", "stopped"}

Fault == faults < MaxFaults /\ faults' = faults + 1

\* Every waiting request is rejected with its reason.
Settled(reason) ==
  [r \in Requests |-> IF r \in Waiting THEN [request[r] EXCEPT !.status = reason]
                      ELSE request[r]]

\* scheduleReplacement: one restart is armed at most, with the last delay repeated.
NextBackoff(i) == IF i < LastBackoff THEN i + 1 ELSE LastBackoff
GivesUp(armed) == \* mutant: the delays are exhausted
  /\ timers' = IF restartIndex = LastBackoff THEN armed ELSE armed \cup {"restart"}
  /\ restartIndex' = NextBackoff(restartIndex)
ScheduleReplacement(armed) ==
  /\ timers' = armed \cup {"restart"}
  /\ restartIndex' = IF "restart" \in armed THEN restartIndex ELSE NextBackoff(restartIndex)

\* A generation nothing refers to: nextGeneration() may return it.
Unused(g) == g \notin Alive /\ g # active /\ lease.owner # g

(***************************************************************************)
(* The supervisor.                                                         *)
(***************************************************************************)
\* spawn with a child that forks.
Forked(g, armed) ==
  /\ Unused(g)
  /\ active' = g /\ state' = "starting"
  /\ timers' = armed \cup {"handshake"}
  /\ child' = [child EXCEPT ![g] = "forked"] /\ killed' = killed \ {g}
  /\ inbox' = [inbox EXCEPT ![g] = {}] /\ outbox' = [outbox EXCEPT ![g] = <<>>]
  /\ UNCHANGED <<restartIndex, faults>>

\* spawn with a fork that throws.
ForkFailed(armed) ==
  /\ Fault
  /\ active' = None /\ state' = "starting"
  /\ ScheduleReplacement(armed)
  /\ UNCHANGED <<child, killed, inbox, outbox>>

Spawn(armed) == ForkFailed(armed) \/ \E g \in Generations : Forked(g, armed)

\* start: the first call spawns; later calls return the same promise.
Start ==
  /\ start = "none" /\ ~Ending
  /\ start' = "pending" /\ Spawn(timers)
  /\ UNCHANGED <<request, seen, lease, stalls>>

\* The timer callback clears cancelRestart before it spawns.
Fired == timers \ {"restart"}
RestartFires ==
  /\ "restart" \in timers
  /\ Spawn(Fired)
  /\ UNCHANGED <<start, request, seen, lease, stalls>>

\* request: refused, with no effect, unless the worker of its generation is ready.
SendRequest(r) ==
  /\ request[r].status = "unsent" /\ state = "ready"
  /\ request' = [request EXCEPT ![r] = [status |-> "waiting", generation |-> active]]
  /\ inbox' = [inbox EXCEPT ![active] = @ \cup {r}]
  /\ UNCHANGED <<state, active, start, restartIndex, timers, seen, child, killed, outbox,
                 lease, faults, stalls>>

\* fail: the child is detached, its requests are rejected, a replacement scheduled.
Disconnected == Settled("disconnected")
NeverSentenced(g, kill) == killed \* mutant: the child is not killed
Sentenced(g, kill) == IF kill THEN killed \cup {g} ELSE killed
Fail(kill, event) ==
  /\ active # None /\ ~Ending
  /\ killed' = Sentenced(active, kill)
  /\ request' = Disconnected
  /\ seen' = event
  /\ outbox' = [outbox EXCEPT ![active] = <<>>]
  /\ active' = None /\ state' = "starting"
  /\ ScheduleReplacement(timers \ {"handshake", "stable"})
  /\ UNCHANGED <<start, child, inbox, lease, stalls>>

\* No valid worker.ready for five seconds; a worker that could still send it is a slow start.
HandshakeTimeout ==
  /\ "handshake" \in timers
  /\ Fail(TRUE, "disconnected")
  /\ IF child[active] \in {"forked", "starting", "serving"} THEN Fault ELSE UNCHANGED faults

\* Once stopping, fail returns early and the exit is forgotten.
ChildExits ==
  /\ active # None /\ child[active] = "dead"
  /\ Fail(FALSE, "disconnected") /\ UNCHANGED faults

\* Five seconds after worker.ready; active and state are still those of the target.
StableReset ==
  /\ "stable" \in timers
  /\ timers' = timers \ {"stable"} /\ restartIndex' = 0
  /\ UNCHANGED <<state, active, start, request, seen, child, killed, inbox, outbox, lease,
                 faults, stalls>>

Read == outbox' = [outbox EXCEPT ![active] = Tail(@)]
Message(m) == active # None /\ outbox[active] # <<>> /\ Head(outbox[active]) = m

ReceiveReady ==
  /\ Message("ready") /\ Read
  /\ IF Ending THEN UNCHANGED <<state, start, timers, seen>>
     ELSE /\ state' = "ready" /\ seen' = "ready"
          /\ start' = IF start = "pending" THEN "resolved" ELSE start
          /\ timers' = (timers \ {"handshake"}) \cup {"stable"}
  /\ UNCHANGED <<active, restartIndex, request, child, killed, inbox, lease, faults, stalls>>

ReceiveRejected ==
  /\ Message("rejected")
  /\ IF Ending
       THEN /\ Read
            /\ UNCHANGED <<state, active, start, restartIndex, timers, request, seen, killed,
                           child, inbox, lease, stalls>>
       ELSE Fail(TRUE, "rejected")
  /\ UNCHANGED faults

\* A response whose request is no longer pending is dropped.
ReceiveResponse(r) ==
  /\ Message(r) /\ Read
  /\ request' = [request EXCEPT ![r].status = IF @ = "waiting" THEN "answered" ELSE @]
  /\ UNCHANGED <<state, active, start, restartIndex, timers, seen, child, killed, inbox,
                 lease, faults, stalls>>

\* stop, until it awaits the worker or finds none.
Stop ==
  /\ ~Ending
  /\ start' = IF start = "pending" THEN "rejected" ELSE start
  /\ request' = Settled("stopping")
  /\ IF active = None
       THEN state' = "stopped" /\ timers' = {} /\ UNCHANGED inbox
       ELSE /\ state' = "stopping" /\ timers' = {"deadline"}
            /\ inbox' = [inbox EXCEPT ![active] = @ \cup {Quit}]
  /\ UNCHANGED <<active, restartIndex, seen, child, killed, outbox, lease, faults, stalls>>

\* The rest of stop, after the worker's answer or the deadline.
Stopped(prepared) ==
  /\ state' = "stopped" /\ active' = None /\ timers' = {}
  /\ outbox' = [outbox EXCEPT ![active] = <<>>]
  /\ killed' = Sentenced(active, ~prepared)
  /\ UNCHANGED <<start, restartIndex, request, seen, child, inbox, lease, faults, stalls>>

ReceivePrepared == "deadline" \in timers /\ Message(Quit) /\ Stopped(TRUE)
StopAwaitsLife == \* mutant: a dead worker is waited for
  "deadline" \in timers /\ child[active] # "dead" /\ Stopped(FALSE)
StopDeadline == "deadline" \in timers /\ Stopped(FALSE)

SupervisorStep ==
  \/ Start \/ RestartFires \/ HandshakeTimeout \/ ChildExits \/ StableReset
  \/ ReceiveReady \/ ReceiveRejected \/ Stop \/ ReceivePrepared \/ StopDeadline
  \/ \E r \in Requests : SendRequest(r) \/ ReceiveResponse(r)

(***************************************************************************)
(* The worker processes.                                                   *)
(***************************************************************************)
\* What a detached child posts reaches nobody.
Post(g, m) == outbox' = IF g = active THEN [outbox EXCEPT ![g] = Append(@, m)] ELSE outbox
Becomes(g, s) == child' = [child EXCEPT ![g] = s]

\* release deletes the row only if it still names this worker.
ReleaseAny(g) == lease' = NoLease \* mutant: the row is deleted whoever owns it
Release(g) == lease' = IF lease.owner = g THEN NoLease ELSE lease

\* acquire, in one transaction.
HeldStale == lease.owner # None /\ ~lease.fresh \* mutant: the comparison is swapped
Held == lease.owner # None /\ lease.fresh
Acquire(g) ==
  /\ child[g] = "forked"
  /\ IF Held
       THEN Becomes(g, "deaf") /\ Post(g, "rejected") /\ UNCHANGED lease
       ELSE /\ Becomes(g, "starting") /\ lease' = [owner |-> g, fresh |-> TRUE]
            /\ UNCHANGED outbox
  /\ UNCHANGED <<supervisor, killed, inbox, faults, stalls>>

\* The services are built, recovery has run, the heartbeat is set: worker.ready.
BecomeReady(g) ==
  /\ child[g] = "starting"
  /\ Becomes(g, "serving") /\ Post(g, "ready")
  /\ UNCHANGED <<supervisor, killed, inbox, lease, faults, stalls>>

\* startWorker throws: the lease is released and the process exits.
StartupFails(g) ==
  /\ child[g] = "starting" /\ Fault
  /\ Becomes(g, "dead") /\ Release(g)
  /\ UNCHANGED <<supervisor, killed, inbox, outbox, stalls>>

Handle(g, r) ==
  /\ child[g] = "serving" /\ r \in inbox[g] /\ r # Quit
  /\ inbox' = [inbox EXCEPT ![g] = @ \ {r}] /\ Post(g, r)
  /\ UNCHANGED <<supervisor, child, killed, lease, faults, stalls>>

\* The response cannot be posted: the worker stops, releases the lease and lives on.
HandlerBreaks(g, r) ==
  /\ child[g] = "serving" /\ r \in inbox[g] /\ r # Quit /\ Fault
  /\ inbox' = [inbox EXCEPT ![g] = @ \ {r}]
  /\ Becomes(g, "deaf") /\ Release(g)
  /\ UNCHANGED <<supervisor, killed, outbox, stalls>>

PrepareQuit(g) ==
  /\ child[g] = "serving" /\ Quit \in inbox[g]
  /\ inbox' = [inbox EXCEPT ![g] = @ \ {Quit}] /\ Post(g, Quit)
  /\ Becomes(g, "deaf") /\ Release(g)
  /\ UNCHANGED <<supervisor, killed, faults, stalls>>

\* A heartbeat that finds another identity in the row stops the worker.
Heartbeat(g) ==
  /\ child[g] = "serving"
  /\ IF lease.owner = g
       THEN lease' = [lease EXCEPT !.fresh = TRUE] /\ UNCHANGED child
       ELSE Becomes(g, "deaf") /\ UNCHANGED lease
  /\ UNCHANGED <<supervisor, killed, inbox, outbox, faults, stalls>>

\* A process that dies, of its own or of a kill, releases nothing.
Die(g) ==
  /\ g \in Alive
  /\ IF g \in killed THEN UNCHANGED faults ELSE Fault
  /\ Becomes(g, "dead")
  /\ UNCHANGED <<supervisor, killed, inbox, outbox, lease, stalls>>

\* Five seconds without a heartbeat: the owner is dead, or stalled.
LeaseExpires ==
  /\ lease.fresh
  /\ IF lease.owner \in Alive THEN stalls < MaxStalls /\ stalls' = stalls + 1
     ELSE UNCHANGED stalls
  /\ lease' = [lease EXCEPT !.fresh = FALSE]
  /\ UNCHANGED <<supervisor, child, killed, inbox, outbox, faults>>

WorkerStep(g) ==
  \/ Acquire(g) \/ BecomeReady(g) \/ StartupFails(g) \/ PrepareQuit(g) \/ Heartbeat(g)
  \/ Die(g) \/ \E r \in Requests : Handle(g, r) \/ HandlerBreaks(g, r)

Next == SupervisorStep \/ LeaseExpires \/ \E g \in Generations : WorkerStep(g)

Spec == Init /\ [][Next]_vars

(***************************************************************************)
(* Fairness: timers fire, messages and exit events are delivered, a worker *)
(* makes progress while it lives, a killed process dies and a row nobody   *)
(* refreshes expires.  Faults, stalls, Start and Stop need not happen.     *)
(***************************************************************************)
Fairness ==
  /\ WF_vars(RestartFires /\ active' # None)
  /\ WF_vars(HandshakeTimeout) /\ WF_vars(ChildExits)
  /\ WF_vars(ReceiveReady) /\ WF_vars(ReceiveRejected) /\ WF_vars(ReceivePrepared)
  /\ WF_vars(StopDeadline)
  /\ \A r \in Requests : WF_vars(ReceiveResponse(r))
  /\ WF_vars(LeaseExpires /\ lease.owner \notin Alive)
  /\ \A g \in Generations :
       /\ WF_vars(Acquire(g)) /\ WF_vars(BecomeReady(g)) /\ WF_vars(PrepareQuit(g))
       /\ WF_vars(g \in killed /\ Die(g))
       /\ \A r \in Requests : WF_vars(Handle(g, r))
FairSpec == Spec /\ Fairness

(***************************************************************************)
(* Properties.                                                             *)
(***************************************************************************)
Statuses == {"unsent", "waiting", "answered", "disconnected", "stopping"}
TypeOK ==
  /\ state \in {"idle", "starting", "ready", "stopping", "stopped"}
  /\ active \in Generations \cup {None}
  /\ start \in {"none", "pending", "resolved", "rejected"}
  /\ restartIndex \in 0 .. LastBackoff
  /\ timers \subseteq {"restart", "handshake", "stable", "deadline"}
  /\ request \in [Requests -> [status : Statuses, generation : Generations \cup {None}]]
  /\ seen \in {"none", "ready", "disconnected", "rejected"}
  /\ child \in [Generations -> {"dead", "forked", "starting", "serving", "deaf"}]
  /\ killed \subseteq Generations
  /\ inbox \in [Generations -> SUBSET (Requests \cup {Quit})]
  /\ outbox \in [Generations -> Seq({"ready", "rejected", Quit} \cup Requests)]
  /\ lease \in [owner : Generations \cup {None, Previous}, fresh : BOOLEAN]
  /\ faults \in 0 .. MaxFaults /\ stalls \in 0 .. MaxStalls

(* There is one owner of the database: as long as no live worker missed    *)
(* its heartbeats for the whole TTL, two workers never work on the         *)
(* database together, however workers crash, hang and are replaced         *)
(* (WorkerLeaseStore.acquire, createWorkerSupervisor).                     *)
SoleOwner == stalls = 0 => \A g, h \in Owners : g = h

(* No worker is left behind: a process that is alive and was not told to   *)
(* die is the one the supervisor talks to or, after a clean stop, one that *)
(* has released the lease (fail and stop of createWorkerSupervisor).       *)
NoWorkerLeftBehind ==
  \A g \in Alive \ killed : g = active \/ (state = "stopped" /\ child[g] = "deaf")

(* A request the renderer waits for is one the attached worker was sent:   *)
(* none outlives the worker of its generation, or the start of stop.       *)
WaitingFollowsWorker ==
  \A r \in Waiting : state = "ready" /\ request[r].generation = active

(* While the supervisor runs, something always leads on: a child is        *)
(* attached or a replacement is scheduled, never both.                     *)
AttachedOrScheduled ==
  state \in {"starting", "ready"} => (active = None <=> "restart" \in timers)

(* Subscribers see generations one after the other: after a worker.ready   *)
(* they are told that this worker is gone, or refused, before another is   *)
(* attached, which is what lets the renderer restart its replay.           *)
GenerationsAlternate ==
  [][ seen = "ready" /\ active' # active /\ ~Ending' =>
        seen' \in {"disconnected", "rejected"} ]_vars

(* A worker never touches the lease of another: a row that is fresh passes *)
(* to another owner, or goes, only when its own owner gives it up.         *)
LeaseIsRespected ==
  [][ lease.fresh /\ lease'.owner # lease.owner
        => lease.owner \in Owners /\ lease.owner \notin Owners' ]_vars

(* The supervisor does not give up: whatever crashed, hung or was rejected *)
(* for the lease, a started supervisor is ready again or is being stopped. *)
BecomesReadyAgain == state = "starting" ~> state \in {"ready", "stopping", "stopped"}

(* Quitting ends, also when the worker dies or is deaf while it is asked.  *)
StopEnds == state = "stopping" ~> state = "stopped"
=============================================================================
