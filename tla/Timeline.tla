------------------------------ MODULE Timeline ------------------------------
(***************************************************************************)
(* The room timeline of the renderer (renderer/state/timeline-store.ts)    *)
(* over the preload bridge (preload/api.ts), the gateway                   *)
(* (main/ipc/renderer-gateway.ts) and the worker's event store             *)
(* (worker/storage/event-store.ts).  The worker numbers the events of a    *)
(* room 1, 2, 3, ... and keeps them across restarts; the store shows them  *)
(* from live events, replay pages and answers to posted messages.          *)
(*                                                                         *)
(* An event is its room_seq.  The list eventsByRoom[room] is the set       *)
(* shown[room]: the code only appends an event whose room_seq is above the *)
(* last one, so the list is the set in increasing order.                   *)
(*                                                                         *)
(* The renderer is single threaded.  A callback of the channel or of the   *)
(* user is one step; the continuations it wakes wait in jobs, and no other *)
(* callback runs before they have (the microtask queue).                   *)
(***************************************************************************)
EXTENDS Naturals, Sequences, FiniteSets

CONSTANTS
  Rooms,          \* the rooms of the snapshot
  FirstRoom,      \* the room a first hydrate selects
  None,           \* no room
  MaxEvents,      \* a bound on the events of all rooms
  MaxInTransit,   \* a bound on the events and answers on their way to the renderer
  PageLimit,      \* the events of one replay page: 200, or what 64 KiB hold
  MaxGenerations, \* a bound on the worker generations
  MaxCalls        \* a bound on the calls of the user

ASSUME TimelineAssumption ==
  /\ IsFiniteSet(Rooms) /\ FirstRoom \in Rooms /\ None \notin Rooms
  /\ MaxEvents \in Nat /\ MaxInTransit \in Nat \ {0}
  /\ PageLimit \in Nat \ {0}
  /\ MaxGenerations \in Nat \ {0} /\ MaxCalls \in Nat

VARIABLES
  log,        \* the number of events of every room in room_events
  worker,     \* the worker: whether it serves, and its generation
  requests,   \* the requests that are not answered
  channel,    \* the messages from the main process to the renderer
  preload,    \* the generation the preload bridge stamps on requests
  epoch,      \* lifecycleEpoch
  sequence,   \* statusSequence
  status,     \* the connection, and publishedStatusSequence
  known,      \* workerGeneration, workerReady and hasHydrated of the store
  snapshot,   \* the roomCursors of the snapshot
  selected,   \* selectedRoomId
  shown,      \* eventsByRoom
  catches,    \* the replays in flight, each with the calls that wait for it
  hydrating,  \* hydrateTask
  refreshes,  \* the chain of forced hydrates of this epoch
  jobs,       \* the continuations that run before the next callback
  calls,      \* the calls of the user so far, bounded by MaxCalls
  published,  \* history: the last event of every room that was sent live
  posted      \* history: the messages whose postMessage succeeded

vars == <<log, worker, requests, channel, preload, epoch, sequence, status, known,
          snapshot, selected, shown, catches, hydrating, refreshes, jobs, calls,
          published, posted>>

Greatest(S) == IF S = {} THEN 0 ELSE CHOOSE n \in S : \A k \in S : k <= n

-----------------------------------------------------------------------------
(* Calls and requests *)

(* A call of the store in flight: what continues it needs. *)
NewCall(kind, room, operation) ==
  [kind |-> kind, room |-> room, epoch |-> epoch, operation |-> operation, seq |-> 0]

(* api.request: the bridge stamps the generation it knows by then. *)
Sent(call, cursor) ==
  [call |-> call, cursor |-> cursor, generation |-> preload', committed |-> 0]

NoTask == [epoch |-> 0, operation |-> 0]
FirstCall == [kind |-> "hydrate", room |-> None, epoch |-> 0, operation |-> 1, seq |-> 0]

(* The application has mounted and called hydrate (App.tsx).  The worker may *)
(* have become ready before the window could hear of it.                     *)
Init ==
  /\ log = [r \in Rooms |-> 0]
  /\ worker \in {[up |-> FALSE, generation |-> 0], [up |-> TRUE, generation |-> 1]}
  /\ requests = {[call |-> FirstCall, cursor |-> 0, generation |-> 0, committed |-> 0]}
  /\ channel = <<>> /\ preload = 0 /\ epoch = 0 /\ sequence = 1
  /\ status = [connection |-> "bootstrapping", operation |-> 1]
  /\ known = [generation |-> 0, ready |-> FALSE, hydrated |-> FALSE]
  /\ snapshot = [r \in Rooms |-> 0] /\ selected = None
  /\ shown = [r \in Rooms |-> {}] /\ catches = {}
  /\ hydrating = [epoch |-> 0, operation |-> 1]
  /\ refreshes = <<>> /\ jobs = <<>> /\ calls = 0
  /\ published = [r \in Rooms |-> 0] /\ posted = {}

-----------------------------------------------------------------------------
(* The worker and the gateway *)

RoomEvent(room, seq) ==
  [type |-> "room.event", generation |-> worker.generation, room |-> room, seq |-> seq]

(* Mutant: one event too many. *)
LaterEventsOne(room, seq) ==
  [i \in 1 .. (log[room] - seq + 2) |-> RoomEvent(room, seq + i - 1)]

(* The events a message.post handler publishes after its answer: the message *)
(* and everything appended to the room since.                                *)
LaterEvents(room, seq) ==
  [i \in 1 .. (log[room] - seq + 1) |-> RoomEvent(room, seq + i - 1)]

(* The bounds. *)
MoreEvents ==
  Cardinality({e \in Rooms \X (1 .. MaxEvents) : e[2] <= log[e[1]]}) < MaxEvents
Transit == Len(channel) < MaxInTransit

(* A handler or the task engine appends an event; some of them are sent live *)
(* (TaskEngine's publish), others only with a later message or replay.       *)
AppendEvent(room) ==
  /\ worker.up /\ MoreEvents /\ Transit
  /\ log' = [log EXCEPT ![room] = @ + 1]
  /\ \/ /\ channel' = Append(channel, RoomEvent(room, log[room] + 1))
        /\ published' = [published EXCEPT ![room] = log[room] + 1]
     \/ UNCHANGED <<channel, published>>
  /\ UNCHANGED <<worker, requests>>

(* The gateway lets a request through when it carries the generation of the *)
(* active worker; only the bootstrap snapshot may not know one.             *)
Accepted(q) ==
  /\ worker.up
  /\ \/ q.generation = worker.generation
     \/ q.call.kind = "hydrate" /\ q.generation = 0

Reply(q, outcome, data) ==
  [type |-> "reply", call |-> q.call, cursor |-> q.cursor, sent |-> q.generation,
   generation |-> worker.generation, outcome |-> outcome, data |-> data]

(* The gateway refuses a request, or the supervisor fails it with its worker. *)
Reject(q) ==
  /\ ~Accepted(q)
  /\ requests' = requests \ {q}
  /\ channel' = Append(channel, Reply(q, "rejected", 0))
  /\ UNCHANGED <<log, worker, published>>

AnswerSnapshot(q) ==
  /\ q.call.kind = "hydrate" /\ Accepted(q)
  /\ requests' = requests \ {q}
  /\ channel' = Append(channel, Reply(q, "ok", log))
  /\ UNCHANGED <<log, worker, published>>

(* EventStore.after: at most PageLimit events above the cursor. *)
Page(room, cursor) ==
  [events |-> {n \in 1 .. log[room] : cursor < n /\ n <= cursor + PageLimit},
   hasMore |-> log[room] > cursor + PageLimit]

AnswerReplay(q) ==
  /\ q.call.kind = "replay" /\ Accepted(q)
  /\ requests' = requests \ {q}
  /\ channel' = Append(channel, Reply(q, "ok", Page(q.call.room, q.cursor)))
  /\ UNCHANGED <<log, worker, published>>

(* message.post: the message is durable before its tasks are created; the *)
(* answer follows later, or never when the worker dies in between.        *)
CommitPost(q) ==
  /\ q.call.kind = "post" /\ q.committed = 0 /\ Accepted(q)
  /\ MoreEvents
  /\ log' = [log EXCEPT ![q.call.room] = @ + 1]
  /\ requests' = (requests \ {q})
       \cup {[q EXCEPT !.committed = log[q.call.room] + 1]}
  /\ UNCHANGED <<worker, channel, published>>

AnswerPost(q) ==
  /\ q.call.kind = "post" /\ q.committed # 0 /\ Accepted(q)
  /\ requests' = requests \ {q}
  /\ channel' = Append(channel, Reply(q, "ok", q.committed))
                  \o LaterEvents(q.call.room, q.committed)
  /\ published' = [published EXCEPT ![q.call.room] = log[q.call.room]]
  /\ UNCHANGED <<log, worker>>

(* room.create, project.addExisting and the cleanup commands. *)
AnswerMutation(q) ==
  /\ q.call.kind \in {"create", "remove"} /\ Accepted(q)
  /\ requests' = requests \ {q}
  /\ channel' = Append(channel, Reply(q, "ok", 0))
  /\ UNCHANGED <<log, worker, published>>

(* The handler of a command throws: an answer that is not ok. *)
Refuse(q) ==
  /\ q.call.kind \in {"post", "create", "remove"} /\ Accepted(q)
  /\ requests' = requests \ {q}
  /\ channel' = Append(channel, Reply(q, "refused", 0))
  /\ UNCHANGED <<log, worker, published>>

Announced(type, generation) ==
  Append(channel, [type |-> type, generation |-> generation])

Crash ==
  /\ worker.up /\ worker.generation < MaxGenerations
  /\ worker' = [worker EXCEPT !.up = FALSE]
  /\ channel' = Announced("worker.disconnected", worker.generation)
  /\ UNCHANGED <<log, requests, published>>

Restart ==
  /\ ~worker.up
  /\ worker' = [up |-> TRUE, generation |-> worker.generation + 1]
  /\ channel' = Announced("worker.ready", worker.generation + 1)
  /\ UNCHANGED <<log, requests, published>>

Answer(q) ==
  /\ Transit
  /\ \/ Reject(q) \/ AnswerSnapshot(q) \/ AnswerReplay(q) \/ CommitPost(q)
     \/ AnswerPost(q) \/ AnswerMutation(q) \/ Refuse(q)

ServerStep ==
  /\ \/ \E room \in Rooms : AppendEvent(room)
     \/ \E q \in requests : Answer(q)
     \/ Crash \/ Restart
  /\ UNCHANGED <<preload, epoch, sequence, status, known, snapshot, selected, shown,
                 catches, hydrating, refreshes, jobs, calls, posted>>

-----------------------------------------------------------------------------
(* What the store's functions do *)

IsCurrent(call) == call.epoch = epoch

Cursor(room) == Greatest(shown[room])

(* patchStatus: an operation older than the one on display is not shown. *)
Patched(call, connection) ==
  IF IsCurrent(call) /\ call.operation >= status.operation
  THEN [connection |-> connection, operation |-> call.operation]
  ELSE status

(* Mutant: the event after the cursor counts as seen. *)
FreshOff(room, events) == {n \in events : n > Cursor(room) + 1}

(* planAcceptedEvents: what is new, and whether it leaves a gap. *)
Fresh(room, events) == {n \in events : n > Cursor(room)}

LeavesGap(room, events) ==
  \E n \in Fresh(room, events) : ~ (Cursor(room) + 1 .. n \subseteq events)

(* catchUp: join the replay of this epoch, or start one. *)
InFlight(room) == {k \in catches : k.room = room /\ k.epoch = epoch}

CatchUp(call) ==
  IF InFlight(call.room) = {}
  THEN /\ catches' = catches \cup
            {[room |-> call.room, epoch |-> epoch, waiters |-> <<call>>]}
       /\ requests' = requests \cup
            {Sent(NewCall("replay", call.room, 0), Cursor(call.room))}
  ELSE /\ catches' = {IF k \in InFlight(call.room)
                        THEN [k EXCEPT !.waiters = Append(@, call)]
                        ELSE k : k \in catches}
       /\ UNCHANGED requests

(* hydrateForEpoch, once it has decided to start: it is the newest operation. *)
StartHydrate(newEpoch) ==
  /\ sequence' = sequence + 1
  /\ status' = [connection |-> IF known.hydrated THEN "reconnecting" ELSE "bootstrapping",
                operation |-> sequence + 1]
  /\ hydrating' = [epoch |-> newEpoch, operation |-> sequence + 1]
  /\ requests' = requests \cup
       {Sent([NewCall("hydrate", None, sequence + 1) EXCEPT !.epoch = newEpoch], 0)}

Active == hydrating # NoTask /\ hydrating.epoch = epoch

(* The end of runHydrate, and of the refresh that waits for it. *)
FinishHydrate(call, outcome, rest) ==
  /\ status' = Patched(call, IF outcome = "ok" THEN "ready" ELSE "error")
  /\ known' = [known EXCEPT !.hydrated = @ \/ (outcome = "ok" /\ IsCurrent(call))]
  /\ hydrating' = IF hydrating = [epoch |-> call.epoch, operation |-> call.operation]
                  THEN NoTask ELSE hydrating
  /\ IF refreshes # <<>> /\ Head(refreshes).operation = call.operation
     THEN /\ jobs' = Append(rest, [call |-> Head(refreshes).call, outcome |-> "ok"])
          /\ refreshes' = Tail(refreshes)
     ELSE /\ jobs' = rest
          /\ UNCHANGED refreshes

(* selectRoom *)
Select(room) ==
  /\ sequence' = sequence + 1
  /\ selected' = room
  /\ CatchUp(NewCall("select", room, sequence + 1))

(* forceFreshHydrate: a refresh waits for the one before it. *)
ForceFresh(call) == refreshes' = Append(refreshes, [call |-> call, operation |-> 0])

RefreshReady ==
  /\ refreshes # <<>> /\ Head(refreshes).operation = 0
  /\ ~Active

Idle == jobs = <<>> /\ ~RefreshReady

-----------------------------------------------------------------------------
(* Continuations *)

HydrateContinues(job) ==
  /\ job.call.kind = "hydrate"
  /\ FinishHydrate(job.call, job.outcome, Tail(jobs))
  /\ UNCHANGED <<sequence, selected, shown, catches, requests, posted>>

SelectContinues(job) ==
  /\ job.call.kind = "select"
  /\ jobs' = Tail(jobs)
  /\ status' = IF job.outcome # "ok" THEN Patched(job.call, "error") ELSE status
  /\ UNCHANGED <<sequence, known, selected, shown, catches, requests, hydrating,
                 refreshes, posted>>

(* A live event or a posted message after its catch-up: acceptEvent. *)
EventContinues(job) ==
  LET call == job.call
      fails == job.outcome # "ok" \/ LeavesGap(call.room, {call.seq})
  IN /\ call.kind \in {"live", "post"}
     /\ jobs' = Tail(jobs)
     /\ \/ /\ ~IsCurrent(call)
           /\ UNCHANGED <<status, shown, posted>>
        \/ /\ IsCurrent(call) /\ fails
           /\ status' = Patched(call, "error")
           /\ UNCHANGED <<shown, posted>>
        \/ /\ IsCurrent(call) /\ ~fails
           /\ shown' = [shown EXCEPT ![call.room] = @ \cup Fresh(call.room, {call.seq})]
           /\ posted' = IF call.kind = "post"
                        THEN posted \cup {[room |-> call.room, seq |-> call.seq]}
                        ELSE posted
           /\ UNCHANGED status
     /\ UNCHANGED <<sequence, known, selected, catches, requests, hydrating, refreshes>>

(* createRoom selects the room it made once the refresh has ended well. *)
MutationContinues(job) ==
  /\ job.call.kind \in {"create", "remove"}
  /\ jobs' = Tail(jobs)
  /\ IF job.call.kind = "create" /\ IsCurrent(job.call) /\ status.connection # "error"
     THEN Select(job.call.room)
     ELSE UNCHANGED <<sequence, selected, catches, requests>>
  /\ UNCHANGED <<status, known, shown, hydrating, refreshes, posted>>

Continue ==
  /\ jobs # <<>>
  /\ \/ HydrateContinues(Head(jobs)) \/ SelectContinues(Head(jobs))
     \/ EventContinues(Head(jobs)) \/ MutationContinues(Head(jobs))

StartRefresh ==
  /\ jobs = <<>> /\ RefreshReady
  /\ StartHydrate(epoch)
  /\ refreshes' = <<[Head(refreshes) EXCEPT !.operation = sequence + 1]>> \o Tail(refreshes)
  /\ UNCHANGED <<known, selected, shown, catches, jobs, posted>>

RunJob ==
  /\ UNCHANGED <<log, worker, channel, published, preload, epoch, snapshot, calls>>
  /\ Continue \/ StartRefresh

-----------------------------------------------------------------------------
(* Answers *)

(* The bridge drops an answer when another worker was announced meanwhile. *)
Obsolete(m) ==
  IF m.call.kind = "hydrate" /\ m.sent = 0
  THEN preload # 0 /\ m.generation # preload
  ELSE m.generation # m.sent \/ preload # m.sent

Failed(m) == m.outcome = "rejected" \/ Obsolete(m)

ReceiveSnapshot(m) ==
  LET room == IF selected = None THEN FirstRoom ELSE selected
      loads == ~Failed(m) /\ IsCurrent(m.call)
  IN /\ m.call.kind = "hydrate"
     /\ \/ /\ ~loads
           /\ FinishHydrate(m.call, IF Failed(m) THEN "failed" ELSE "ok", jobs)
           /\ UNCHANGED <<snapshot, selected, catches, requests>>
        \/ /\ loads
           /\ known' = IF known.generation # 0 THEN known
                       ELSE [known EXCEPT !.generation = m.generation, !.ready = TRUE]
           /\ snapshot' = m.data
           /\ selected' = room
           /\ CatchUp([m.call EXCEPT !.room = room])
           /\ UNCHANGED <<status, hydrating, refreshes, jobs>>
     /\ UNCHANGED <<sequence, shown, posted>>

(* The promise of a catch-up settles: its waiters go on in order. *)
ReplayEnds(m, outcome) ==
  \E k \in catches :
    /\ k.room = m.call.room /\ k.epoch = m.call.epoch
    /\ catches' = catches \ {k}
    /\ jobs' = [i \in DOMAIN k.waiters |-> [call |-> k.waiters[i], outcome |-> outcome]]
    /\ UNCHANGED requests

(* Mutant: the first page is taken for the whole. *)
NeedsMoreNever(m, tail) == FALSE

(* A page is an error unless its tail is where the timeline ends with it. *)
BadPage(m) ==
  LET room == m.call.room
      tail == Greatest(m.data.events \cup {m.cursor})
  IN \/ LeavesGap(room, m.data.events)
     \/ tail # Greatest(shown[room] \cup Fresh(room, m.data.events))

NeedsMore(m, tail) == m.data.hasMore \/ tail < snapshot[m.call.room]

AcceptPage(m) ==
  LET room == m.call.room
      fresh == Fresh(room, m.data.events)
      tail == Greatest(shown[room] \cup fresh)
  IN /\ shown' = [shown EXCEPT ![room] = @ \cup fresh]
     /\ IF NeedsMore(m, tail) /\ tail # m.cursor
        THEN /\ requests' = requests \cup {Sent(m.call, tail)}
             /\ UNCHANGED <<catches, jobs>>
        ELSE ReplayEnds(m, IF NeedsMore(m, tail) THEN "error" ELSE "ok")

ReceivePage(m) ==
  /\ m.call.kind = "replay"
  /\ \/ /\ Failed(m)
        /\ ReplayEnds(m, "failed") /\ UNCHANGED shown
     \/ /\ ~Failed(m) /\ ~IsCurrent(m.call)
        /\ ReplayEnds(m, "ok") /\ UNCHANGED shown
     \/ /\ ~Failed(m) /\ IsCurrent(m.call) /\ BadPage(m)
        /\ ReplayEnds(m, "error") /\ UNCHANGED shown
     \/ /\ ~Failed(m) /\ IsCurrent(m.call) /\ ~BadPage(m)
        /\ AcceptPage(m)
  /\ UNCHANGED <<sequence, status, known, snapshot, selected, hydrating, refreshes, posted>>

(* A refusal of the worker is the caller's to show, not the connection's. *)
ReceivePosted(m) ==
  LET call == [m.call EXCEPT !.seq = m.data]
  IN /\ m.call.kind = "post"
     /\ \/ /\ Failed(m)
           /\ status' = Patched(m.call, "error")
           /\ UNCHANGED <<catches, requests, jobs>>
        \/ /\ ~Failed(m) /\ (m.outcome = "refused" \/ ~IsCurrent(m.call))
           /\ UNCHANGED <<status, catches, requests, jobs>>
        \/ /\ ~Failed(m) /\ m.outcome = "ok" /\ IsCurrent(m.call)
           /\ IF m.data > Cursor(m.call.room) + 1
              THEN CatchUp(call) /\ UNCHANGED jobs
              ELSE /\ jobs' = Append(jobs, [call |-> call, outcome |-> "ok"])
                   /\ UNCHANGED <<catches, requests>>
           /\ UNCHANGED status
     /\ UNCHANGED <<sequence, known, snapshot, selected, shown, hydrating, refreshes,
                    posted>>

ReceiveMutation(m) ==
  /\ m.call.kind \in {"create", "remove"}
  /\ IF Failed(m) \/ m.outcome = "refused"
     THEN /\ status' = IF m.call.kind = "create" THEN Patched(m.call, "error") ELSE status
          /\ UNCHANGED refreshes
     ELSE /\ IF IsCurrent(m.call) THEN ForceFresh(m.call) ELSE UNCHANGED refreshes
          /\ UNCHANGED status
  /\ UNCHANGED <<sequence, known, snapshot, selected, shown, catches, requests, hydrating,
                 jobs, posted>>

ReceiveReply(m) ==
  /\ m.type = "reply"
  /\ preload' = IF Failed(m) THEN preload ELSE m.generation
  /\ ReceiveSnapshot(m) \/ ReceivePage(m) \/ ReceivePosted(m) \/ ReceiveMutation(m)
  /\ UNCHANGED epoch

-----------------------------------------------------------------------------
(* Worker events *)

Heard(m) == known.ready /\ m.generation = known.generation

(* Mutant: a live event is shown across a gap. *)
ReceiveRoomEventAnyway(m) ==
  /\ m.type = "room.event"
  /\ shown' = IF Heard(m) /\ m.seq > Cursor(m.room)
              THEN [shown EXCEPT ![m.room] = @ \cup {m.seq}] ELSE shown
  /\ UNCHANGED <<sequence, catches, requests, epoch, status, known, hydrating, refreshes>>

(* Mutant: a live event after a gap is dropped. *)
ReceiveRoomEventDropped(m) ==
  /\ m.type = "room.event"
  /\ shown' = IF Heard(m) /\ m.seq = Cursor(m.room) + 1
              THEN [shown EXCEPT ![m.room] = @ \cup {m.seq}] ELSE shown
  /\ UNCHANGED <<sequence, catches, requests, epoch, status, known, hydrating, refreshes>>

ReceiveRoomEvent(m) ==
  /\ m.type = "room.event"
  /\ \/ /\ ~Heard(m) \/ m.seq <= Cursor(m.room)
        /\ UNCHANGED <<sequence, shown, catches, requests>>
     \/ /\ Heard(m) /\ m.seq = Cursor(m.room) + 1
        /\ shown' = [shown EXCEPT ![m.room] = @ \cup {m.seq}]
        /\ UNCHANGED <<sequence, catches, requests>>
     \/ /\ Heard(m) /\ m.seq > Cursor(m.room) + 1
        /\ sequence' = sequence + 1
        /\ CatchUp([NewCall("live", m.room, sequence + 1) EXCEPT !.seq = m.seq])
        /\ UNCHANGED shown
  /\ UNCHANGED <<epoch, status, known, hydrating, refreshes>>

(* A new epoch: what the older ones still wait for no longer counts, and the *)
(* chain of refreshes starts anew.                                           *)
ReceiveDisconnected(m) ==
  /\ m.type = "worker.disconnected"
  /\ IF known.generation # 0 /\ m.generation # known.generation
     THEN UNCHANGED <<epoch, sequence, status, known, refreshes>>
     ELSE /\ known' = [known EXCEPT !.ready = FALSE]
          /\ epoch' = epoch + 1
          /\ sequence' = sequence + 1
          /\ status' = [connection |-> "reconnecting", operation |-> sequence + 1]
          /\ refreshes' = <<>>
  /\ UNCHANGED <<shown, catches, requests, hydrating>>

ReceiveReady(m) ==
  LET isNew == m.generation # known.generation
      newEpoch == IF isNew THEN epoch + 1 ELSE epoch
  IN /\ m.type = "worker.ready"
     /\ IF known.ready /\ ~isNew
        THEN UNCHANGED <<epoch, sequence, status, known, requests, hydrating, refreshes>>
        ELSE /\ known' = [known EXCEPT !.generation = m.generation, !.ready = TRUE]
             /\ epoch' = newEpoch
             /\ refreshes' = IF isNew THEN <<>> ELSE refreshes
             /\ IF hydrating # NoTask /\ hydrating.epoch = newEpoch
                THEN UNCHANGED <<sequence, status, hydrating, requests>>
                ELSE StartHydrate(newEpoch)
     /\ UNCHANGED <<shown, catches>>

ReceiveEvent(m) ==
  /\ m.type # "reply"
  /\ preload' = m.generation
  /\ ReceiveRoomEvent(m) \/ ReceiveDisconnected(m) \/ ReceiveReady(m)
  /\ UNCHANGED <<snapshot, selected, jobs, posted>>

Receive ==
  /\ Idle /\ channel # <<>>
  /\ channel' = Tail(channel)
  /\ ReceiveReply(Head(channel)) \/ ReceiveEvent(Head(channel))
  /\ UNCHANGED <<log, worker, published, calls>>

-----------------------------------------------------------------------------
(* Calls of the user, once a snapshot is loaded *)

SelectRoom(room) ==
  /\ Select(room)
  /\ UNCHANGED <<status, hydrating, refreshes>>

(* postMessage, which the composer offers while the connection is ready. *)
PostMessage ==
  /\ status.connection = "ready"
  /\ sequence' = sequence + 1
  /\ requests' = requests \cup {Sent(NewCall("post", selected, sequence + 1), 0)}
  /\ UNCHANGED <<selected, catches, status, hydrating, refreshes>>

(* createRoom and addProject: the mutation, a forced refresh, a selection. *)
CreateRoom(room) ==
  /\ room # selected
  /\ sequence' = sequence + 1
  /\ requests' = requests \cup {Sent(NewCall("create", room, sequence + 1), 0)}
  /\ UNCHANGED <<selected, catches, status, hydrating, refreshes>>

(* removeRoomCleanup and removeProjectCleanup begin no status operation; seq *)
(* tells two of them apart.                                                  *)
RemoveCleanup ==
  /\ requests' = requests \cup
       {Sent([NewCall("remove", FirstRoom, 0) EXCEPT !.seq = calls], 0)}
  /\ UNCHANGED <<sequence, selected, catches, status, hydrating, refreshes>>

UserCall ==
  /\ Idle /\ calls < MaxCalls /\ selected # None
  /\ calls' = calls + 1
  /\ UNCHANGED <<log, worker, channel, published, preload, epoch, known, snapshot, shown,
                 jobs, posted>>
  /\ \/ \E room \in Rooms : SelectRoom(room) \/ CreateRoom(room)
     \/ PostMessage \/ RemoveCleanup

Next == ServerStep \/ RunJob \/ Receive \/ UserCall

Spec == Init /\ [][Next]_vars

(* The worker answers, the supervisor restarts it, the event loop runs.  No  *)
(* fairness for the user, the tasks that append events, or crashes.          *)
Answers == /\ \E q \in requests : Answer(q)
           /\ UNCHANGED <<preload, epoch, sequence, status, known, snapshot, selected,
                          shown, catches, hydrating, refreshes, jobs, calls, posted>>
Restarts == /\ Restart
            /\ UNCHANGED <<preload, epoch, sequence, status, known, snapshot, selected,
                           shown, catches, hydrating, refreshes, jobs, calls, posted>>

FairSpec == /\ Spec
            /\ WF_vars(Answers) /\ WF_vars(Restarts)
            /\ WF_vars(RunJob) /\ WF_vars(Receive)

-----------------------------------------------------------------------------
(* Properties *)

Calls == [kind : {"hydrate", "replay", "post", "create", "remove", "select", "live"},
          room : Rooms \cup {None}, epoch : Nat, operation : Nat, seq : Nat]

(* Type correctness of the store, the worker and what is between them. *)
TypeOK ==
  /\ log \in [Rooms -> 0 .. MaxEvents]
  /\ worker \in [up : BOOLEAN, generation : 0 .. MaxGenerations]
  /\ \A q \in requests : /\ q.call \in Calls /\ q.cursor \in 0 .. MaxEvents
                         /\ q.generation \in 0 .. MaxGenerations
                         /\ q.committed \in 0 .. MaxEvents
  /\ preload \in 0 .. MaxGenerations
  /\ epoch \in Nat /\ sequence \in Nat
  /\ status \in [connection : {"bootstrapping", "ready", "reconnecting", "error"},
                 operation : Nat]
  /\ known \in [generation : 0 .. MaxGenerations, ready : BOOLEAN, hydrated : BOOLEAN]
  /\ snapshot \in [Rooms -> 0 .. MaxEvents] /\ selected \in Rooms \cup {None}
  /\ shown \in [Rooms -> SUBSET (1 .. MaxEvents)]
  /\ \A k \in catches : k.room \in Rooms /\ k.epoch \in Nat
                        /\ \A i \in DOMAIN k.waiters : k.waiters[i] \in Calls
  /\ hydrating \in [epoch : Nat, operation : Nat]
  /\ \A i \in DOMAIN refreshes : refreshes[i].call \in Calls
  /\ \A i \in DOMAIN jobs : jobs[i].call \in Calls /\ jobs[i].outcome \in {"ok", "failed", "error"}
  /\ calls \in 0 .. MaxCalls

(* A room's timeline is a prefix of its log: no event is skipped, whatever   *)
(* live events, replay pages and answers overtake or repeat each other and   *)
(* however often the worker restarts (planAcceptedEvents).                   *)
ShownIsPrefix ==
  \A room \in Rooms : \E n \in 0 .. log[room] : shown[room] = 1 .. n

(* Ready is shown over a live worker and an up to date timeline: nothing    *)
(* begun before a disconnect shows ready after it and, unless its replay is  *)
(* under way, the selected room holds every event its snapshot counted.      *)
ReadyIsCaughtUp ==
  status.connection = "ready" =>
    /\ known.ready
    /\ Idle => \/ InFlight(selected) # {}
               \/ Cursor(selected) >= snapshot[selected]

(* A message whose postMessage succeeded is in the timeline. *)
PostedIsShown == \A p \in posted : p.seq \in shown[p.room]

(* The events the worker sent live reach the timeline of the selected room,  *)
(* or the connection shows an error: a disconnect in between loses nothing.  *)
Behind == selected # None /\ Cursor(selected) < published[selected]

PublishedIsShown == Behind ~> (~Behind \/ status.connection = "error")

-----------------------------------------------------------------------------
(* What the code is meant to do and does not: TLC refutes it (see the        *)
(* README).                                                                  *)

(* The next step of the store shows a request that failed or was refused.    *)
Excused ==
  IF jobs # <<>> THEN Head(jobs).outcome = "failed"
  ELSE /\ channel # <<>> /\ Head(channel).type = "reply"
       /\ Failed(Head(channel)) \/ Head(channel).outcome = "refused"

(* The store never raises an alarm of its own: the connection turns to error *)
(* only where a request failed or was refused, not because live events were  *)
(* accepted while a replay was in flight (runCatchUp).                       *)
NoFalseAlarm ==
  [][status.connection # "error" /\ status'.connection = "error" => Excused]_vars
=============================================================================
