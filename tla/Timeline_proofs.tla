-------------------------- MODULE Timeline_proofs --------------------------
(***************************************************************************)
(* The timeline of a room is a prefix of its log, a message that was       *)
(* posted with success is in it, and ready is shown over a live worker and *)
(* a timeline that is caught up, for every set of rooms, page size and     *)
(* number of events, generations and calls.                                *)
(*                                                                         *)
(* The prefix (PrefixInv): whatever travels (an event, a page, the answer  *)
(* to a post) or waits (a call behind a catch-up, a continuation) speaks   *)
(* of events that are recorded, and the log only grows; planAcceptedEvents *)
(* extends a prefix to a longer one or refuses.                            *)
(*                                                                         *)
(* Ready (StatusInv, over the types):                                      *)
(*   OrderInv    after a disconnect the channel has refusals only until a  *)
(*               worker is ready, so no snapshot is loaded from a dead one *)
(*   HydrateInv  the hydrate of the epoch is in one place: asked for,      *)
(*               answered, behind a catch-up or about to end; it is the    *)
(*               one of hydrateTask                                        *)
(*   LoadedInv   once its snapshot is loaded, the selected room has what   *)
(*               the snapshot counted, or a call of the hydrate's          *)
(*               operation or a later one sees to it or shows an error     *)
(*   ReadyInv    what ready promises, the same, of the operation on        *)
(*               display, with no hydrate under way                        *)
(* A failure that covers a promise is shown by its continuation unless a   *)
(* later operation is on display (patchStatus), which is why the promise   *)
(* names the operation.                                                    *)
(***************************************************************************)
EXTENDS Timeline, FiniteSetTheorems, SequenceTheorems, WellFoundedInduction, TLAPS

-----------------------------------------------------------------------------
(* Sequences and their elements *)

IsSequence(s) == \E S : s \in Seq(S)
Elements(s) == {s[i] : i \in DOMAIN s}

(* The empty sequence has no elements. *)
LEMMA EmptyElements == IsSequence(<<>>) /\ Elements(<<>>) = {}
<1>1. <<>> \in Seq({})  BY EmptySeq
<1>2. Len(<<>>) = 0 /\ DOMAIN <<>> = 1 .. Len(<<>>)  BY <1>1, EmptySeq, LenProperties
<1>3. \A i \in DOMAIN <<>> : FALSE  BY <1>2
<1> QED BY <1>1, <1>3 DEF IsSequence, Elements

(* A sequence of one element. *)
LEMMA SingleElement ==
  ASSUME NEW e
  PROVE  IsSequence(<<e>>) /\ \A x \in Elements(<<e>>) : x = e
<1>1. <<e>> \in Seq({e})  OBVIOUS
<1>2. \A x \in Elements(<<e>>) : x = e  BY DEF Elements
<1> QED BY <1>1, <1>2 DEF IsSequence

(* Append adds one element. *)
LEMMA AppendElements ==
  ASSUME NEW s, NEW e, IsSequence(s)
  PROVE  /\ IsSequence(Append(s, e))
         /\ \A x \in Elements(Append(s, e)) : x \in Elements(s) \/ x = e
<1>1. PICK S : s \in Seq(S)  BY DEF IsSequence
<1> DEFINE T == S \cup {e}
<1>2. s \in Seq(T)  BY <1>1, SeqMonotonic
<1>3. /\ Append(s, e) \in Seq(T)
      /\ Len(Append(s, e)) = Len(s) + 1
      /\ \A i \in 1 .. Len(s) : Append(s, e)[i] = s[i]
      /\ Append(s, e)[Len(s) + 1] = e
  BY <1>2, AppendProperties
<1> HIDE DEF T
<1>4. DOMAIN s = 1 .. Len(s) /\ Len(s) \in Nat  BY <1>2, LenProperties
<1>5. DOMAIN Append(s, e) = 1 .. Len(s) + 1  BY <1>3, LenProperties
<1>6. ASSUME NEW i \in 1 .. Len(s) + 1
      PROVE  Append(s, e)[i] \in Elements(s) \/ Append(s, e)[i] = e
  <2>1. CASE i = Len(s) + 1  BY <2>1, <1>3
  <2>2. CASE i \in 1 .. Len(s)  BY <2>2, <1>3, <1>4 DEF Elements
  <2> QED BY <2>1, <2>2, <1>4
<1>7. IsSequence(Append(s, e))  BY <1>3 DEF IsSequence
<1> QED BY <1>5, <1>6, <1>7 DEF Elements

(* The head and the tail of a sequence hold elements of it. *)
LEMMA TailElements ==
  ASSUME NEW s, IsSequence(s), s # <<>>
  PROVE  /\ IsSequence(Tail(s)) /\ Elements(Tail(s)) \subseteq Elements(s)
         /\ Head(s) \in Elements(s)
<1>1. PICK S : s \in Seq(S)  BY DEF IsSequence
<1>2. /\ Tail(s) \in Seq(S) /\ Len(Tail(s)) = Len(s) - 1
      /\ \A i \in 1 .. Len(Tail(s)) : Tail(s)[i] = s[i + 1]
  BY <1>1, HeadTailProperties
<1>3. DOMAIN s = 1 .. Len(s) /\ Len(s) \in Nat \ {0}  BY <1>1, LenProperties, EmptySeq
<1>4. DOMAIN Tail(s) = 1 .. Len(s) - 1  BY <1>2, LenProperties
<1>5. Head(s) = s[1]  BY <1>1
<1>6. \A i \in 1 .. Len(s) - 1 : Tail(s)[i] = s[i + 1] /\ i + 1 \in DOMAIN s  BY <1>2, <1>3
<1>7. Elements(Tail(s)) \subseteq Elements(s)  BY <1>4, <1>6 DEF Elements
<1>8. Head(s) \in Elements(s)  BY <1>3, <1>5 DEF Elements
<1> QED BY <1>2, <1>7, <1>8 DEF IsSequence

(* A concatenation holds the elements of its parts. *)
LEMMA ConcatElements ==
  ASSUME NEW s, NEW t, IsSequence(s), IsSequence(t)
  PROVE  /\ IsSequence(s \o t)
         /\ \A x \in Elements(s \o t) : x \in Elements(s) \/ x \in Elements(t)
<1>1. PICK S : s \in Seq(S)  BY DEF IsSequence
<1>2. PICK T : t \in Seq(T)  BY DEF IsSequence
<1> DEFINE U == S \cup T
<1>3. s \in Seq(U) /\ t \in Seq(U)  BY <1>1, <1>2, SeqMonotonic
<1> HIDE DEF U
<1>4. /\ s \o t \in Seq(U) /\ Len(s \o t) = Len(s) + Len(t)
      /\ \A i \in 1 .. Len(s) + Len(t) :
            (s \o t)[i] = IF i <= Len(s) THEN s[i] ELSE t[i - Len(s)]
  BY <1>3, ConcatProperties
<1>5. /\ DOMAIN s = 1 .. Len(s) /\ Len(s) \in Nat
      /\ DOMAIN t = 1 .. Len(t) /\ Len(t) \in Nat
  BY <1>3, LenProperties
<1>6. DOMAIN (s \o t) = 1 .. Len(s) + Len(t)  BY <1>4, LenProperties
<1>7. ASSUME NEW i \in 1 .. Len(s) + Len(t)
      PROVE  (s \o t)[i] \in Elements(s) \/ (s \o t)[i] \in Elements(t)
  <2>1. CASE i <= Len(s)
    <3>1. i \in DOMAIN s /\ (s \o t)[i] = s[i]  BY <2>1, <1>4, <1>5
    <3> QED BY <3>1 DEF Elements
  <2>2. CASE ~ (i <= Len(s))
    <3>1. i - Len(s) \in DOMAIN t /\ (s \o t)[i] = t[i - Len(s)]  BY <2>2, <1>4, <1>5
    <3> QED BY <3>1 DEF Elements
  <2> QED BY <2>1, <2>2
<1>8. IsSequence(s \o t)  BY <1>4 DEF IsSequence
<1> QED BY <1>6, <1>7, <1>8 DEF Elements

(* A function over 1 .. n is a sequence. *)
LEMMA FunctionIsSequence ==
  ASSUME NEW n \in Nat, NEW f, f = [i \in 1 .. n |-> f[i]]
  PROVE  IsSequence(f)
<1> DEFINE S == {f[i] : i \in 1 .. n}
<1>1. f \in [1 .. n -> S]  OBVIOUS
<1>2. f \in Seq(S)  BY <1>1, SeqDef
<1> QED BY <1>2 DEF IsSequence

(* The domain of a sequence is an interval from 1. *)
LEMMA SequenceDomain ==
  ASSUME NEW s, IsSequence(s)
  PROVE  \E n \in Nat : DOMAIN s = 1 .. n
<1>1. PICK S : s \in Seq(S)  BY DEF IsSequence
<1> QED BY <1>1, LenProperties

-----------------------------------------------------------------------------
(* Prefixes *)

(* A set of numbers up to L that is not empty has a greatest one. *)
LEMMA GreatestExists ==
  ASSUME NEW L \in Nat, NEW E \in SUBSET (1 .. L), E # {}
  PROVE  \E n \in E : \A k \in E : k <= n
<1> DEFINE T == {b \in Nat : \A k \in E : k <= b}
<1>1. L \in T  OBVIOUS
<1>2. PICK b \in T : \A y \in T : ~ (<<y, b>> \in OpToRel(<, Nat))
  BY <1>1, WFMin, NatLessThanWellFounded
<1>3. \A y \in T : ~ (y < b)  BY <1>2 DEF OpToRel
<1>4. b \in E
  <2>1. SUFFICES ASSUME b \notin E PROVE FALSE  OBVIOUS
  <2>2. \A k \in E : k \in Nat /\ k <= b /\ k # b  BY <2>1
  <2>3. PICK k \in E : TRUE  OBVIOUS
  <2>4. b - 1 \in Nat  BY <2>2, <2>3
  <2>5. b - 1 \in T  BY <2>2, <2>4
  <2> QED BY <2>5, <1>3
<1> QED BY <1>4

(* currentSequence of a prefix is its length. *)
LEMMA GreatestOfPrefix == \A n \in Nat : Greatest(1 .. n) = n
<1>1. SUFFICES ASSUME NEW n \in Nat PROVE Greatest(1 .. n) = n  OBVIOUS
<1>2. CASE n = 0
  <2>1. 1 .. n = {}  BY <1>2
  <2> QED BY <2>1, <1>2 DEF Greatest
<1>3. CASE n # 0
  <2>1. n \in 1 .. n /\ \A k \in 1 .. n : k <= n  BY <1>3
  <2>2. \A j \in 1 .. n : (\A k \in 1 .. n : k <= j) => j = n  BY <2>1
  <2>3. (CHOOSE j \in 1 .. n : \A k \in 1 .. n : k <= j) = n  BY <2>1, <2>2
  <2> QED BY <2>1, <2>3 DEF Greatest
<1> QED BY <1>2, <1>3

Prefix(S, L) == \E j \in 0 .. L : S = 1 .. j
Dense(F, n) == \A k \in F : n + 1 .. k \subseteq F

(* What planAcceptedEvents accepts makes a prefix a longer one. *)
LEMMA PrefixGrows ==
  \A L \in Nat : \A n \in 0 .. L : \A F \in SUBSET (n + 1 .. L) :
    Dense(F, n) => Prefix((1 .. n) \cup F, L)
<1> SUFFICES ASSUME NEW L \in Nat, NEW n \in 0 .. L, NEW F \in SUBSET (n + 1 .. L),
                    Dense(F, n)
             PROVE  \E j \in 0 .. L : (1 .. n) \cup F = 1 .. j
  BY DEF Prefix
<1>1. CASE F = {}
  <2>1. (1 .. n) \cup {} = 1 .. n  OBVIOUS
  <2>2. n \in 0 .. L  OBVIOUS
  <2> QED BY <1>1, <2>1, <2>2, Zenon
<1>2. CASE F # {}
  <2>1. F \in SUBSET (1 .. L)  OBVIOUS
  <2>2. PICK j \in F : \A k \in F : k <= j  BY <1>2, <2>1, GreatestExists
  <2>3. j \in n + 1 .. L /\ n + 1 .. j \subseteq F  BY DEF Dense
  <2>4. \A k \in F : k \in n + 1 .. j  BY <2>2
  <2>5. F = n + 1 .. j  BY <2>3, <2>4
  <2>6. (1 .. n) \cup (n + 1 .. j) = 1 .. j  BY <2>3
  <2> QED BY <2>3, <2>5, <2>6
<1> QED BY <1>1, <1>2

-----------------------------------------------------------------------------
(* The inductive invariant *)

Recorded(room, n) == room \in Rooms /\ n \in 1 .. log[room]

(* A call of a command or a replay names a room of the worker. *)
CallOK(c) ==
  /\ c = [kind |-> c.kind, room |-> c.room, epoch |-> c.epoch,
          operation |-> c.operation, seq |-> c.seq]
  /\ c.kind \in {"replay", "post", "create"} => c.room \in Rooms

(* A call that waits for a catch-up with an event of its own. *)
WaiterOK(c) == CallOK(c) /\ (c.kind \in {"live", "post"} => Recorded(c.room, c.seq))

RequestOK(q) ==
  /\ q = [call |-> q.call, cursor |-> q.cursor, generation |-> q.generation,
          committed |-> q.committed]
  /\ CallOK(q.call)
  /\ q.call.kind = "post" => q.committed \in 0 .. log[q.call.room]

ReplyOK(m) ==
  /\ CallOK(m.call)
  /\ m.outcome # "rejected" /\ m.call.kind = "replay"
       => m.data.events \in SUBSET (1 .. log[m.call.room])
  /\ m.outcome = "ok" /\ m.call.kind = "post" => Recorded(m.call.room, m.data)

MessageOK(m) ==
  /\ m.type = "room.event" => Recorded(m.room, m.seq)
  /\ m.type = "reply" => ReplyOK(m)

CatchOK(k) ==
  /\ k = [room |-> k.room, epoch |-> k.epoch, waiters |-> k.waiters]
  /\ k.room \in Rooms
  /\ IsSequence(k.waiters) /\ \A c \in Elements(k.waiters) : WaiterOK(c)

RefreshOK(x) ==
  /\ x = [call |-> x.call, operation |-> x.operation]
  /\ CallOK(x.call) /\ x.call.kind \in {"create", "remove"}

JobOK(j) == WaiterOK(j.call)

LogInv == log \in [Rooms -> Nat] /\ selected \in Rooms \cup {None}
ShownInv == shown \in [Rooms -> SUBSET Nat] /\ ShownIsPrefix
RequestsInv == \A q \in requests : RequestOK(q)
ChannelInv == IsSequence(channel) /\ \A m \in Elements(channel) : MessageOK(m)
CatchesInv == \A k \in catches : CatchOK(k)
RefreshesInv == IsSequence(refreshes) /\ \A x \in Elements(refreshes) : RefreshOK(x)
JobsInv == IsSequence(jobs) /\ \A j \in Elements(jobs) : JobOK(j)
PostedInv == \A p \in posted : p.room \in Rooms /\ p.seq \in shown[p.room]

PrefixInv ==
  /\ LogInv /\ ShownInv /\ RequestsInv /\ ChannelInv
  /\ CatchesInv /\ RefreshesInv /\ JobsInv /\ PostedInv

(* The log of every room only grows. *)
Grows == log' \in [Rooms -> Nat] /\ \A r \in Rooms : log[r] <= log'[r]

(* What is said of recorded events stays true while the log grows. *)
LEMMA GrowthKeeps ==
  ASSUME LogInv, Grows
  PROVE  /\ \A c : WaiterOK(c) => WaiterOK(c)'
         /\ \A q : RequestOK(q) => RequestOK(q)'
         /\ \A m : MessageOK(m) => MessageOK(m)'
         /\ \A k : CatchOK(k) => CatchOK(k)'
<1>1. \A r, n : Recorded(r, n) => Recorded(r, n)'
  BY DEF Recorded, LogInv, Grows
<1>2. \A c : WaiterOK(c) => WaiterOK(c)'
  BY <1>1 DEF WaiterOK, CallOK
<1>3. \A q : RequestOK(q) => RequestOK(q)'
  <2>1. SUFFICES ASSUME NEW q, RequestOK(q) PROVE RequestOK(q)'  OBVIOUS
  <2>2. q.call.kind = "post" => q.committed \in 0 .. log'[q.call.room]
    BY <2>1 DEF RequestOK, CallOK, LogInv, Grows
  <2> QED BY <2>1, <2>2 DEF RequestOK, CallOK
<1>4. \A m : MessageOK(m) => MessageOK(m)'
  <2>1. SUFFICES ASSUME NEW m, MessageOK(m) PROVE MessageOK(m)'  OBVIOUS
  <2>2. ASSUME m.type = "reply" PROVE ReplyOK(m)'
    <3>1. ReplyOK(m)  BY <2>1, <2>2 DEF MessageOK
    <3>2. m.outcome # "rejected" /\ m.call.kind = "replay"
            => m.data.events \in SUBSET (1 .. log'[m.call.room])
      BY <3>1 DEF ReplyOK, CallOK, LogInv, Grows
    <3> QED BY <3>1, <3>2, <1>1 DEF ReplyOK, CallOK
  <2> QED BY <2>1, <2>2, <1>1 DEF MessageOK
<1>5. \A k : CatchOK(k) => CatchOK(k)'
  BY <1>2 DEF CatchOK
<1> QED BY <1>2, <1>3, <1>4, <1>5

(* A step that leaves the store alone and lets the log grow keeps all but *)
(* what it says of requests and of the channel.                           *)
LEMMA ServerKeeps ==
  ASSUME PrefixInv, Grows, RequestsInv', ChannelInv',
         UNCHANGED <<selected, shown, catches, refreshes, jobs, posted>>
  PROVE  PrefixInv'
<1> USE DEF PrefixInv
<1>1. LogInv'  BY DEF LogInv, Grows
<1>2. ShownInv'
  BY DEF ShownInv, ShownIsPrefix, LogInv, Grows
<1>3. CatchesInv'  BY GrowthKeeps DEF CatchesInv
<1>4. RefreshesInv'  BY DEF RefreshesInv, RefreshOK, CallOK
<1>5. JobsInv'  BY GrowthKeeps DEF JobsInv, JobOK
<1>6. PostedInv'  BY DEF PostedInv
<1> QED BY <1>1, <1>2, <1>3, <1>4, <1>5, <1>6

(* While the log stands still, so does what is said of calls and messages. *)
LEMMA StillKeeps ==
  ASSUME UNCHANGED log
  PROVE  /\ \A c : WaiterOK(c) => WaiterOK(c)'
         /\ \A q : RequestOK(q) => RequestOK(q)'
         /\ \A m : MessageOK(m) => MessageOK(m)'
         /\ \A k : CatchOK(k) => CatchOK(k)'
<1>1. \A c : WaiterOK(c) => WaiterOK(c)'
  BY DEF WaiterOK, CallOK, Recorded
<1>2. \A q : RequestOK(q) => RequestOK(q)'
  BY DEF RequestOK, CallOK
<1>3. \A m : MessageOK(m) => MessageOK(m)'
  BY DEF MessageOK, ReplyOK, CallOK, Recorded
<1>4. \A k : CatchOK(k) => CatchOK(k)'
  BY <1>1 DEF CatchOK
<1> QED BY <1>1, <1>2, <1>3, <1>4

-----------------------------------------------------------------------------
(* The worker and the gateway *)

(* A message that is sent keeps the channel truthful. *)
LEMMA SendKeeps ==
  ASSUME ChannelInv, LogInv, Grows, NEW m, MessageOK(m)', channel' = Append(channel, m)
  PROVE  ChannelInv'
<1>1. IsSequence(channel')  BY AppendElements DEF ChannelInv
<1>2. \A x \in Elements(channel') : x \in Elements(channel) \/ x = m
  BY AppendElements DEF ChannelInv
<1>3. \A x \in Elements(channel) : MessageOK(x)'  BY GrowthKeeps DEF ChannelInv
<1> QED BY <1>1, <1>2, <1>3 DEF ChannelInv

(* An appended event is recorded, sent live or not. *)
LEMMA AppendEventKeeps ==
  ASSUME PrefixInv, NEW room \in Rooms, AppendEvent(room),
         UNCHANGED <<selected, shown, catches, refreshes, jobs, posted>>
  PROVE  PrefixInv'
<1>1. log' = [log EXCEPT ![room] = @ + 1] /\ requests' = requests  BY DEF AppendEvent
<1>2. Grows  BY <1>1 DEF Grows, PrefixInv, LogInv
<1>3. RequestsInv'  BY <1>1, <1>2, GrowthKeeps DEF RequestsInv, PrefixInv
<1>4. ChannelInv'
  <2>1. CASE UNCHANGED channel
    BY <2>1, <1>2, GrowthKeeps DEF ChannelInv, PrefixInv
  <2>2. CASE channel' = Append(channel, RoomEvent(room, log[room] + 1))
    <3>1. PICK m : m = RoomEvent(room, log[room] + 1)  OBVIOUS
    <3>2. m.type = "room.event" /\ m.room = room /\ m.seq = log[room] + 1
      BY <3>1 DEF RoomEvent
    <3>3. Recorded(room, m.seq)'
      BY <3>2, <1>1 DEF Recorded, PrefixInv, LogInv
    <3>4. MessageOK(m)'  BY <3>2, <3>3 DEF MessageOK
    <3> QED BY <2>2, <3>1, <3>4, <1>2, SendKeeps DEF PrefixInv
  <2> QED BY <2>1, <2>2 DEF AppendEvent
<1> QED BY <1>2, <1>3, <1>4, ServerKeeps

(* A step that sends one message and records nothing. *)
LEMMA SendStep ==
  ASSUME PrefixInv, NEW m, MessageOK(m), channel' = Append(channel, m),
         requests' \in SUBSET requests,
         UNCHANGED <<log, selected, shown, catches, refreshes, jobs, posted>>
  PROVE  PrefixInv'
<1>1. Grows  BY DEF Grows, PrefixInv, LogInv
<1>2. MessageOK(m)'  BY StillKeeps
<1>3. ChannelInv'  BY <1>1, <1>2, SendKeeps DEF PrefixInv
<1>4. RequestsInv'  BY StillKeeps DEF RequestsInv, PrefixInv
<1> QED BY <1>1, <1>3, <1>4, ServerKeeps

(* Every answer to a request speaks of recorded events. *)
LEMMA AnswerKeeps ==
  ASSUME PrefixInv, NEW q \in requests, Answer(q),
         UNCHANGED <<selected, shown, catches, refreshes, jobs, posted>>
  PROVE  PrefixInv'
<1>1. RequestOK(q)  BY DEF PrefixInv, RequestsInv
<1>2. CASE Reject(q)
  <2>1. PICK m : m = Reply(q, "rejected", 0)  OBVIOUS
  <2>2. m.type = "reply" /\ m.call = q.call /\ m.outcome = "rejected"  BY <2>1 DEF Reply
  <2>3. MessageOK(m)  BY <2>2, <1>1 DEF MessageOK, ReplyOK, RequestOK
  <2> QED BY <1>2, <2>1, <2>3, SendStep DEF Reject
<1>3. CASE AnswerSnapshot(q)
  <2>1. PICK m : m = Reply(q, "ok", log)  OBVIOUS
  <2>2. m.type = "reply" /\ m.call = q.call /\ q.call.kind = "hydrate"
    BY <2>1, <1>3 DEF Reply, AnswerSnapshot
  <2>3. MessageOK(m)  BY <2>2, <1>1 DEF MessageOK, ReplyOK, RequestOK
  <2> QED BY <1>3, <2>1, <2>3, SendStep DEF AnswerSnapshot
<1>4. CASE AnswerReplay(q)
  <2>1. PICK m : m = Reply(q, "ok", Page(q.call.room, q.cursor))  OBVIOUS
  <2>2. /\ m.type = "reply" /\ m.call = q.call /\ q.call.kind = "replay"
        /\ m.data = Page(q.call.room, q.cursor)
    BY <2>1, <1>4 DEF Reply, AnswerReplay
  <2>3. m.data.events \in SUBSET (1 .. log[m.call.room])  BY <2>2 DEF Page
  <2>4. MessageOK(m)  BY <2>2, <2>3, <1>1 DEF MessageOK, ReplyOK, RequestOK
  <2> QED BY <1>4, <2>1, <2>4, SendStep DEF AnswerReplay
<1>5. CASE CommitPost(q)
  <2>1. /\ q.call.kind = "post" /\ q.call.room \in Rooms
        /\ log' = [log EXCEPT ![q.call.room] = @ + 1]
        /\ channel' = channel
    BY <1>1, <1>5 DEF CommitPost, RequestOK, CallOK
  <2>2. PICK p : p = [q EXCEPT !.committed = log[q.call.room] + 1]  OBVIOUS
  <2>3. requests' = (requests \ {q}) \cup {p}  BY <2>2, <1>5 DEF CommitPost
  <2>4. Grows  BY <2>1 DEF Grows, PrefixInv, LogInv
  <2>5. p = [call |-> q.call, cursor |-> q.cursor, generation |-> q.generation,
             committed |-> log[q.call.room] + 1]
    BY <2>2, <1>1 DEF RequestOK
  <2>6. p.committed \in 0 .. log'[p.call.room]
    BY <2>1, <2>5 DEF PrefixInv, LogInv
  <2>7. RequestOK(p)'  BY <2>5, <2>6, <1>1 DEF RequestOK, CallOK
  <2>8. RequestsInv'  BY <2>3, <2>4, <2>7, GrowthKeeps DEF RequestsInv, PrefixInv
  <2>9. ChannelInv'  BY <2>1, <2>4, GrowthKeeps DEF ChannelInv, PrefixInv
  <2> QED BY <2>4, <2>8, <2>9, ServerKeeps
<1>6. CASE AnswerPost(q)
  <2>1. /\ q.call.kind = "post" /\ q.call.room \in Rooms
        /\ q.committed \in 1 .. log[q.call.room]
        /\ requests' = requests \ {q} /\ log' = log
    BY <1>1, <1>6 DEF AnswerPost, RequestOK, CallOK, PrefixInv, LogInv
  <2>2. PICK m : m = Reply(q, "ok", q.committed)  OBVIOUS
  <2>3. PICK later : later = LaterEvents(q.call.room, q.committed)  OBVIOUS
  <2>4. channel' = Append(channel, m) \o later  BY <2>2, <2>3, <1>6 DEF AnswerPost
  <2>5. m.type = "reply" /\ m.call = q.call /\ m.data = q.committed  BY <2>2 DEF Reply
  <2>6. MessageOK(m)
    BY <2>1, <2>5, <1>1 DEF MessageOK, ReplyOK, RequestOK, Recorded
  <2>7. PICK n \in Nat : n = log[q.call.room] - q.committed + 1
    BY <2>1 DEF PrefixInv, LogInv
  <2>8. later = [i \in 1 .. n |-> RoomEvent(q.call.room, q.committed + i - 1)]
    BY <2>3, <2>7 DEF LaterEvents
  <2>9. DOMAIN later = 1 .. n /\ later = [i \in 1 .. n |-> later[i]]  BY <2>8
  <2>10. IsSequence(later)  BY <2>9, FunctionIsSequence
  <2>11. ASSUME NEW x \in Elements(later) PROVE MessageOK(x)
    <3>1. PICK i \in 1 .. n : x = RoomEvent(q.call.room, q.committed + i - 1)
      BY <2>8, <2>9, <2>11 DEF Elements
    <3>2. x.type = "room.event" /\ x.room = q.call.room /\ x.seq = q.committed + i - 1
      BY <3>1 DEF RoomEvent
    <3>3. Recorded(x.room, x.seq)
      BY <3>2, <2>1, <2>7 DEF Recorded, PrefixInv, LogInv
    <3> QED BY <3>2, <3>3 DEF MessageOK
  <2>12. /\ IsSequence(Append(channel, m))
         /\ \A x \in Elements(Append(channel, m)) : x \in Elements(channel) \/ x = m
    BY AppendElements DEF PrefixInv, ChannelInv
  <2>13. IsSequence(channel') /\ \A x \in Elements(channel') : MessageOK(x)
    BY <2>4, <2>6, <2>10, <2>11, <2>12, ConcatElements DEF PrefixInv, ChannelInv
  <2>14. ChannelInv'  BY <2>1, <2>13, StillKeeps DEF ChannelInv
  <2>15. RequestsInv'  BY <2>1, StillKeeps DEF RequestsInv, PrefixInv
  <2>16. Grows  BY <2>1 DEF Grows, PrefixInv, LogInv
  <2> QED BY <2>14, <2>15, <2>16, ServerKeeps
<1>7. CASE AnswerMutation(q)
  <2>1. PICK m : m = Reply(q, "ok", 0)  OBVIOUS
  <2>2. m.type = "reply" /\ m.call = q.call /\ q.call.kind \in {"create", "remove"}
    BY <2>1, <1>7 DEF Reply, AnswerMutation
  <2>3. MessageOK(m)  BY <2>2, <1>1 DEF MessageOK, ReplyOK, RequestOK
  <2> QED BY <1>7, <2>1, <2>3, SendStep DEF AnswerMutation
<1>8. CASE Refuse(q)
  <2>1. PICK m : m = Reply(q, "refused", 0)  OBVIOUS
  <2>2. /\ m.type = "reply" /\ m.call = q.call /\ m.outcome = "refused"
        /\ q.call.kind \in {"post", "create", "remove"}
    BY <2>1, <1>8 DEF Reply, Refuse
  <2>3. MessageOK(m)  BY <2>2, <1>1 DEF MessageOK, ReplyOK, RequestOK
  <2> QED BY <1>8, <2>1, <2>3, SendStep DEF Refuse
<1> QED BY <1>2, <1>3, <1>4, <1>5, <1>6, <1>7, <1>8 DEF Answer

(* The worker, the gateway and the supervisor keep the invariant. *)
LEMMA ServerStepKeeps == PrefixInv /\ ServerStep => PrefixInv'
<1>1. SUFFICES ASSUME PrefixInv, ServerStep PROVE PrefixInv'  OBVIOUS
<1>2. UNCHANGED <<selected, shown, catches, refreshes, jobs, posted>>
  BY <1>1 DEF ServerStep
<1>3. CASE \E room \in Rooms : AppendEvent(room)
  BY <1>1, <1>2, <1>3, AppendEventKeeps
<1>4. CASE \E q \in requests : Answer(q)
  BY <1>1, <1>2, <1>4, AnswerKeeps
<1>5. CASE Crash
  <2>1. PICK m : m = [type |-> "worker.disconnected", generation |-> worker.generation]
    OBVIOUS
  <2>2. MessageOK(m)  BY <2>1 DEF MessageOK
  <2>3. log' = log /\ requests' = requests /\ channel' = Append(channel, m)
    BY <1>5, <2>1 DEF Crash, Announced
  <2> QED BY <1>1, <1>2, <2>2, <2>3, SendStep
<1>6. CASE Restart
  <2>1. PICK m : m = [type |-> "worker.ready", generation |-> worker.generation + 1]
    OBVIOUS
  <2>2. MessageOK(m)  BY <2>1 DEF MessageOK
  <2>3. log' = log /\ requests' = requests /\ channel' = Append(channel, m)
    BY <1>6, <2>1 DEF Restart, Announced
  <2> QED BY <1>1, <1>2, <2>2, <2>3, SendStep
<1> QED BY <1>1, <1>3, <1>4, <1>5, <1>6 DEF ServerStep

-----------------------------------------------------------------------------
(* What the store's functions keep *)

(* The bridge adds a generation to a call; nothing is committed yet. *)
LEMMA SentOK ==
  ASSUME LogInv, NEW c, CallOK(c), NEW cursor
  PROVE  RequestOK(Sent(c, cursor))
<1>1. PICK q : q = Sent(c, cursor)  OBVIOUS
<1>2. /\ q = [call |-> q.call, cursor |-> q.cursor, generation |-> q.generation,
              committed |-> q.committed]
      /\ q.call = c /\ q.committed = 0
  BY <1>1 DEF Sent
<1>3. c.kind = "post" => 0 \in 0 .. log[c.room]  BY DEF CallOK, LogInv
<1> QED BY <1>1, <1>2, <1>3 DEF RequestOK

(* A new call names a room where its kind asks for one. *)
LEMMA NewCallOK ==
  ASSUME NEW kind, NEW room, NEW operation,
         kind \in {"replay", "post", "create"} => room \in Rooms
  PROVE  /\ CallOK(NewCall(kind, room, operation))
         /\ NewCall(kind, room, operation).kind = kind
         /\ NewCall(kind, room, operation).room = room
  BY DEF CallOK, NewCall

(* catchUp joins a replay or sends a request of its own. *)
LEMMA CatchUpKeeps ==
  ASSUME LogInv, CatchesInv, RequestsInv, UNCHANGED log,
         NEW c, WaiterOK(c), c.room \in Rooms, CatchUp(c)
  PROVE  CatchesInv' /\ RequestsInv'
<1>1. CASE InFlight(c.room) = {}
  <2>1. PICK k : k = [room |-> c.room, epoch |-> epoch, waiters |-> <<c>>]  OBVIOUS
  <2>2. PICK q : q = Sent(NewCall("replay", c.room, 0), Cursor(c.room))  OBVIOUS
  <2>3. catches' = catches \cup {k} /\ requests' = requests \cup {q}
    BY <1>1, <2>1, <2>2 DEF CatchUp
  <2>4. CatchOK(k)  BY <2>1, SingleElement DEF CatchOK
  <2>5. RequestOK(q)
    <3>1. PICK r : r = NewCall("replay", c.room, 0)  OBVIOUS
    <3>2. CallOK(r)  BY <3>1, NewCallOK
    <3> QED BY <2>2, <3>1, <3>2, SentOK
  <2> QED BY <2>3, <2>4, <2>5, StillKeeps DEF CatchesInv, RequestsInv
<1>2. CASE InFlight(c.room) # {}
  <2>1. requests' = requests  BY <1>2 DEF CatchUp
  <2>2. ASSUME NEW k \in catches
        PROVE  CatchOK([k EXCEPT !.waiters = Append(@, c)])
    <3>1. CatchOK(k)  BY DEF CatchesInv
    <3>2. PICK j : j = [k EXCEPT !.waiters = Append(@, c)]  OBVIOUS
    <3>3. j = [room |-> k.room, epoch |-> k.epoch, waiters |-> Append(k.waiters, c)]
      BY <3>1, <3>2 DEF CatchOK
    <3>4. /\ IsSequence(Append(k.waiters, c))
          /\ \A x \in Elements(Append(k.waiters, c)) : x \in Elements(k.waiters) \/ x = c
      BY <3>1, AppendElements DEF CatchOK
    <3>5. CatchOK(j)  BY <3>1, <3>3, <3>4 DEF CatchOK
    <3> QED BY <3>2, <3>5
  <2>3. \A j \in catches' : \E k \in catches :
            j = k \/ j = [k EXCEPT !.waiters = Append(@, c)]
    BY <1>2 DEF CatchUp
  <2>4. \A j \in catches' : CatchOK(j)  BY <2>2, <2>3 DEF CatchesInv
  <2> QED BY <2>1, <2>4, StillKeeps DEF CatchesInv, RequestsInv
<1> QED BY <1>1, <1>2

(* selectRoom catches the room up. *)
LEMMA SelectKeeps ==
  ASSUME LogInv, CatchesInv, RequestsInv, UNCHANGED log, NEW room \in Rooms, Select(room)
  PROVE  LogInv' /\ CatchesInv' /\ RequestsInv'
<1>1. PICK c : c = NewCall("select", room, sequence + 1)  OBVIOUS
<1>2. CallOK(c) /\ c.kind = "select" /\ c.room = room
  BY <1>1 DEF NewCall, CallOK
<1>3. WaiterOK(c)  BY <1>2 DEF WaiterOK
<1>4. CatchUp(c) /\ selected' = room  BY <1>1 DEF Select
<1>5. CatchesInv' /\ RequestsInv'  BY <1>2, <1>3, <1>4, CatchUpKeeps
<1>6. LogInv'  BY <1>4 DEF LogInv
<1> QED BY <1>5, <1>6

(* hydrateForEpoch asks for a snapshot. *)
LEMMA StartHydrateKeeps ==
  ASSUME LogInv, RequestsInv, UNCHANGED log, NEW newEpoch, StartHydrate(newEpoch)
  PROVE  RequestsInv'
<1>1. PICK c : c = [NewCall("hydrate", None, sequence + 1) EXCEPT !.epoch = newEpoch]
  OBVIOUS
<1>2. CallOK(c)  BY <1>1 DEF NewCall, CallOK
<1>3. PICK q : q = Sent(c, 0)  OBVIOUS
<1>4. RequestOK(q)  BY <1>2, <1>3, SentOK
<1>5. requests' = requests \cup {q}  BY <1>1, <1>3 DEF StartHydrate
<1> QED BY <1>4, <1>5, StillKeeps DEF RequestsInv

(* The end of a hydrate wakes the mutation whose refresh it was. *)
LEMMA FinishHydrateKeeps ==
  ASSUME RefreshesInv, UNCHANGED log, NEW c, NEW outcome, NEW rest,
         IsSequence(rest), \A j \in Elements(rest) : JobOK(j),
         FinishHydrate(c, outcome, rest)
  PROVE  RefreshesInv' /\ JobsInv'
<1>1. CASE refreshes # <<>> /\ Head(refreshes).operation = c.operation
  <2>1. PICK x : x = Head(refreshes)  OBVIOUS
  <2>2. PICK j : j = [call |-> x.call, outcome |-> "ok"]  OBVIOUS
  <2>3. /\ IsSequence(Tail(refreshes)) /\ Elements(Tail(refreshes)) \subseteq Elements(refreshes)
        /\ x \in Elements(refreshes)
    BY <1>1, <2>1, TailElements DEF RefreshesInv
  <2>4. RefreshOK(x)  BY <2>3 DEF RefreshesInv
  <2>5. JobOK(j)  BY <2>2, <2>4 DEF RefreshOK, JobOK, WaiterOK
  <2>6. jobs' = Append(rest, j) /\ refreshes' = Tail(refreshes)
    BY <1>1, <2>1, <2>2 DEF FinishHydrate
  <2>7. RefreshesInv'  BY <2>3, <2>6 DEF RefreshesInv, RefreshOK, CallOK
  <2>8. IsSequence(jobs') /\ \A y \in Elements(jobs') : JobOK(y)
    BY <2>5, <2>6, AppendElements
  <2> QED BY <2>7, <2>8, StillKeeps DEF JobsInv, JobOK
<1>2. CASE ~ (refreshes # <<>> /\ Head(refreshes).operation = c.operation)
  <2>1. jobs' = rest /\ refreshes' = refreshes  BY <1>2 DEF FinishHydrate
  <2>2. RefreshesInv'  BY <2>1 DEF RefreshesInv, RefreshOK, CallOK
  <2> QED BY <2>1, <2>2, StillKeeps DEF JobsInv, JobOK
<1> QED BY <1>1, <1>2

(* Accepted events keep every timeline a prefix, and what was in it. *)
LEMMA FreshKeeps ==
  ASSUME LogInv, ShownInv, UNCHANGED log, NEW room \in Rooms,
         NEW E \in SUBSET (1 .. log[room]), ~ LeavesGap(room, E),
         shown' = [shown EXCEPT ![room] = @ \cup Fresh(room, E)]
  PROVE  ShownInv' /\ \A r \in Rooms : shown[r] \subseteq shown'[r]
<1>1. PICK n \in 0 .. log[room] : shown[room] = 1 .. n  BY DEF ShownInv, ShownIsPrefix
<1>2. log[room] \in Nat /\ n \in Nat  BY <1>1 DEF LogInv
<1>3. Cursor(room) = n  BY <1>1, <1>2, GreatestOfPrefix DEF Cursor
<1>4. Fresh(room, E) = {k \in E : k > n}  BY <1>3 DEF Fresh
<1>5. PICK F : F = Fresh(room, E)  OBVIOUS
<1>6. PICK j \in 0 .. log[room] : (1 .. n) \cup Fresh(room, E) = 1 .. j
  <2>1. \A k \in F : k \in n + 1 .. log[room]
    <3>1. SUFFICES ASSUME NEW k \in F PROVE k \in n + 1 .. log[room]  OBVIOUS
    <3>2. k \in E /\ k > n  BY <1>4, <1>5
    <3>3. k \in 1 .. log[room]  BY <3>2
    <3> QED BY <1>2, <3>2, <3>3
  <2>2. \A k \in F : n + 1 .. k \subseteq E  BY <1>3, <1>5 DEF LeavesGap
  <2>3. \A k \in F : n + 1 .. k \subseteq F
    <3>1. SUFFICES ASSUME NEW k \in F, NEW i \in n + 1 .. k PROVE i \in F  OBVIOUS
    <3>2. k \in Nat  BY <1>2, <2>1
    <3>3. i \in E /\ i > n  BY <1>2, <2>2, <3>2
    <3> QED BY <3>3, <1>4, <1>5
  <2>4. PICK L \in Nat : L = log[room]  BY <1>2
  <2>5. n \in 0 .. L  BY <2>4
  <2>6. F \in SUBSET (n + 1 .. L)  BY <2>1, <2>4
  <2>7. Dense(F, n)  BY <2>3 DEF Dense
  <2>8. Prefix((1 .. n) \cup F, L)  BY <2>5, <2>6, <2>7, PrefixGrows
  <2> QED BY <1>5, <2>4, <2>8 DEF Prefix
<1>7. shown'[room] = 1 .. j  BY <1>1, <1>6 DEF ShownInv
<1>8. shown' \in [Rooms -> SUBSET Nat]
  <2>1. E \in SUBSET Nat  BY <1>2
  <2>2. Fresh(room, E) \in SUBSET Nat  BY <2>1 DEF Fresh
  <2>3. shown[room] \cup Fresh(room, E) \in SUBSET Nat  BY <2>2 DEF ShownInv
  <2> QED BY <2>3 DEF ShownInv
<1>9. \A r \in Rooms : r # room => shown'[r] = shown[r]  BY DEF ShownInv
<1>10. ShownIsPrefix'
  <2>1. SUFFICES ASSUME NEW r \in Rooms
                 PROVE  \E k \in 0 .. log'[r] : shown'[r] = 1 .. k
    BY DEF ShownIsPrefix
  <2>2. CASE r = room  BY <2>2, <1>7
  <2>3. CASE r # room  BY <2>3, <1>9 DEF ShownInv, ShownIsPrefix
  <2> QED BY <2>2, <2>3
<1>11. \A r \in Rooms : shown[r] \subseteq shown'[r]
  BY <1>1, <1>6, <1>7, <1>9
<1> QED BY <1>8, <1>10, <1>11 DEF ShownInv

(* An accepted event is in the timeline. *)
LEMMA AcceptedIsShown ==
  ASSUME LogInv, ShownInv, NEW room \in Rooms, NEW seq \in 1 .. log[room],
         shown' = [shown EXCEPT ![room] = @ \cup Fresh(room, {seq})]
  PROVE  seq \in shown'[room]
<1>1. PICK n \in 0 .. log[room] : shown[room] = 1 .. n  BY DEF ShownInv, ShownIsPrefix
<1>2. log[room] \in Nat /\ n \in Nat  BY <1>1 DEF LogInv
<1>3. Cursor(room) = n  BY <1>1, <1>2, GreatestOfPrefix DEF Cursor
<1>4. shown'[room] = shown[room] \cup Fresh(room, {seq})  BY DEF ShownInv
<1>5. CASE seq > n  BY <1>3, <1>4, <1>5 DEF Fresh
<1>6. CASE ~ (seq > n)  BY <1>1, <1>2, <1>4, <1>6
<1> QED BY <1>5, <1>6

(* What a step does not touch keeps its part of the invariant. *)
LEMMA UntouchedKeeps ==
  ASSUME PrefixInv, UNCHANGED log
  PROVE  /\ UNCHANGED selected => LogInv'
         /\ UNCHANGED shown => ShownInv'
         /\ requests' \in SUBSET requests => RequestsInv'
         /\ UNCHANGED channel => ChannelInv'
         /\ catches' \in SUBSET catches => CatchesInv'
         /\ UNCHANGED refreshes => RefreshesInv'
         /\ UNCHANGED jobs => JobsInv'
         /\ UNCHANGED <<shown, posted>> => PostedInv'
<1> USE DEF PrefixInv
<1>1. UNCHANGED selected => LogInv'  BY DEF LogInv
<1>2. UNCHANGED shown => ShownInv'  BY DEF ShownInv, ShownIsPrefix
<1>3. requests' \in SUBSET requests => RequestsInv'  BY StillKeeps DEF RequestsInv
<1>4. UNCHANGED channel => ChannelInv'  BY StillKeeps DEF ChannelInv
<1>5. catches' \in SUBSET catches => CatchesInv'  BY StillKeeps DEF CatchesInv
<1>6. UNCHANGED refreshes => RefreshesInv'  BY DEF RefreshesInv, RefreshOK, CallOK
<1>7. UNCHANGED jobs => JobsInv'  BY StillKeeps DEF JobsInv, JobOK
<1>8. UNCHANGED <<shown, posted>> => PostedInv'  BY DEF PostedInv
<1> QED BY <1>1, <1>2, <1>3, <1>4, <1>5, <1>6, <1>7, <1>8

(* While a timeline grows, what was posted stays in it. *)
LEMMA PostedStays ==
  ASSUME PostedInv, UNCHANGED posted, \A r \in Rooms : shown[r] \subseteq shown'[r]
  PROVE  PostedInv'
  BY DEF PostedInv

(* A sequence loses its head and keeps what it says. *)
LEMMA JobsShrink ==
  ASSUME PrefixInv, UNCHANGED log, jobs # <<>>
  PROVE  /\ JobOK(Head(jobs))
         /\ IsSequence(Tail(jobs)) /\ \A j \in Elements(Tail(jobs)) : JobOK(j)
         /\ jobs' = Tail(jobs) => JobsInv'
<1>1. /\ IsSequence(Tail(jobs)) /\ Elements(Tail(jobs)) \subseteq Elements(jobs)
      /\ Head(jobs) \in Elements(jobs)
  BY TailElements DEF PrefixInv, JobsInv
<1>2. JobOK(Head(jobs)) /\ \A j \in Elements(Tail(jobs)) : JobOK(j)
  BY <1>1 DEF PrefixInv, JobsInv
<1> QED BY <1>1, <1>2, StillKeeps DEF JobsInv, JobOK

-----------------------------------------------------------------------------
(* Continuations *)

(* A continuation extends a timeline by its own recorded event at most. *)
LEMMA EventContinuesKeeps ==
  ASSUME PrefixInv, UNCHANGED <<log, channel>>, jobs # <<>>,
         NEW job, job = Head(jobs), EventContinues(job)
  PROVE  PrefixInv'
<1>1. JobOK(job) /\ JobsInv'  BY JobsShrink DEF EventContinues
<1>2. PICK c : c = job.call  OBVIOUS
<1>3. Recorded(c.room, c.seq)  BY <1>1, <1>2 DEF JobOK, WaiterOK, EventContinues
<1>4. /\ LogInv' /\ RequestsInv' /\ ChannelInv' /\ CatchesInv' /\ RefreshesInv'
  BY UntouchedKeeps DEF EventContinues
<1>5. CASE UNCHANGED <<shown, posted>>
  BY <1>1, <1>4, <1>5, UntouchedKeeps DEF PrefixInv
<1>6. CASE /\ ~ LeavesGap(c.room, {c.seq})
           /\ shown' = [shown EXCEPT ![c.room] = @ \cup Fresh(c.room, {c.seq})]
           /\ posted' \in SUBSET (posted \cup {[room |-> c.room, seq |-> c.seq]})
  <2>1. c.room \in Rooms /\ {c.seq} \in SUBSET (1 .. log[c.room])
    BY <1>3 DEF Recorded
  <2>2. ShownInv' /\ \A r \in Rooms : shown[r] \subseteq shown'[r]
    BY <1>6, <2>1, FreshKeeps DEF PrefixInv
  <2>3. c.seq \in shown'[c.room]  BY <1>6, <2>1, AcceptedIsShown DEF PrefixInv
  <2>4. PostedInv'
    <3>1. ASSUME NEW p \in posted' PROVE p.room \in Rooms /\ p.seq \in shown'[p.room]
      <4>1. CASE p \in posted  BY <4>1, <2>2 DEF PostedInv, PrefixInv
      <4>2. CASE p = [room |-> c.room, seq |-> c.seq]  BY <4>2, <2>1, <2>3
      <4> QED BY <1>6, <4>1, <4>2
    <3> QED BY <3>1 DEF PostedInv
  <2> QED BY <1>1, <1>4, <2>2, <2>4 DEF PrefixInv
<1>7. \/ UNCHANGED <<shown, posted>>
      \/ /\ ~ LeavesGap(c.room, {c.seq})
         /\ shown' = [shown EXCEPT ![c.room] = @ \cup Fresh(c.room, {c.seq})]
         /\ posted' \in SUBSET (posted \cup {[room |-> c.room, seq |-> c.seq]})
  BY <1>2 DEF EventContinues
<1> QED BY <1>5, <1>6, <1>7

(* The continuations and the refreshes keep the invariant. *)
LEMMA RunJobKeeps == PrefixInv /\ RunJob => PrefixInv'
<1>1. SUFFICES ASSUME PrefixInv, RunJob PROVE PrefixInv'  OBVIOUS
<1>2. UNCHANGED <<log, channel>>  BY <1>1 DEF RunJob
<1>3. ChannelInv'  BY <1>1, <1>2, UntouchedKeeps
<1>4. CASE Continue
  <2>1. PICK job : job = Head(jobs)  OBVIOUS
  <2>2. jobs # <<>>  BY <1>4 DEF Continue
  <2>3. CASE HydrateContinues(job)
    <3>1. PICK c, outcome, rest : c = job.call /\ outcome = job.outcome /\ rest = Tail(jobs)
      OBVIOUS
    <3>2. FinishHydrate(c, outcome, rest)  BY <2>3, <3>1 DEF HydrateContinues
    <3>3. IsSequence(rest) /\ \A j \in Elements(rest) : JobOK(j)
      BY <1>1, <1>2, <2>2, <3>1, JobsShrink
    <3>4. RefreshesInv' /\ JobsInv'
      BY <1>1, <1>2, <3>2, <3>3, FinishHydrateKeeps DEF PrefixInv
    <3> QED BY <1>1, <1>2, <1>3, <2>3, <3>4, UntouchedKeeps DEF HydrateContinues, PrefixInv
  <2>4. CASE SelectContinues(job)
    <3>1. JobsInv'  BY <1>1, <1>2, <2>2, <2>4, JobsShrink DEF SelectContinues
    <3> QED BY <1>1, <1>2, <1>3, <2>4, <3>1, UntouchedKeeps DEF SelectContinues, PrefixInv
  <2>5. CASE EventContinues(job)
    BY <1>1, <1>2, <2>1, <2>2, <2>5, EventContinuesKeeps
  <2>6. CASE MutationContinues(job)
    <3>1. JobsInv' /\ JobOK(job)
      BY <1>1, <1>2, <2>1, <2>2, <2>6, JobsShrink DEF MutationContinues
    <3>2. LogInv' /\ CatchesInv' /\ RequestsInv'
      <4>1. CASE UNCHANGED <<selected, catches, requests>>
        BY <1>1, <1>2, <4>1, UntouchedKeeps
      <4>2. CASE job.call.kind = "create" /\ Select(job.call.room)
        <5>1. PICK room : room = job.call.room  OBVIOUS
        <5>2. room \in Rooms  BY <3>1, <4>2, <5>1 DEF JobOK, WaiterOK, CallOK
        <5> QED BY <1>1, <1>2, <4>2, <5>1, <5>2, SelectKeeps DEF PrefixInv
      <4> QED BY <2>6, <4>1, <4>2 DEF MutationContinues
    <3>3. ShownInv' /\ RefreshesInv' /\ PostedInv'
      BY <1>1, <1>2, <2>6, UntouchedKeeps DEF MutationContinues
    <3> QED BY <1>3, <3>1, <3>2, <3>3 DEF PrefixInv
  <2> QED BY <1>4, <2>1, <2>3, <2>4, <2>5, <2>6 DEF Continue
<1>5. CASE StartRefresh
  <2>1. PICK e : e = epoch  OBVIOUS
  <2>2. StartHydrate(e) /\ refreshes # <<>>
    BY <1>5, <2>1 DEF StartRefresh, RefreshReady
  <2>3. RequestsInv'  BY <1>1, <1>2, <2>2, StartHydrateKeeps DEF PrefixInv
  <2>4. PICK x : x = Head(refreshes)  OBVIOUS
  <2>5. /\ IsSequence(Tail(refreshes)) /\ Elements(Tail(refreshes)) \subseteq Elements(refreshes)
        /\ x \in Elements(refreshes)
    BY <1>1, <2>2, <2>4, TailElements DEF PrefixInv, RefreshesInv
  <2>6. RefreshOK(x)  BY <1>1, <2>5 DEF PrefixInv, RefreshesInv
  <2>7. PICK y : y = [x EXCEPT !.operation = sequence + 1]  OBVIOUS
  <2>8. y = [call |-> x.call, operation |-> sequence + 1]  BY <2>6, <2>7 DEF RefreshOK
  <2>9. RefreshOK(y)  BY <2>6, <2>8 DEF RefreshOK
  <2>10. refreshes' = <<y>> \o Tail(refreshes)  BY <1>5, <2>4, <2>7 DEF StartRefresh
  <2>11. RefreshesInv'
    <3>1. IsSequence(refreshes') /\ \A z \in Elements(refreshes') : RefreshOK(z)
      BY <1>1, <2>5, <2>9, <2>10, SingleElement, ConcatElements DEF PrefixInv, RefreshesInv
    <3> QED BY <3>1 DEF RefreshesInv, RefreshOK, CallOK
  <2> QED BY <1>1, <1>2, <1>3, <1>5, <2>3, <2>11, UntouchedKeeps DEF StartRefresh, PrefixInv
<1> QED BY <1>1, <1>4, <1>5 DEF RunJob

-----------------------------------------------------------------------------
(* Answers *)

(* A replay that ends hands its waiters on. *)
LEMMA ReplayEndsKeeps ==
  ASSUME PrefixInv, UNCHANGED log, NEW m, NEW outcome, ReplayEnds(m, outcome)
  PROVE  CatchesInv' /\ JobsInv' /\ RequestsInv'
<1>1. PICK k \in catches :
        /\ catches' = catches \ {k}
        /\ jobs' = [i \in DOMAIN k.waiters |-> [call |-> k.waiters[i], outcome |-> outcome]]
        /\ UNCHANGED requests
  BY DEF ReplayEnds
<1>2. CatchOK(k)  BY DEF PrefixInv, CatchesInv
<1>3. PICK n \in Nat : DOMAIN k.waiters = 1 .. n  BY <1>2, SequenceDomain DEF CatchOK
<1>4. jobs' = [i \in 1 .. n |-> [call |-> k.waiters[i], outcome |-> outcome]]
  BY <1>1, <1>3
<1>5. DOMAIN jobs' = 1 .. n /\ jobs' = [i \in 1 .. n |-> jobs'[i]]  BY <1>4
<1>6. IsSequence(jobs')  BY <1>5, FunctionIsSequence
<1>7. ASSUME NEW j \in Elements(jobs') PROVE JobOK(j)
  <2>1. PICK i \in 1 .. n : j = [call |-> k.waiters[i], outcome |-> outcome]
    BY <1>4, <1>5 DEF Elements
  <2>2. k.waiters[i] \in Elements(k.waiters)  BY <1>3 DEF Elements
  <2> QED BY <1>2, <2>1, <2>2 DEF CatchOK, JobOK
<1>8. JobsInv'  BY <1>6, <1>7, StillKeeps DEF JobsInv, JobOK
<1>9. CatchesInv' /\ RequestsInv'  BY <1>1, UntouchedKeeps
<1> QED BY <1>8, <1>9

(* What the answer to a snapshot leaves. *)
LEMMA ReceiveSnapshotKeeps ==
  ASSUME PrefixInv, UNCHANGED log, ChannelInv', NEW m, ReplyOK(m), ReceiveSnapshot(m)
  PROVE  PrefixInv'
<1>1. ShownInv' /\ PostedInv'  BY UntouchedKeeps DEF ReceiveSnapshot
<1>2. CASE UNCHANGED <<selected, catches, requests>> /\ \E outcome \in {"ok", "failed"} :
             FinishHydrate(m.call, outcome, jobs)
  <2>1. PICK c, outcome, rest : /\ c = m.call /\ rest = jobs
                                /\ FinishHydrate(c, outcome, rest)
    BY <1>2
  <2>2. IsSequence(rest) /\ \A j \in Elements(rest) : JobOK(j)
    BY <2>1 DEF PrefixInv, JobsInv
  <2>3. RefreshesInv' /\ JobsInv'  BY <2>1, <2>2, FinishHydrateKeeps DEF PrefixInv
  <2>4. LogInv' /\ CatchesInv' /\ RequestsInv'  BY <1>2, UntouchedKeeps
  <2> QED BY <1>1, <2>3, <2>4 DEF PrefixInv
<1>3. CASE \E room \in Rooms : /\ selected' = room
                               /\ CatchUp([m.call EXCEPT !.room = room])
                               /\ m.call.kind = "hydrate"
                               /\ UNCHANGED <<refreshes, jobs>>
  <2>1. PICK room \in Rooms : /\ selected' = room
                              /\ CatchUp([m.call EXCEPT !.room = room])
                              /\ m.call.kind = "hydrate"
                              /\ UNCHANGED <<refreshes, jobs>>
    BY <1>3
  <2>2. PICK c : c = [m.call EXCEPT !.room = room]  OBVIOUS
  <2>3. c = [kind |-> "hydrate", room |-> room, epoch |-> m.call.epoch,
             operation |-> m.call.operation, seq |-> m.call.seq]
    BY <2>1, <2>2 DEF ReplyOK, CallOK
  <2>4. WaiterOK(c) /\ c.room = room  BY <2>3 DEF WaiterOK, CallOK
  <2>5. CatchesInv' /\ RequestsInv'  BY <2>1, <2>2, <2>4, CatchUpKeeps DEF PrefixInv
  <2>6. LogInv'  BY <2>1 DEF LogInv, PrefixInv
  <2>7. RefreshesInv' /\ JobsInv'  BY <2>1, UntouchedKeeps
  <2> QED BY <1>1, <2>5, <2>6, <2>7 DEF PrefixInv
<1>4. (IF selected = None THEN FirstRoom ELSE selected) \in Rooms
  BY TimelineAssumption DEF TimelineAssumption, PrefixInv, LogInv
<1> QED BY <1>2, <1>3, <1>4 DEF ReceiveSnapshot

(* A page extends the timeline of its room, or is an error. *)
LEMMA ReceivePageKeeps ==
  ASSUME PrefixInv, UNCHANGED log, ChannelInv', NEW m, ReplyOK(m), ReceivePage(m)
  PROVE  PrefixInv'
<1>1. LogInv' /\ RefreshesInv'  BY UntouchedKeeps DEF ReceivePage
<1>2. CASE UNCHANGED shown /\ \E outcome \in {"ok", "failed", "error"} : ReplayEnds(m, outcome)
  <2>1. CatchesInv' /\ JobsInv' /\ RequestsInv'  BY <1>2, ReplayEndsKeeps
  <2>2. ShownInv' /\ PostedInv'  BY <1>2, UntouchedKeeps DEF ReceivePage
  <2> QED BY <1>1, <2>1, <2>2 DEF PrefixInv
<1>3. CASE ~ Failed(m) /\ ~ BadPage(m) /\ AcceptPage(m)
  <2>1. PICK room \in Rooms : room = m.call.room
    BY DEF ReplyOK, CallOK, ReceivePage
  <2>2. PICK E : E = m.data.events  OBVIOUS
  <2>3. E \in SUBSET (1 .. log[room])
    BY <1>3, <2>1, <2>2 DEF ReplyOK, ReceivePage, Failed
  <2>4. ~ LeavesGap(room, E)  BY <1>3, <2>1, <2>2 DEF BadPage
  <2>5. shown' = [shown EXCEPT ![room] = @ \cup Fresh(room, E)]
    BY <1>3, <2>1, <2>2 DEF AcceptPage
  <2>6. ShownInv' /\ \A r \in Rooms : shown[r] \subseteq shown'[r]
    BY <2>3, <2>4, <2>5, FreshKeeps DEF PrefixInv
  <2>7. PostedInv'  BY <2>6, PostedStays DEF PrefixInv, ReceivePage
  <2>8. CatchesInv' /\ JobsInv' /\ RequestsInv'
    <3>1. CASE \E outcome \in {"ok", "error"} : ReplayEnds(m, outcome)
      BY <3>1, ReplayEndsKeeps
    <3>2. CASE UNCHANGED <<catches, jobs>> /\
                 \E tail : requests' = requests \cup {Sent(m.call, tail)}
      <4>1. PICK c, tail : c = m.call /\ requests' = requests \cup {Sent(c, tail)}
        BY <3>2
      <4>2. RequestOK(Sent(c, tail))  BY <4>1, SentOK DEF ReplyOK, PrefixInv
      <4>3. RequestsInv'  BY <4>1, <4>2, StillKeeps DEF RequestsInv, PrefixInv
      <4> QED BY <3>2, <4>3, UntouchedKeeps
    <3> QED BY <1>3, <3>1, <3>2 DEF AcceptPage
  <2> QED BY <1>1, <2>6, <2>7, <2>8 DEF PrefixInv
<1> QED BY <1>2, <1>3 DEF ReceivePage

(* The answer to a post is shown at once or waits for a catch-up. *)
LEMMA ReceivePostedKeeps ==
  ASSUME PrefixInv, UNCHANGED log, ChannelInv', NEW m, ReplyOK(m), ReceivePosted(m)
  PROVE  PrefixInv'
<1>1. LogInv' /\ ShownInv' /\ RefreshesInv' /\ PostedInv'
  BY UntouchedKeeps DEF ReceivePosted
<1>2. CASE UNCHANGED <<catches, requests, jobs>>
  BY <1>1, <1>2, UntouchedKeeps DEF PrefixInv
<1>3. CASE m.outcome = "ok" /\ ~ UNCHANGED <<catches, requests, jobs>>
  <2>1. PICK c : c = [m.call EXCEPT !.seq = m.data]  OBVIOUS
  <2>2. c = [kind |-> "post", room |-> m.call.room, epoch |-> m.call.epoch,
             operation |-> m.call.operation, seq |-> m.data]
    BY <2>1 DEF ReplyOK, CallOK, ReceivePosted
  <2>3. Recorded(m.call.room, m.data)  BY <1>3 DEF ReplyOK, ReceivePosted
  <2>4. WaiterOK(c) /\ c.room \in Rooms
    BY <2>2, <2>3 DEF WaiterOK, CallOK, Recorded
  <2>5. CASE CatchUp(c) /\ UNCHANGED jobs
    <3>1. CatchesInv' /\ RequestsInv'  BY <2>4, <2>5, CatchUpKeeps DEF PrefixInv
    <3>2. JobsInv'  BY <2>5, UntouchedKeeps
    <3> QED BY <1>1, <3>1, <3>2 DEF PrefixInv
  <2>6. CASE UNCHANGED <<catches, requests>> /\
               jobs' = Append(jobs, [call |-> c, outcome |-> "ok"])
    <3>1. PICK j : j = [call |-> c, outcome |-> "ok"]  OBVIOUS
    <3>2. JobOK(j)  BY <2>4, <3>1 DEF JobOK
    <3>3. IsSequence(jobs') /\ \A x \in Elements(jobs') : x \in Elements(jobs) \/ x = j
      BY <2>6, <3>1, AppendElements DEF PrefixInv, JobsInv
    <3>4. JobsInv'  BY <3>2, <3>3, StillKeeps DEF PrefixInv, JobsInv, JobOK
    <3> QED BY <1>1, <2>6, <3>4, UntouchedKeeps DEF PrefixInv
  <2> QED BY <1>3, <2>1, <2>5, <2>6 DEF ReceivePosted
<1> QED BY <1>2, <1>3 DEF ReceivePosted

(* The answer to a mutation queues a forced refresh. *)
LEMMA ReceiveMutationKeeps ==
  ASSUME PrefixInv, UNCHANGED log, ChannelInv', NEW m, ReplyOK(m), ReceiveMutation(m)
  PROVE  PrefixInv'
<1>1. LogInv' /\ ShownInv' /\ RequestsInv' /\ CatchesInv' /\ JobsInv' /\ PostedInv'
  BY UntouchedKeeps DEF ReceiveMutation
<1>2. RefreshesInv'
  <2>1. CASE UNCHANGED refreshes  BY <2>1, UntouchedKeeps
  <2>2. CASE ForceFresh(m.call)
    <3>1. PICK x : x = [call |-> m.call, operation |-> 0]  OBVIOUS
    <3>2. RefreshOK(x)  BY <3>1 DEF RefreshOK, ReplyOK, ReceiveMutation
    <3>3. /\ IsSequence(refreshes')
          /\ \A y \in Elements(refreshes') : y \in Elements(refreshes) \/ y = x
      BY <2>2, <3>1, AppendElements DEF PrefixInv, RefreshesInv, ForceFresh
    <3> QED BY <3>2, <3>3 DEF PrefixInv, RefreshesInv, RefreshOK, CallOK
  <2> QED BY <2>1, <2>2 DEF ReceiveMutation
<1> QED BY <1>1, <1>2 DEF PrefixInv

-----------------------------------------------------------------------------
(* Worker events *)

(* A live event follows the timeline, is known already or starts a catch-up. *)
LEMMA ReceiveRoomEventKeeps ==
  ASSUME PrefixInv, UNCHANGED <<log, selected, jobs, posted>>, ChannelInv',
         NEW m, MessageOK(m), ReceiveRoomEvent(m)
  PROVE  PrefixInv'
<1>1. LogInv' /\ RefreshesInv' /\ JobsInv'
  BY UntouchedKeeps DEF ReceiveRoomEvent
<1>2. Recorded(m.room, m.seq)  BY DEF ReceiveRoomEvent, MessageOK
<1>3. CASE UNCHANGED <<shown, catches, requests>>
  BY <1>1, <1>3, UntouchedKeeps DEF PrefixInv
<1>4. CASE /\ m.seq = Cursor(m.room) + 1
           /\ shown' = [shown EXCEPT ![m.room] = @ \cup {m.seq}]
           /\ UNCHANGED <<catches, requests>>
  <2>1. PICK room \in Rooms, seq \in 1 .. log[m.room] : room = m.room /\ seq = m.seq
    BY <1>2 DEF Recorded
  <2>2. seq \in Nat /\ Cursor(room) + 1 = seq  BY <1>4, <2>1 DEF PrefixInv, LogInv
  <2>3. PICK n \in Nat : shown[room] = 1 .. n
    BY <2>1 DEF PrefixInv, ShownInv, ShownIsPrefix, LogInv
  <2>4. Cursor(room) = n  BY <2>3, GreatestOfPrefix DEF Cursor
  <2>5. Fresh(room, {seq}) = {seq}  BY <2>2, <2>3, <2>4 DEF Fresh
  <2>6. ~ LeavesGap(room, {seq})  BY <2>2, <2>3, <2>4 DEF LeavesGap, Fresh
  <2>7. ShownInv' /\ \A r \in Rooms : shown[r] \subseteq shown'[r]
    BY <1>4, <2>1, <2>5, <2>6, FreshKeeps DEF PrefixInv
  <2>8. PostedInv'  BY <2>7, PostedStays DEF PrefixInv
  <2> QED BY <1>1, <1>4, <2>7, <2>8, UntouchedKeeps DEF PrefixInv
<1>5. CASE /\ CatchUp([NewCall("live", m.room, sequence + 1) EXCEPT !.seq = m.seq])
           /\ UNCHANGED shown
  <2>1. PICK c : c = [NewCall("live", m.room, sequence + 1) EXCEPT !.seq = m.seq]
    OBVIOUS
  <2>2. c = [kind |-> "live", room |-> m.room, epoch |-> epoch,
             operation |-> sequence + 1, seq |-> m.seq]
    BY <2>1 DEF NewCall
  <2>3. WaiterOK(c) /\ c.room \in Rooms  BY <1>2, <2>2 DEF WaiterOK, CallOK, Recorded
  <2>4. CatchesInv' /\ RequestsInv'  BY <1>5, <2>1, <2>3, CatchUpKeeps DEF PrefixInv
  <2>5. ShownInv' /\ PostedInv'  BY <1>5, UntouchedKeeps
  <2> QED BY <1>1, <2>4, <2>5 DEF PrefixInv
<1> QED BY <1>3, <1>4, <1>5 DEF ReceiveRoomEvent

(* A disconnect drops the chain of refreshes. *)
LEMMA NoRefreshes == refreshes' = <<>> => RefreshesInv'
  BY EmptyElements DEF RefreshesInv

(* Whatever the channel delivers keeps the invariant. *)
LEMMA ReceiveKeeps == PrefixInv /\ Receive => PrefixInv'
<1>1. SUFFICES ASSUME PrefixInv, Receive PROVE PrefixInv'  OBVIOUS
<1>2. UNCHANGED log /\ channel # <<>> /\ channel' = Tail(channel)
  BY <1>1 DEF Receive
<1>3. PICK m : m = Head(channel)  OBVIOUS
<1>4. /\ IsSequence(channel') /\ Elements(channel') \subseteq Elements(channel)
      /\ m \in Elements(channel)
  BY <1>1, <1>2, <1>3, TailElements DEF PrefixInv, ChannelInv
<1>5. MessageOK(m)  BY <1>1, <1>4 DEF PrefixInv, ChannelInv
<1>6. ChannelInv'
  BY <1>1, <1>2, <1>4, StillKeeps DEF PrefixInv, ChannelInv
<1>7. CASE ReceiveReply(m)
  <2>1. ReplyOK(m)  BY <1>5, <1>7 DEF MessageOK, ReceiveReply
  <2> QED BY <1>1, <1>2, <1>6, <1>7, <2>1, ReceiveSnapshotKeeps, ReceivePageKeeps,
             ReceivePostedKeeps, ReceiveMutationKeeps DEF ReceiveReply
<1>8. CASE ReceiveEvent(m)
  <2>1. UNCHANGED <<selected, jobs, posted>>  BY <1>8 DEF ReceiveEvent
  <2>2. CASE ReceiveRoomEvent(m)
    BY <1>1, <1>2, <1>5, <1>6, <2>1, <2>2, ReceiveRoomEventKeeps
  <2>3. CASE ReceiveDisconnected(m)
    <3>1. RefreshesInv'
      BY <1>1, <1>2, <2>3, UntouchedKeeps, NoRefreshes DEF ReceiveDisconnected
    <3> QED BY <1>1, <1>2, <1>6, <2>1, <2>3, <3>1, UntouchedKeeps
            DEF ReceiveDisconnected, PrefixInv
  <2>4. CASE ReceiveReady(m)
    <3>1. UNCHANGED <<shown, catches>>  BY <2>4 DEF ReceiveReady
    <3>2. RefreshesInv'
      BY <1>1, <1>2, <2>4, UntouchedKeeps, NoRefreshes DEF ReceiveReady
    <3>3. RequestsInv'
      <4>1. CASE UNCHANGED requests  BY <1>1, <1>2, <4>1, UntouchedKeeps
      <4>2. CASE \E e : StartHydrate(e)
        BY <1>1, <1>2, <4>2, StartHydrateKeeps DEF PrefixInv
      <4> QED BY <2>4, <4>1, <4>2 DEF ReceiveReady
    <3> QED BY <1>1, <1>2, <1>6, <2>1, <3>1, <3>2, <3>3, UntouchedKeeps DEF PrefixInv
  <2> QED BY <1>8, <2>2, <2>3, <2>4 DEF ReceiveEvent
<1> QED BY <1>1, <1>3, <1>7, <1>8 DEF Receive

-----------------------------------------------------------------------------
(* Calls of the user, and the theorems *)

(* A call of the user sends a request or selects a room. *)
LEMMA UserCallKeeps == PrefixInv /\ UserCall => PrefixInv'
<1>1. SUFFICES ASSUME PrefixInv, UserCall PROVE PrefixInv'  OBVIOUS
<1>2. UNCHANGED <<log, channel, shown, jobs, posted>> /\ selected # None
  BY <1>1 DEF UserCall
<1>3. ShownInv' /\ ChannelInv' /\ JobsInv' /\ PostedInv'  BY <1>1, <1>2, UntouchedKeeps
<1>4. ASSUME NEW c, CallOK(c), requests' = requests \cup {Sent(c, 0)},
             UNCHANGED <<selected, catches, refreshes>>
      PROVE  PrefixInv'
  <2>1. RequestOK(Sent(c, 0))  BY <1>1, <1>4, SentOK DEF PrefixInv
  <2>2. RequestsInv'  BY <1>1, <1>2, <1>4, <2>1, StillKeeps DEF PrefixInv, RequestsInv
  <2> QED BY <1>1, <1>2, <1>3, <1>4, <2>2, UntouchedKeeps DEF PrefixInv
<1>5. ASSUME NEW room \in Rooms, SelectRoom(room) PROVE PrefixInv'
  <2>1. Select(room) /\ UNCHANGED refreshes  BY <1>5 DEF SelectRoom
  <2>2. LogInv' /\ CatchesInv' /\ RequestsInv'
    BY <1>1, <1>2, <2>1, SelectKeeps DEF PrefixInv
  <2> QED BY <1>1, <1>2, <1>3, <2>1, <2>2, UntouchedKeeps DEF PrefixInv
<1>6. ASSUME NEW room \in Rooms, CreateRoom(room) PROVE PrefixInv'
  <2>1. PICK c : c = NewCall("create", room, sequence + 1)  OBVIOUS
  <2>2. CallOK(c)  BY <2>1, NewCallOK
  <2> QED BY <1>4, <1>6, <2>1, <2>2 DEF CreateRoom
<1>7. CASE PostMessage
  <2>1. PICK c : c = NewCall("post", selected, sequence + 1)  OBVIOUS
  <2>2. selected \in Rooms  BY <1>1, <1>2 DEF PrefixInv, LogInv
  <2>3. CallOK(c)  BY <2>1, <2>2 DEF NewCall, CallOK
  <2> QED BY <1>4, <1>7, <2>1, <2>3 DEF PostMessage
<1>8. CASE RemoveCleanup
  <2>1. PICK c : c = [NewCall("remove", FirstRoom, 0) EXCEPT !.seq = calls]  OBVIOUS
  <2>2. CallOK(c)  BY <2>1 DEF NewCall, CallOK
  <2> QED BY <1>4, <1>8, <2>1, <2>2 DEF RemoveCleanup
<1> QED BY <1>1, <1>5, <1>6, <1>7, <1>8 DEF UserCall

(* The store starts with empty timelines and one hydrate under way. *)
LEMMA InitPrefix == Init => PrefixInv
<1>1. SUFFICES ASSUME Init PROVE PrefixInv  OBVIOUS
<1> USE <1>1 DEF Init
<1>2. LogInv  BY DEF LogInv
<1>3. ShownInv
  <2>1. shown \in [Rooms -> SUBSET Nat]  OBVIOUS
  <2>2. \A room \in Rooms : 0 \in 0 .. log[room] /\ shown[room] = 1 .. 0  OBVIOUS
  <2> QED BY <2>1, <2>2 DEF ShownInv, ShownIsPrefix
<1>4. RequestsInv
  <2>1. CallOK(FirstCall)  BY DEF CallOK, FirstCall
  <2>2. FirstCall.kind = "hydrate"  BY DEF FirstCall
  <2> QED BY <2>1, <2>2 DEF RequestsInv, RequestOK
<1>5. ChannelInv /\ RefreshesInv /\ JobsInv
  BY EmptyElements DEF ChannelInv, RefreshesInv, JobsInv
<1>6. CatchesInv /\ PostedInv  BY DEF CatchesInv, PostedInv
<1> QED BY <1>2, <1>3, <1>4, <1>5, <1>6 DEF PrefixInv

(* Every step, a stutter included, keeps the invariant. *)
LEMMA NextKeeps == PrefixInv /\ [Next]_vars => PrefixInv'
<1>1. PrefixInv /\ UNCHANGED vars => PrefixInv'
  BY UntouchedKeeps DEF vars, PrefixInv
<1> QED BY <1>1, ServerStepKeeps, RunJobKeeps, ReceiveKeeps, UserCallKeeps DEF Next

(* What is on its way or waits speaks of recorded events only, always. *)
THEOREM PrefixInvariant == Spec => []PrefixInv
  BY InitPrefix, NextKeeps, PTL DEF Spec

(* A room's timeline is a prefix of its log (planAcceptedEvents). *)
THEOREM ShownIsPrefixHolds == Spec => []ShownIsPrefix
<1>1. PrefixInv => ShownIsPrefix  BY DEF PrefixInv, ShownInv
<1> QED BY <1>1, PrefixInvariant, PTL

(* A message whose postMessage succeeded is in the timeline. *)
THEOREM PostedIsShownHolds == Spec => []PostedIsShown
<1>1. PrefixInv => PostedIsShown  BY DEF PrefixInv, PostedInv, PostedIsShown
<1> QED BY <1>1, PrefixInvariant, PTL
-----------------------------------------------------------------------------
(* Types                                                                   *)

(* What a call of the store may say by now. *)
CallT(c) ==
  /\ c \in Calls /\ c.epoch <= epoch /\ c.operation <= sequence
  /\ c.kind = "hydrate" => c.operation >= 1

RequestT(q) ==
  /\ CallT(q.call) /\ q.cursor \in 0 .. MaxEvents
  /\ q.generation \in 0 .. MaxGenerations /\ q.committed \in 0 .. MaxEvents

ReplyT(m) ==
  /\ CallT(m.call) /\ m.sent \in 0 .. MaxGenerations /\ m.cursor \in 0 .. MaxEvents
  /\ m.outcome \in {"ok", "rejected", "refused"}
  /\ m.call.kind = "hydrate" /\ m.outcome # "rejected"
       => m.data \in [Rooms -> 0 .. MaxEvents]

MessageT(m) ==
  /\ m.generation \in 0 .. MaxGenerations
  /\ m.type \in {"reply", "room.event", "worker.disconnected", "worker.ready"}
  /\ m.type = "reply" => ReplyT(m)

(* The calls that wait for a catch-up are of its epoch. *)
Waiting == {"hydrate", "select", "live", "post"}
CatchT(k) ==
  /\ k.epoch \in Nat /\ k.epoch <= epoch
  /\ \A c \in Elements(k.waiters) : CallT(c) /\ c.epoch = k.epoch /\ c.kind \in Waiting

JobT(j) == CallT(j.call) /\ j.outcome \in {"ok", "failed", "error"}

WorldT ==
  /\ log \in [Rooms -> 0 .. MaxEvents]
  /\ worker \in [up : BOOLEAN, generation : 0 .. MaxGenerations]
  /\ ~worker.up => worker.generation < MaxGenerations
StoreT ==
  /\ preload \in 0 .. MaxGenerations /\ epoch \in Nat /\ sequence \in Nat
  /\ status \in [connection : {"bootstrapping", "ready", "reconnecting", "error"},
                 operation : Nat]
  /\ status.operation <= sequence
  /\ known \in [generation : 0 .. MaxGenerations, ready : BOOLEAN, hydrated : BOOLEAN]
  /\ snapshot \in [Rooms -> 0 .. MaxEvents]
  /\ hydrating \in [epoch : Nat, operation : Nat] /\ hydrating.epoch <= epoch
  /\ calls \in 0 .. MaxCalls
RequestsT == \A q \in requests : RequestT(q)
ChannelT == \A m \in Elements(channel) : MessageT(m)
CatchesT ==
  /\ \A k \in catches : CatchT(k)
  /\ \A k, l \in catches : k.room = l.room /\ k.epoch = l.epoch => k = l
RefreshesT == \A x \in Elements(refreshes) : CallT(x.call)
JobsT == \A j \in Elements(jobs) : JobT(j)
TypeInv ==
  WorldT /\ StoreT /\ RequestsT /\ ChannelT /\ CatchesT /\ RefreshesT /\ JobsT

-----------------------------------------------------------------------------
(* Steps keep the types                                                    *)

Later == /\ epoch' \in Nat /\ sequence' \in Nat
         /\ epoch <= epoch' /\ sequence <= sequence'

(* What is said of a call stays true while epochs and operations go on. *)
LEMMA LaterKeeps ==
  ASSUME StoreT, Later
  PROVE  /\ \A c : CallT(c) => CallT(c)'
         /\ \A q : RequestT(q) => RequestT(q)'
         /\ \A m : MessageT(m) => MessageT(m)'
         /\ \A k : CatchT(k) => CatchT(k)'
         /\ \A j : JobT(j) => JobT(j)'
<1>1. \A c : CallT(c) => CallT(c)'
  BY DEF CallT, StoreT, Later, Calls
<1>2. \A q : RequestT(q) => RequestT(q)'
  BY <1>1 DEF RequestT
<1>3. \A m : MessageT(m) => MessageT(m)'
  BY <1>1 DEF MessageT, ReplyT
<1>4. \A k : CatchT(k) => CatchT(k)'
  BY <1>1 DEF CatchT, StoreT, Later
<1>5. \A j : JobT(j) => JobT(j)'
  BY <1>1 DEF JobT
<1> QED BY <1>1, <1>2, <1>3, <1>4, <1>5

(* What a step does not add to keeps its types. *)
LEMMA LessKeepsTypes ==
  ASSUME TypeInv, Later
  PROVE  /\ requests' \in SUBSET requests => RequestsT'
         /\ Elements(channel') \subseteq Elements(channel) => ChannelT'
         /\ catches' \in SUBSET catches => CatchesT'
         /\ Elements(refreshes') \subseteq Elements(refreshes) => RefreshesT'
         /\ Elements(jobs') \subseteq Elements(jobs) => JobsT'
<1> USE LaterKeeps DEF TypeInv
<1>1. requests' \in SUBSET requests => RequestsT'  BY DEF RequestsT
<1>2. Elements(channel') \subseteq Elements(channel) => ChannelT'  BY DEF ChannelT
<1>3. catches' \in SUBSET catches => CatchesT'  BY DEF CatchesT
<1>4. Elements(refreshes') \subseteq Elements(refreshes) => RefreshesT'  BY DEF RefreshesT
<1>5. Elements(jobs') \subseteq Elements(jobs) => JobsT'  BY DEF JobsT
<1> QED BY <1>1, <1>2, <1>3, <1>4, <1>5

(* The bound on the events of all rooms bounds each room's. *)
LEMMA RoomForEvent ==
  ASSUME WorldT, MoreEvents, NEW room \in Rooms
  PROVE  log[room] + 1 \in 1 .. MaxEvents
<1>1. PICK S : S = {e \in Rooms \X (1 .. MaxEvents) : e[2] <= log[e[1]]}
  OBVIOUS
<1>2. MaxEvents \in Nat /\ IsFiniteSet(Rooms) /\ log[room] \in 0 .. MaxEvents
  BY TimelineAssumption DEF TimelineAssumption, WorldT
<1>3. IsFiniteSet(1 .. MaxEvents) /\ Cardinality(1 .. MaxEvents) = MaxEvents
  BY <1>2, FS_Interval
<1>4. IsFiniteSet(S)
  <2>1. IsFiniteSet(Rooms \X (1 .. MaxEvents))
    BY <1>2, <1>3, FS_Product
  <2> QED BY <1>1, <2>1, FS_Subset
<1>5. Cardinality(S) \in Nat /\ Cardinality(S) < MaxEvents
  BY <1>1, <1>4, FS_CardinalityType DEF MoreEvents
<1>6. SUFFICES ASSUME log[room] = MaxEvents PROVE FALSE
  BY <1>2
<1>7. PICK g : g = [n \in 1 .. MaxEvents |-> <<room, n>>]
  OBVIOUS
<1>8. \A n \in 1 .. MaxEvents : g[n] \in S
  BY <1>1, <1>2, <1>6, <1>7
<1>9. g \in Injection(1 .. MaxEvents, S)
  BY <1>7, <1>8 DEF Injection, IsInjective
<1>10. Cardinality(1 .. MaxEvents) <= Cardinality(S)
  BY <1>4, <1>9, FS_Injection
<1> QED BY <1>2, <1>3, <1>5, <1>10

-----------------------------------------------------------------------------
(* The worker and the gateway *)

(* A message that is sent. *)
LEMMA SendTypes ==
  ASSUME ChannelInv, TypeInv, UNCHANGED <<epoch, sequence>>,
         NEW m, MessageT(m), channel' = Append(channel, m)
  PROVE  ChannelT'
<1>1. \A x \in Elements(channel') : x \in Elements(channel) \/ x = m
  BY AppendElements DEF ChannelInv
<1>2. Later  BY DEF Later, TypeInv, StoreT
<1>3. \A x \in Elements(channel') : MessageT(x)  BY <1>1 DEF TypeInv, ChannelT
<1> QED BY <1>2, <1>3, LaterKeeps DEF ChannelT, TypeInv

(* The store's side of the types is not the worker's to change. *)
LEMMA ServerLeavesStore ==
  ASSUME TypeInv, UNCHANGED <<preload, epoch, sequence, status, known, snapshot, catches,
                              hydrating, refreshes, jobs, calls>>,
         WorldT', RequestsT', ChannelT'
  PROVE  TypeInv'
<1>1. Later /\ StoreT'  BY DEF Later, TypeInv, StoreT
<1>2. CatchesT' /\ RefreshesT' /\ JobsT'  BY <1>1, LessKeepsTypes
<1> QED BY <1>1, <1>2 DEF TypeInv

(* An answer carries its request's call. *)
LEMMA ReplyTypes ==
  ASSUME TypeInv, NEW q \in requests, NEW outcome \in {"ok", "rejected", "refused"},
         NEW data,
         q.call.kind = "hydrate" /\ outcome # "rejected" => data \in [Rooms -> 0 .. MaxEvents]
  PROVE  MessageT(Reply(q, outcome, data))
<1>1. RequestT(q) /\ WorldT  BY DEF TypeInv, RequestsT
<1>2. PICK m : m = Reply(q, outcome, data)  OBVIOUS
<1>3. /\ m.type = "reply" /\ m.call = q.call /\ m.cursor = q.cursor
      /\ m.sent = q.generation /\ m.generation = worker.generation
      /\ m.outcome = outcome /\ m.data = data
  BY <1>2 DEF Reply
<1>4. ReplyT(m)  BY <1>1, <1>3 DEF ReplyT, RequestT
<1>5. MessageT(m)  BY <1>1, <1>3, <1>4 DEF MessageT, WorldT
<1> QED BY <1>2, <1>5

(* A request that is answered. *)
LEMMA AnswerTypes ==
  ASSUME PrefixInv, TypeInv, UNCHANGED <<epoch, sequence>>, NEW q \in requests, Answer(q)
  PROVE  WorldT' /\ RequestsT' /\ ChannelT'
<1>1. Later  BY DEF Later, TypeInv, StoreT
<1>2. RequestT(q) /\ RequestOK(q) /\ ChannelInv
  BY DEF TypeInv, RequestsT, PrefixInv, RequestsInv
<1>3. ASSUME NEW outcome \in {"ok", "rejected", "refused"}, NEW data,
             q.call.kind = "hydrate" /\ outcome # "rejected" => data \in [Rooms -> 0 .. MaxEvents],
             channel' = Append(channel, Reply(q, outcome, data)),
             requests' = requests \ {q}, UNCHANGED <<log, worker>>
      PROVE  WorldT' /\ RequestsT' /\ ChannelT'
  <2>1. PICK m : m = Reply(q, outcome, data)  OBVIOUS
  <2>2. MessageT(m)  BY <1>3, <2>1, ReplyTypes
  <2>3. ChannelT'  BY <1>2, <1>3, <2>1, <2>2, SendTypes
  <2>4. RequestsT'  BY <1>1, <1>3, LessKeepsTypes
  <2>5. WorldT'  BY <1>3 DEF WorldT, TypeInv
  <2> QED BY <2>3, <2>4, <2>5
<1>4. CASE Reject(q)  BY <1>3, <1>4 DEF Reject
<1>5. CASE AnswerSnapshot(q)
  <2>1. log \in [Rooms -> 0 .. MaxEvents]  BY DEF TypeInv, WorldT
  <2> QED BY <1>3, <1>5, <2>1 DEF AnswerSnapshot
<1>6. CASE AnswerReplay(q)  BY <1>3, <1>6 DEF AnswerReplay
<1>7. CASE CommitPost(q)
  <2>1. /\ q.call.room \in Rooms /\ MoreEvents
        /\ log' = [log EXCEPT ![q.call.room] = @ + 1]
        /\ UNCHANGED <<channel, worker>>
    BY <1>2, <1>7 DEF CommitPost, RequestOK, CallOK
  <2>2. PICK n : n = log[q.call.room] + 1  OBVIOUS
  <2>3. n \in 1 .. MaxEvents  BY <2>1, <2>2, RoomForEvent DEF TypeInv
  <2>4. n \in 0 .. MaxEvents  BY <2>3
  <2>5. WorldT'  BY <2>1, <2>2, <2>4 DEF WorldT, TypeInv
  <2>6. PICK p : p = [q EXCEPT !.committed = n]  OBVIOUS
  <2>7. p = [call |-> q.call, cursor |-> q.cursor, generation |-> q.generation,
             committed |-> n]
    BY <1>2, <2>6 DEF RequestOK
  <2>8. RequestT(p)  BY <1>2, <2>4, <2>7 DEF RequestT
  <2>9. requests' = (requests \ {q}) \cup {p}  BY <2>2, <2>6, <1>7 DEF CommitPost
  <2>10. \A x \in requests' : RequestT(x)  BY <2>8, <2>9 DEF TypeInv, RequestsT
  <2>11. RequestsT'  BY <2>10, <1>1, LaterKeeps DEF RequestsT, TypeInv
  <2>12. ChannelT'  BY <1>1, <2>1, LessKeepsTypes
  <2> QED BY <2>5, <2>11, <2>12
<1>8. CASE AnswerPost(q)
  <2>1. /\ q.call.kind = "post" /\ q.call.room \in Rooms
        /\ q.committed \in 1 .. log[q.call.room]
        /\ requests' = requests \ {q} /\ UNCHANGED <<log, worker>>
    BY <1>2, <1>8 DEF AnswerPost, RequestOK, CallOK, PrefixInv, LogInv
  <2>2. PICK m : m = Reply(q, "ok", q.committed)  OBVIOUS
  <2>3. PICK later : later = LaterEvents(q.call.room, q.committed)  OBVIOUS
  <2>4. channel' = Append(channel, m) \o later  BY <2>2, <2>3, <1>8 DEF AnswerPost
  <2>5. MessageT(m)  BY <2>1, <2>2, ReplyTypes
  <2>6. PICK n \in Nat : n = log[q.call.room] - q.committed + 1
    BY <2>1 DEF PrefixInv, LogInv
  <2>7. later = [i \in 1 .. n |-> RoomEvent(q.call.room, q.committed + i - 1)]
    BY <2>3, <2>6 DEF LaterEvents
  <2>8. DOMAIN later = 1 .. n /\ later = [i \in 1 .. n |-> later[i]]  BY <2>7
  <2>9. IsSequence(later)  BY <2>8, FunctionIsSequence
  <2>10. ASSUME NEW x \in Elements(later) PROVE MessageT(x)
    <3>1. PICK i \in 1 .. n : x = RoomEvent(q.call.room, q.committed + i - 1)
      BY <2>7, <2>8, <2>10 DEF Elements
    <3>2. x.type = "room.event" /\ x.generation = worker.generation  BY <3>1 DEF RoomEvent
    <3>3. worker.generation \in 0 .. MaxGenerations  BY DEF TypeInv, WorldT
    <3> QED BY <3>2, <3>3 DEF MessageT
  <2>11. /\ IsSequence(Append(channel, m))
         /\ \A x \in Elements(Append(channel, m)) : x \in Elements(channel) \/ x = m
    BY <1>2, AppendElements DEF ChannelInv
  <2>12. \A x \in Elements(channel') : MessageT(x)
    BY <2>4, <2>5, <2>9, <2>10, <2>11, ConcatElements DEF TypeInv, ChannelT
  <2>13. ChannelT'  BY <1>1, <2>12, LaterKeeps DEF ChannelT, TypeInv
  <2>14. RequestsT'  BY <1>1, <2>1, LessKeepsTypes
  <2>15. WorldT'  BY <2>1 DEF WorldT, TypeInv
  <2> QED BY <2>13, <2>14, <2>15
<1>9. CASE AnswerMutation(q)  BY <1>3, <1>9 DEF AnswerMutation
<1>10. CASE Refuse(q)  BY <1>3, <1>10 DEF Refuse
<1> QED BY <1>4, <1>5, <1>6, <1>7, <1>8, <1>9, <1>10 DEF Answer

(* The worker, the gateway and the supervisor keep the types. *)
LEMMA ServerTypes == PrefixInv /\ TypeInv /\ ServerStep => TypeInv'
<1>1. SUFFICES ASSUME PrefixInv, TypeInv, ServerStep PROVE TypeInv'  OBVIOUS
<1>2. UNCHANGED <<preload, epoch, sequence, status, known, snapshot, catches, hydrating,
                  refreshes, jobs, calls>>
  BY <1>1 DEF ServerStep
<1>3. Later  BY <1>1, <1>2 DEF Later, TypeInv, StoreT
<1>4. SUFFICES WorldT' /\ RequestsT' /\ ChannelT'  BY <1>1, <1>2, ServerLeavesStore
<1>5. ASSUME NEW room \in Rooms, AppendEvent(room)
      PROVE  WorldT' /\ RequestsT' /\ ChannelT'
  <2>1. PICK n : n = log[room] + 1  OBVIOUS
  <2>2. n \in 1 .. MaxEvents  BY <1>1, <1>5, <2>1, RoomForEvent DEF TypeInv, AppendEvent
  <2>3. n \in 0 .. MaxEvents /\ log' = [log EXCEPT ![room] = n] /\ UNCHANGED <<worker, requests>>
    BY <1>5, <2>1, <2>2 DEF AppendEvent
  <2>4. WorldT'  BY <1>1, <2>3 DEF WorldT, TypeInv
  <2>5. RequestsT'  BY <1>1, <1>3, <2>3, LessKeepsTypes
  <2>6. ChannelT'
    <3>1. CASE UNCHANGED channel  BY <1>1, <1>3, <3>1, LessKeepsTypes
    <3>2. CASE channel' = Append(channel, RoomEvent(room, log[room] + 1))
      <4>1. PICK m : m = RoomEvent(room, log[room] + 1)  OBVIOUS
      <4>2. m.type = "room.event" /\ m.generation = worker.generation  BY <4>1 DEF RoomEvent
      <4>3. worker.generation \in 0 .. MaxGenerations  BY <1>1 DEF TypeInv, WorldT
      <4>4. MessageT(m)  BY <4>2, <4>3 DEF MessageT
      <4> QED BY <1>1, <1>2, <3>2, <4>1, <4>4, SendTypes DEF PrefixInv
    <3> QED BY <1>5, <3>1, <3>2 DEF AppendEvent
  <2> QED BY <2>4, <2>5, <2>6
<1>6. CASE \E q \in requests : Answer(q)  BY <1>1, <1>2, <1>6, AnswerTypes
<1>7. ASSUME NEW type \in {"worker.disconnected", "worker.ready"},
             NEW generation \in 0 .. MaxGenerations,
             channel' = Announced(type, generation)
      PROVE  ChannelT'
  <2>1. PICK m : m = [type |-> type, generation |-> generation]  OBVIOUS
  <2>2. MessageT(m)  BY <2>1 DEF MessageT
  <2> QED BY <1>1, <1>2, <1>7, <2>1, <2>2, SendTypes DEF Announced, PrefixInv
<1>8. CASE Crash
  <2>1. worker \in [up : BOOLEAN, generation : 0 .. MaxGenerations]
    BY <1>1 DEF TypeInv, WorldT
  <2>2. worker' \in [up : BOOLEAN, generation : 0 .. MaxGenerations]
        /\ worker'.generation < MaxGenerations
    BY <1>8, <2>1 DEF Crash
  <2>3. WorldT'  BY <1>1, <1>8, <2>2 DEF Crash, TypeInv, WorldT
  <2>4. RequestsT'  BY <1>1, <1>3, <1>8, LessKeepsTypes DEF Crash
  <2>5. ChannelT'  BY <1>7, <1>8, <2>1 DEF Crash
  <2> QED BY <2>3, <2>4, <2>5
<1>9. CASE Restart
  <2>1. worker.generation + 1 \in 0 .. MaxGenerations
    BY <1>1, <1>9, TimelineAssumption DEF TypeInv, WorldT, Restart, TimelineAssumption
  <2>2. WorldT'  BY <1>1, <1>9, <2>1 DEF Restart, TypeInv, WorldT
  <2>3. RequestsT'  BY <1>1, <1>3, <1>9, LessKeepsTypes DEF Restart
  <2>4. ChannelT'  BY <1>7, <1>9, <2>1 DEF Restart
  <2> QED BY <2>2, <2>3, <2>4
<1> QED BY <1>1, <1>5, <1>6, <1>8, <1>9 DEF ServerStep

-----------------------------------------------------------------------------
(* The types and the store's functions *)

(* A timeline ends where its log does, or before. *)
LEMMA CursorType ==
  ASSUME PrefixInv, WorldT, NEW room \in Rooms
  PROVE  /\ Cursor(room) \in 0 .. log[room] /\ Cursor(room) \in 0 .. MaxEvents
         /\ shown[room] = 1 .. Cursor(room)
<1>1. PICK n \in 0 .. log[room] : shown[room] = 1 .. n
  BY DEF PrefixInv, ShownInv, ShownIsPrefix
<1>2. log[room] \in 0 .. MaxEvents /\ MaxEvents \in Nat
  BY TimelineAssumption DEF WorldT, TimelineAssumption
<1>3. Cursor(room) = n  BY <1>1, <1>2, GreatestOfPrefix DEF Cursor
<1> QED BY <1>1, <1>2, <1>3

(* The request the bridge sends for a call. *)
LEMMA SentTypes ==
  ASSUME NEW c, CallT(c)', NEW cursor \in 0 .. MaxEvents, preload' \in 0 .. MaxGenerations,
         NEW q, q = Sent(c, cursor)
  PROVE  RequestT(q)'
<1>1. /\ q.call = c /\ q.cursor = cursor /\ q.generation = preload' /\ q.committed = 0
  BY DEF Sent
<1>2. 0 \in 0 .. MaxEvents  BY TimelineAssumption DEF TimelineAssumption
<1> QED BY <1>1, <1>2 DEF RequestT

(* One more request. *)
LEMMA AskTypes ==
  ASSUME TypeInv, Later, NEW q, RequestT(q)', requests' = requests \cup {q}
  PROVE  RequestsT'
  BY LaterKeeps DEF RequestsT, TypeInv

(* catchUp for a call of this epoch. *)
LEMMA CatchUpTypes ==
  ASSUME PrefixInv, TypeInv, Later, UNCHANGED epoch, preload' \in 0 .. MaxGenerations,
         NEW c, CallT(c)', c.epoch = epoch, c.kind \in Waiting, c.room \in Rooms, CatchUp(c)
  PROVE  CatchesT' /\ RequestsT'
<1>1. /\ epoch \in Nat /\ \A k \in catches : CatchOK(k) /\ CatchT(k)
      /\ \A k, l \in catches : k.room = l.room /\ k.epoch = l.epoch => k = l
  BY DEF TypeInv, StoreT, CatchesT, PrefixInv, CatchesInv
<1>2. CASE InFlight(c.room) = {}
  <2>1. PICK k : k = [room |-> c.room, epoch |-> epoch, waiters |-> <<c>>]  OBVIOUS
  <2>2. PICK r : r = NewCall("replay", c.room, 0)  OBVIOUS
  <2>3. PICK q : q = Sent(r, Cursor(c.room))  OBVIOUS
  <2>4. catches' = catches \cup {k} /\ requests' = requests \cup {q}
    BY <1>2, <2>1, <2>2, <2>3 DEF CatchUp
  <2>5. CallT(r)'
    BY <1>1, <2>2 DEF NewCall, CallT, Calls, Later
  <2>6. RequestT(q)'
    <3>1. Cursor(c.room) \in 0 .. MaxEvents  BY CursorType DEF TypeInv
    <3> QED BY <2>3, <2>5, <3>1, SentTypes
  <2>7. RequestsT'  BY <2>4, <2>6, AskTypes
  <2>8. CatchT(k)'
    <3>1. \A x \in Elements(k.waiters) : x = c  BY <2>1, SingleElement
    <3> QED BY <1>1, <2>1, <3>1 DEF CatchT
  <2>9. \A l \in catches : ~ (l.room = k.room /\ l.epoch = k.epoch)
    BY <1>2, <2>1 DEF InFlight
  <2>10. \A l, j \in catches' : l.room = j.room /\ l.epoch = j.epoch => l = j
    BY <1>1, <2>4, <2>9
  <2>11. \A l \in catches : CatchT(l)'  BY <1>1, LaterKeeps DEF TypeInv
  <2>12. CatchesT'  BY <2>4, <2>8, <2>10, <2>11 DEF CatchesT
  <2> QED BY <2>7, <2>12
<1>3. CASE InFlight(c.room) # {}
  <2>1. UNCHANGED requests  BY <1>3 DEF CatchUp
  <2>2. RequestsT'  BY <2>1, LessKeepsTypes
  <2>3. catches' = {IF k \in InFlight(c.room)
                      THEN [k EXCEPT !.waiters = Append(@, c)] ELSE k : k \in catches}
    BY <1>3 DEF CatchUp
  <2>4. ASSUME NEW k \in InFlight(c.room)
        PROVE  /\ CatchT([k EXCEPT !.waiters = Append(@, c)])'
               /\ [k EXCEPT !.waiters = Append(@, c)].room = k.room
               /\ [k EXCEPT !.waiters = Append(@, c)].epoch = k.epoch
    <3>1. CatchOK(k) /\ CatchT(k) /\ k \in catches /\ k.epoch = epoch
      BY <1>1 DEF InFlight
    <3>2. PICK j : j = [k EXCEPT !.waiters = Append(@, c)]  OBVIOUS
    <3>3. j = [room |-> k.room, epoch |-> k.epoch, waiters |-> Append(k.waiters, c)]
      BY <3>1, <3>2 DEF CatchOK
    <3>4. \A x \in Elements(j.waiters) : x \in Elements(k.waiters) \/ x = c
      BY <3>1, <3>3, AppendElements DEF CatchOK
    <3>5. CatchT(k)'  BY <3>1, LaterKeeps DEF TypeInv
    <3>6. CatchT(j)'  BY <3>1, <3>3, <3>4, <3>5 DEF CatchT
    <3> QED BY <3>2, <3>3, <3>6
  <2>5. \A k \in catches : CatchT(k)'  BY <1>1, LaterKeeps DEF TypeInv
  <2>6. \A j \in catches' : CatchT(j)'  BY <2>3, <2>4, <2>5
  <2>7. ASSUME NEW l \in catches', NEW j \in catches', l.room = j.room, l.epoch = j.epoch
        PROVE  l = j
    <3>1. PICK k \in catches :
            l = IF k \in InFlight(c.room) THEN [k EXCEPT !.waiters = Append(@, c)] ELSE k
      BY <2>3
    <3>2. PICK i \in catches :
            j = IF i \in InFlight(c.room) THEN [i EXCEPT !.waiters = Append(@, c)] ELSE i
      BY <2>3
    <3>3. k.room = l.room /\ k.epoch = l.epoch  BY <2>4, <3>1
    <3>4. i.room = j.room /\ i.epoch = j.epoch  BY <2>4, <3>2
    <3>5. k = i  BY <1>1, <2>7, <3>3, <3>4
    <3> QED BY <3>1, <3>2, <3>5
  <2>8. CatchesT'  BY <2>6, <2>7 DEF CatchesT
  <2> QED BY <2>2, <2>8
<1> QED BY <1>2, <1>3

(* selectRoom: a call of a new operation. *)
LEMMA SelectTypes ==
  ASSUME PrefixInv, TypeInv, UNCHANGED epoch, preload' \in 0 .. MaxGenerations,
         NEW room \in Rooms, Select(room)
  PROVE  CatchesT' /\ RequestsT' /\ Later
<1>1. sequence' = sequence + 1 /\ epoch \in Nat /\ sequence \in Nat
  BY DEF Select, TypeInv, StoreT
<1>2. Later  BY <1>1 DEF Later
<1>3. PICK c : c = NewCall("select", room, sequence + 1)  OBVIOUS
<1>4. /\ c.kind = "select" /\ c.room = room /\ c.epoch = epoch /\ CallT(c)'
  BY <1>1, <1>3 DEF NewCall, CallT, Calls
<1>5. CatchUp(c)  BY <1>3 DEF Select
<1> QED BY <1>2, <1>4, <1>5, CatchUpTypes DEF Waiting

(* hydrateForEpoch: a request of the epoch that begins or goes on. *)
LEMMA StartHydrateTypes ==
  ASSUME TypeInv, preload' \in 0 .. MaxGenerations,
         epoch' \in Nat, epoch <= epoch', StartHydrate(epoch')
  PROVE  /\ RequestsT' /\ Later
         /\ status' \in [connection : {"bootstrapping", "ready", "reconnecting", "error"},
                         operation : Nat]
         /\ status'.operation <= sequence'
         /\ hydrating' \in [epoch : Nat, operation : Nat] /\ hydrating'.epoch <= epoch'
<1>1. sequence' = sequence + 1 /\ epoch \in Nat /\ sequence \in Nat
  BY DEF StartHydrate, TypeInv, StoreT
<1>2. Later  BY <1>1 DEF Later
<1>3. PICK c : c = [NewCall("hydrate", None, sequence + 1) EXCEPT !.epoch = epoch']
  OBVIOUS
<1>4. c = [kind |-> "hydrate", room |-> None, epoch |-> epoch',
           operation |-> sequence + 1, seq |-> 0]
  BY <1>3 DEF NewCall
<1>5. CallT(c)'  BY <1>1, <1>4 DEF CallT, Calls
<1>6. PICK q : q = Sent(c, 0)  OBVIOUS
<1>7. 0 \in 0 .. MaxEvents  BY TimelineAssumption DEF TimelineAssumption
<1>8. RequestT(q)'  BY <1>5, <1>6, <1>7, SentTypes
<1>9. requests' = requests \cup {q}  BY <1>3, <1>6 DEF StartHydrate
<1>10. RequestsT'  BY <1>2, <1>8, <1>9, AskTypes
<1> QED BY <1>1, <1>2, <1>10 DEF StartHydrate

(* patchStatus shows an operation that has begun. *)
LEMMA PatchedTypes ==
  ASSUME StoreT, NEW c, CallT(c), NEW connection \in {"ready", "error"}
  PROVE  /\ Patched(c, connection) \in
              [connection : {"bootstrapping", "ready", "reconnecting", "error"}, operation : Nat]
         /\ Patched(c, connection).operation <= sequence
  BY DEF StoreT, CallT, Calls, Patched

(* The end of a hydrate. *)
LEMMA FinishHydrateTypes ==
  ASSUME PrefixInv, TypeInv, UNCHANGED <<epoch, sequence>>, NEW c, CallT(c), NEW outcome,
         NEW rest, IsSequence(rest), Elements(rest) \subseteq Elements(jobs),
         FinishHydrate(c, outcome, rest)
  PROVE  /\ RefreshesT' /\ JobsT' /\ Later
         /\ status' \in [connection : {"bootstrapping", "ready", "reconnecting", "error"},
                         operation : Nat]
         /\ status'.operation <= sequence
         /\ known' \in [generation : 0 .. MaxGenerations, ready : BOOLEAN, hydrated : BOOLEAN]
         /\ hydrating' \in [epoch : Nat, operation : Nat] /\ hydrating'.epoch <= epoch
<1>1. Later /\ StoreT  BY DEF Later, TypeInv, StoreT
<1>2. /\ status' \in [connection : {"bootstrapping", "ready", "reconnecting", "error"},
                      operation : Nat]
      /\ status'.operation <= sequence
  <2>1. PICK connection \in {"ready", "error"} : status' = Patched(c, connection)
    BY DEF FinishHydrate
  <2> QED BY <1>1, <2>1, PatchedTypes
<1>3. known' \in [generation : 0 .. MaxGenerations, ready : BOOLEAN, hydrated : BOOLEAN]
  <2>1. PICK b \in BOOLEAN : known' = [known EXCEPT !.hydrated = b]
    <3>1. known.hydrated \in BOOLEAN  BY <1>1 DEF StoreT
    <3>2. (known.hydrated \/ (outcome = "ok" /\ IsCurrent(c))) \in BOOLEAN  BY <3>1
    <3> QED BY <3>2 DEF FinishHydrate
  <2> QED BY <1>1, <2>1 DEF StoreT
<1>4. hydrating' \in [epoch : Nat, operation : Nat] /\ hydrating'.epoch <= epoch
  BY <1>1 DEF FinishHydrate, StoreT, NoTask
<1>5. CASE refreshes # <<>> /\ Head(refreshes).operation = c.operation
  <2>1. PICK x : x = Head(refreshes)  OBVIOUS
  <2>2. PICK j : j = [call |-> x.call, outcome |-> "ok"]  OBVIOUS
  <2>3. Elements(Tail(refreshes)) \subseteq Elements(refreshes) /\ x \in Elements(refreshes)
    BY <1>5, <2>1, TailElements DEF PrefixInv, RefreshesInv
  <2>4. JobT(j)  BY <2>2, <2>3 DEF TypeInv, RefreshesT, JobT
  <2>5. jobs' = Append(rest, j) /\ refreshes' = Tail(refreshes)
    BY <1>5, <2>1, <2>2 DEF FinishHydrate
  <2>6. RefreshesT'  BY <1>1, <2>3, <2>5, LessKeepsTypes
  <2>7. \A y \in Elements(jobs') : JobT(y)
    BY <2>4, <2>5, AppendElements DEF TypeInv, JobsT
  <2>8. JobsT'  BY <1>1, <2>7, LaterKeeps DEF JobsT
  <2> QED BY <1>1, <1>2, <1>3, <1>4, <2>6, <2>8
<1>6. CASE ~ (refreshes # <<>> /\ Head(refreshes).operation = c.operation)
  <2>1. jobs' = rest /\ refreshes' = refreshes  BY <1>6 DEF FinishHydrate
  <2> QED BY <1>1, <1>2, <1>3, <1>4, <2>1, LessKeepsTypes
<1> QED BY <1>5, <1>6

-----------------------------------------------------------------------------
(* The types and the steps of the store *)

(* The continuations and the refreshes keep the types. *)
LEMMA RunJobTypes == PrefixInv /\ TypeInv /\ RunJob => TypeInv'
<1>1. SUFFICES ASSUME PrefixInv, TypeInv, RunJob PROVE TypeInv'  OBVIOUS
<1>2. UNCHANGED <<log, worker, channel, preload, epoch, snapshot, calls>>
  BY <1>1 DEF RunJob
<1>3. StoreT /\ WorldT /\ WorldT'  BY <1>1, <1>2 DEF TypeInv, WorldT
<1>4. preload' \in 0 .. MaxGenerations /\ epoch \in Nat /\ sequence \in Nat
  BY <1>2, <1>3 DEF StoreT
<1>5. CASE Continue
  <2>1. PICK job : job = Head(jobs)  OBVIOUS
  <2>2. jobs # <<>>  BY <1>5 DEF Continue
  <2>3. /\ IsSequence(Tail(jobs)) /\ Elements(Tail(jobs)) \subseteq Elements(jobs)
        /\ job \in Elements(jobs)
    BY <1>1, <2>1, <2>2, TailElements DEF PrefixInv, JobsInv
  <2>4. JobT(job) /\ JobOK(job)
    BY <1>1, <2>3 DEF TypeInv, JobsT, PrefixInv, JobsInv
  <2>5. CallT(job.call)  BY <2>4 DEF JobT
  <2>6. CASE HydrateContinues(job)
    <3>1. PICK c, outcome, rest : c = job.call /\ outcome = job.outcome /\ rest = Tail(jobs)
      OBVIOUS
    <3>2. FinishHydrate(c, outcome, rest) /\ UNCHANGED <<sequence, catches, requests>>
      BY <2>6, <3>1 DEF HydrateContinues
    <3>3. /\ RefreshesT' /\ JobsT' /\ Later
          /\ status' \in [connection : {"bootstrapping", "ready", "reconnecting", "error"},
                          operation : Nat]
          /\ status'.operation <= sequence
          /\ known' \in [generation : 0 .. MaxGenerations, ready : BOOLEAN, hydrated : BOOLEAN]
          /\ hydrating' \in [epoch : Nat, operation : Nat] /\ hydrating'.epoch <= epoch
      BY <1>1, <1>2, <2>3, <2>5, <3>1, <3>2, FinishHydrateTypes
    <3>4. StoreT'  BY <1>2, <1>3, <3>2, <3>3 DEF StoreT
    <3>5. RequestsT' /\ ChannelT' /\ CatchesT'  BY <1>1, <1>2, <3>2, <3>3, LessKeepsTypes
    <3> QED BY <1>3, <3>3, <3>4, <3>5 DEF TypeInv
  <2>7. CASE UNCHANGED <<sequence, known, catches, requests, hydrating, refreshes>> /\
               jobs' = Tail(jobs) /\ (status' = status \/ status' = Patched(job.call, "error"))
    <3>1. Later  BY <1>2, <1>4, <2>7 DEF Later
    <3>2. /\ status' \in [connection : {"bootstrapping", "ready", "reconnecting", "error"},
                          operation : Nat]
          /\ status'.operation <= sequence
      <4>1. CASE status' = status  BY <1>3, <4>1 DEF StoreT
      <4>2. CASE status' = Patched(job.call, "error")
        BY <1>3, <2>5, <4>2, PatchedTypes
      <4> QED BY <2>7, <4>1, <4>2
    <3>3. StoreT'  BY <1>2, <1>3, <2>7, <3>2 DEF StoreT
    <3>4. RequestsT' /\ ChannelT' /\ CatchesT' /\ RefreshesT' /\ JobsT'
      BY <1>1, <1>2, <2>3, <2>7, <3>1, LessKeepsTypes
    <3> QED BY <1>3, <3>3, <3>4 DEF TypeInv
  <2>8. CASE SelectContinues(job)  BY <2>7, <2>8 DEF SelectContinues
  <2>9. CASE EventContinues(job)  BY <2>7, <2>9 DEF EventContinues
  <2>10. CASE MutationContinues(job)
    <3>1. UNCHANGED <<status, known, hydrating, refreshes>> /\ jobs' = Tail(jobs)
      BY <2>10 DEF MutationContinues
    <3>2. CASE UNCHANGED <<sequence, catches, requests>>  BY <2>7, <3>1, <3>2
    <3>3. CASE job.call.kind = "create" /\ Select(job.call.room)
      <4>1. PICK room : room = job.call.room  OBVIOUS
      <4>2. room \in Rooms  BY <2>4, <3>3, <4>1 DEF JobOK, WaiterOK, CallOK
      <4>3. CatchesT' /\ RequestsT' /\ Later
        BY <1>1, <1>2, <1>4, <3>3, <4>1, <4>2, SelectTypes
      <4>4. ChannelT' /\ RefreshesT' /\ JobsT'
        BY <1>1, <1>2, <2>3, <3>1, <4>3, LessKeepsTypes
      <4>5. StoreT'  BY <1>2, <1>3, <3>1, <4>3 DEF StoreT, Later
      <4> QED BY <1>3, <4>3, <4>4, <4>5 DEF TypeInv
    <3> QED BY <2>10, <3>2, <3>3 DEF MutationContinues
  <2> QED BY <1>5, <2>1, <2>6, <2>8, <2>9, <2>10 DEF Continue
<1>6. CASE StartRefresh
  <2>1. StartHydrate(epoch') /\ refreshes # <<>>
    BY <1>2, <1>6 DEF StartRefresh, RefreshReady
  <2>2. /\ RequestsT' /\ Later
        /\ status' \in [connection : {"bootstrapping", "ready", "reconnecting", "error"},
                        operation : Nat]
        /\ status'.operation <= sequence'
        /\ hydrating' \in [epoch : Nat, operation : Nat] /\ hydrating'.epoch <= epoch'
    BY <1>1, <1>2, <1>4, <2>1, StartHydrateTypes
  <2>3. UNCHANGED <<known, catches, jobs>>  BY <1>6 DEF StartRefresh
  <2>4. StoreT'  BY <1>2, <1>3, <2>2, <2>3 DEF StoreT, Later
  <2>5. ChannelT' /\ CatchesT' /\ JobsT'  BY <1>1, <1>2, <2>2, <2>3, LessKeepsTypes
  <2>6. RefreshesT'
    <3>1. PICK x : x = Head(refreshes)  OBVIOUS
    <3>2. /\ IsSequence(Tail(refreshes)) /\ Elements(Tail(refreshes)) \subseteq Elements(refreshes)
          /\ x \in Elements(refreshes)
      BY <1>1, <2>1, <3>1, TailElements DEF PrefixInv, RefreshesInv
    <3>3. PICK y : y = [x EXCEPT !.operation = sequence + 1]  OBVIOUS
    <3>4. y.call = x.call
      BY <1>1, <3>2, <3>3 DEF PrefixInv, RefreshesInv, RefreshOK
    <3>5. refreshes' = <<y>> \o Tail(refreshes)  BY <1>6, <3>1, <3>3 DEF StartRefresh
    <3>6. \A z \in Elements(refreshes') : z \in Elements(Tail(refreshes)) \/ z = y
      BY <3>2, <3>5, SingleElement, ConcatElements
    <3>7. \A z \in Elements(refreshes') : CallT(z.call)
      BY <1>1, <3>2, <3>4, <3>6 DEF TypeInv, RefreshesT
    <3> QED BY <1>3, <2>2, <3>7, LaterKeeps DEF RefreshesT
  <2> QED BY <1>3, <2>2, <2>4, <2>5, <2>6 DEF TypeInv
<1> QED BY <1>1, <1>5, <1>6 DEF RunJob

(* A replay that ends hands its waiters on. *)
LEMMA ReplayEndsTypes ==
  ASSUME PrefixInv, TypeInv, Later, NEW m, NEW outcome \in {"ok", "failed", "error"},
         ReplayEnds(m, outcome)
  PROVE  CatchesT' /\ JobsT' /\ RequestsT'
<1>1. PICK k \in catches :
        /\ catches' = catches \ {k} /\ UNCHANGED requests
        /\ jobs' = [i \in DOMAIN k.waiters |-> [call |-> k.waiters[i], outcome |-> outcome]]
  BY DEF ReplayEnds
<1>2. CatchesT' /\ RequestsT'  BY <1>1, LessKeepsTypes
<1>3. CatchT(k)  BY DEF TypeInv, CatchesT
<1>4. DOMAIN jobs' = DOMAIN k.waiters  BY <1>1
<1>5. ASSUME NEW i \in DOMAIN jobs' PROVE JobT(jobs'[i])
  <2>1. PICK j : j = [call |-> k.waiters[i], outcome |-> outcome]  OBVIOUS
  <2>2. jobs'[i] = j  BY <1>1, <1>4, <2>1
  <2>3. k.waiters[i] \in Elements(k.waiters)  BY <1>4 DEF Elements
  <2> QED BY <1>3, <2>1, <2>2, <2>3 DEF CatchT, JobT
<1>6. \A j \in Elements(jobs') : JobT(j)  BY <1>5 DEF Elements
<1>7. JobsT'  BY <1>6, LaterKeeps DEF JobsT, TypeInv
<1> QED BY <1>2, <1>7

(* What an answer leaves. *)
LEMMA ReplyLeavesTypes ==
  ASSUME PrefixInv, TypeInv, UNCHANGED <<log, worker, epoch, calls>>, ChannelT',
         preload' \in 0 .. MaxGenerations,
         NEW m, ReplyOK(m), ReplyT(m), m.generation \in 0 .. MaxGenerations,
         ReceiveSnapshot(m) \/ ReceivePage(m) \/ ReceivePosted(m) \/ ReceiveMutation(m)
  PROVE  TypeInv'
<1>1. WorldT' /\ StoreT /\ CallT(m.call) /\ IsSequence(jobs)
  BY DEF TypeInv, WorldT, ReplyT, PrefixInv, JobsInv
<1>2. UNCHANGED sequence
  BY DEF ReceiveSnapshot, ReceivePage, ReceivePosted, ReceiveMutation
<1>3. Later  BY <1>1, <1>2 DEF Later, StoreT
<1>4. CASE ReceiveSnapshot(m)
  <2>1. CASE UNCHANGED <<snapshot, catches, requests>> /\
               \E outcome \in {"ok", "failed"} : FinishHydrate(m.call, outcome, jobs)
    <3>1. PICK c, outcome, rest : /\ c = m.call /\ rest = jobs
                                  /\ FinishHydrate(c, outcome, rest)
      BY <2>1
    <3>2. IsSequence(rest) /\ Elements(rest) \subseteq Elements(jobs) /\ CallT(c)
      BY <1>1, <3>1
    <3>3. /\ RefreshesT' /\ JobsT'
          /\ status' \in [connection : {"bootstrapping", "ready", "reconnecting", "error"},
                          operation : Nat]
          /\ status'.operation <= sequence
          /\ known' \in [generation : 0 .. MaxGenerations, ready : BOOLEAN, hydrated : BOOLEAN]
          /\ hydrating' \in [epoch : Nat, operation : Nat] /\ hydrating'.epoch <= epoch
      BY <1>2, <3>1, <3>2, FinishHydrateTypes
    <3>4. StoreT'  BY <1>1, <1>2, <2>1, <3>3 DEF StoreT
    <3>5. RequestsT' /\ CatchesT'  BY <1>3, <2>1, LessKeepsTypes
    <3> QED BY <1>1, <3>3, <3>4, <3>5 DEF TypeInv
  <2>2. CASE ~Failed(m) /\ \E room \in Rooms :
               /\ CatchUp([m.call EXCEPT !.room = room])
               /\ m.call.kind = "hydrate" /\ IsCurrent(m.call)
               /\ known' = IF known.generation # 0 THEN known
                           ELSE [known EXCEPT !.generation = m.generation, !.ready = TRUE]
               /\ snapshot' = m.data
               /\ UNCHANGED <<status, hydrating, refreshes, jobs>>
    <3>1. PICK room \in Rooms : CatchUp([m.call EXCEPT !.room = room])
      BY <2>2
    <3>2. m.call.kind = "hydrate" /\ m.call.epoch = epoch
      BY <2>2 DEF IsCurrent
    <3>3. PICK c : c = [m.call EXCEPT !.room = room]  OBVIOUS
    <3>4. c = [kind |-> "hydrate", room |-> room, epoch |-> m.call.epoch,
               operation |-> m.call.operation, seq |-> m.call.seq]
      BY <3>2, <3>3 DEF ReplyOK, CallOK
    <3>5. CallT(c)
      <4>1. /\ m.call.epoch \in Nat /\ m.call.operation \in Nat /\ m.call.seq \in Nat
            /\ m.call.epoch <= epoch /\ m.call.operation <= sequence
            /\ m.call.operation >= 1
        BY <1>1, <3>2 DEF CallT, Calls
      <4>2. c \in Calls  BY <3>4, <4>1 DEF Calls
      <4> QED BY <3>4, <4>1, <4>2 DEF CallT
    <3>6. CallT(c)'  BY <1>1, <1>3, <3>5, LaterKeeps
    <3>7. CatchesT' /\ RequestsT'
      BY <1>3, <3>1, <3>2, <3>3, <3>4, <3>6, CatchUpTypes DEF Waiting
    <3>8. m.data \in [Rooms -> 0 .. MaxEvents]
      BY <2>2, <3>2 DEF ReplyT, Failed
    <3>9. known' \in [generation : 0 .. MaxGenerations, ready : BOOLEAN, hydrated : BOOLEAN]
      <4>1. CASE known' = known  BY <1>1, <4>1 DEF StoreT
      <4>2. CASE known' = [known EXCEPT !.generation = m.generation, !.ready = TRUE]
        BY <1>1, <4>2 DEF StoreT
      <4> QED BY <2>2, <4>1, <4>2
    <3>10. StoreT'  BY <1>1, <1>2, <2>2, <3>8, <3>9 DEF StoreT
    <3>11. RefreshesT' /\ JobsT'  BY <1>3, <2>2, LessKeepsTypes
    <3> QED BY <1>1, <3>7, <3>10, <3>11 DEF TypeInv
  <2>3. (IF selected = None THEN FirstRoom ELSE selected) \in Rooms
    BY TimelineAssumption DEF TimelineAssumption, PrefixInv, LogInv
  <2> QED BY <1>4, <2>1, <2>2, <2>3 DEF ReceiveSnapshot
<1>5. CASE ReceivePage(m)
  <2>1. UNCHANGED <<status, known, snapshot, hydrating, refreshes>>
    BY <1>5 DEF ReceivePage
  <2>2. StoreT'  BY <1>1, <1>2, <2>1 DEF StoreT
  <2>3. RefreshesT'  BY <1>3, <2>1, LessKeepsTypes
  <2>4. CASE \E outcome \in {"ok", "failed", "error"} : ReplayEnds(m, outcome)
    <3>1. CatchesT' /\ JobsT' /\ RequestsT'  BY <1>3, <2>4, ReplayEndsTypes
    <3> QED BY <1>1, <2>2, <2>3, <3>1 DEF TypeInv
  <2>5. CASE ~ Failed(m) /\ ~ BadPage(m) /\ AcceptPage(m) /\
               ~ \E outcome \in {"ok", "failed", "error"} : ReplayEnds(m, outcome)
    <3>1. PICK room \in Rooms : room = m.call.room
      BY <1>5 DEF ReplyOK, CallOK, ReceivePage
    <3>2. PICK E : E = m.data.events  OBVIOUS
    <3>3. E \in SUBSET (1 .. log[room])
      BY <1>5, <2>5, <3>1, <3>2 DEF ReplyOK, ReceivePage, Failed
    <3>4. PICK tail : /\ tail = Greatest(shown[room] \cup Fresh(room, E))
                      /\ requests' = requests \cup {Sent(m.call, tail)}
                      /\ UNCHANGED <<catches, jobs>>
      BY <2>5, <3>1, <3>2 DEF AcceptPage
    <3>5. tail \in 0 .. MaxEvents
      <4>1. ~ LeavesGap(room, E)  BY <2>5, <3>1, <3>2 DEF BadPage
      <4>2. shown' = [shown EXCEPT ![room] = @ \cup Fresh(room, E)]
        BY <2>5, <3>1, <3>2 DEF AcceptPage
      <4>3. ShownInv'  BY <3>3, <4>1, <4>2, FreshKeeps DEF PrefixInv
      <4>4. shown'[room] = shown[room] \cup Fresh(room, E)
        BY <4>2 DEF PrefixInv, ShownInv
      <4>5. PICK n \in 0 .. log[room] : shown'[room] = 1 .. n
        BY <4>3 DEF ShownInv, ShownIsPrefix
      <4>6. log[room] \in 0 .. MaxEvents /\ MaxEvents \in Nat
        BY TimelineAssumption DEF TypeInv, WorldT, TimelineAssumption
      <4>7. tail = n
        <5>1. n \in Nat  BY <4>6
        <5>2. shown[room] \cup Fresh(room, E) = 1 .. n  BY <4>4, <4>5, Zenon
        <5>3. tail = Greatest(1 .. n)  BY <3>4, <5>2, Zenon
        <5> QED BY <5>1, <5>3, GreatestOfPrefix
      <4> QED BY <4>6, <4>7
    <3>6. PICK c, q : c = m.call /\ q = Sent(c, tail)  OBVIOUS
    <3>7. CallT(c)'  BY <1>1, <1>3, <3>6, LaterKeeps
    <3>8. RequestT(q)'  BY <3>5, <3>6, <3>7, SentTypes
    <3>9. RequestsT'  BY <1>3, <3>4, <3>6, <3>8, AskTypes
    <3>10. CatchesT' /\ JobsT'  BY <1>3, <3>4, LessKeepsTypes
    <3> QED BY <1>1, <2>2, <2>3, <3>9, <3>10 DEF TypeInv
  <2>6. CASE AcceptPage(m) /\ ~Failed(m) /\ ~BadPage(m)  BY <2>4, <2>5, <2>6
  <2> QED BY <1>5, <2>4, <2>6 DEF ReceivePage
<1>6. CASE ReceivePosted(m)
  <2>1. UNCHANGED <<known, snapshot, hydrating, refreshes>>
    BY <1>6 DEF ReceivePosted
  <2>2. /\ status' \in [connection : {"bootstrapping", "ready", "reconnecting", "error"},
                        operation : Nat]
        /\ status'.operation <= sequence
    <3>1. CASE status' = status  BY <1>1, <3>1 DEF StoreT
    <3>2. CASE status' = Patched(m.call, "error")  BY <1>1, <3>2, PatchedTypes
    <3> QED BY <1>6, <3>1, <3>2 DEF ReceivePosted
  <2>3. StoreT'  BY <1>1, <1>2, <2>1, <2>2 DEF StoreT
  <2>4. RefreshesT'  BY <1>3, <2>1, LessKeepsTypes
  <2>5. CatchesT' /\ RequestsT' /\ JobsT'
    <3>1. CASE UNCHANGED <<catches, requests, jobs>>  BY <1>3, <3>1, LessKeepsTypes
    <3>2. CASE m.outcome = "ok" /\ IsCurrent(m.call) /\ ~ UNCHANGED <<catches, requests, jobs>>
      <4>1. PICK c : c = [m.call EXCEPT !.seq = m.data]  OBVIOUS
      <4>2. c = [kind |-> "post", room |-> m.call.room, epoch |-> m.call.epoch,
                 operation |-> m.call.operation, seq |-> m.data]
        BY <1>6, <4>1 DEF ReplyOK, CallOK, ReceivePosted
      <4>3. Recorded(m.call.room, m.data)  BY <1>6, <3>2 DEF ReplyOK, ReceivePosted
      <4>4. m.data \in Nat /\ c.room \in Rooms
        BY <4>2, <4>3 DEF Recorded, PrefixInv, LogInv
      <4>5. CallT(c)  BY <1>1, <4>2, <4>4 DEF CallT, Calls
      <4>6. CallT(c)'  BY <1>1, <1>3, <4>5, LaterKeeps
      <4>7. CASE CatchUp(c) /\ UNCHANGED jobs
        <5>1. c.epoch = epoch /\ c.kind \in Waiting  BY <3>2, <4>2 DEF IsCurrent, Waiting
        <5>2. CatchesT' /\ RequestsT'
          BY <1>3, <4>4, <4>6, <4>7, <5>1, CatchUpTypes
        <5> QED BY <1>3, <4>7, <5>2, LessKeepsTypes
      <4>8. CASE UNCHANGED <<catches, requests>> /\
                   jobs' = Append(jobs, [call |-> c, outcome |-> "ok"])
        <5>1. PICK j : j = [call |-> c, outcome |-> "ok"]  OBVIOUS
        <5>2. JobT(j)'  BY <4>6, <5>1 DEF JobT
        <5>3. \A x \in Elements(jobs') : x \in Elements(jobs) \/ x = j
          BY <1>1, <4>8, <5>1, AppendElements
        <5>4. JobsT'  BY <1>1, <1>3, <5>2, <5>3, LaterKeeps DEF JobsT, TypeInv
        <5> QED BY <1>3, <4>8, <5>4, LessKeepsTypes
      <4> QED BY <1>6, <3>2, <4>1, <4>7, <4>8 DEF ReceivePosted
    <3> QED BY <1>6, <3>1, <3>2 DEF ReceivePosted
  <2> QED BY <1>1, <2>3, <2>4, <2>5 DEF TypeInv
<1>7. CASE ReceiveMutation(m)
  <2>1. UNCHANGED <<known, snapshot, catches, requests, hydrating, jobs>>
    BY <1>7 DEF ReceiveMutation
  <2>2. /\ status' \in [connection : {"bootstrapping", "ready", "reconnecting", "error"},
                        operation : Nat]
        /\ status'.operation <= sequence
    <3>1. CASE status' = status  BY <1>1, <3>1 DEF StoreT
    <3>2. CASE status' = Patched(m.call, "error")  BY <1>1, <3>2, PatchedTypes
    <3> QED BY <1>7, <3>1, <3>2 DEF ReceiveMutation
  <2>3. StoreT'  BY <1>1, <1>2, <2>1, <2>2 DEF StoreT
  <2>4. RequestsT' /\ CatchesT' /\ JobsT'  BY <1>3, <2>1, LessKeepsTypes
  <2>5. RefreshesT'
    <3>1. CASE UNCHANGED refreshes  BY <1>3, <3>1, LessKeepsTypes
    <3>2. CASE ForceFresh(m.call)
      <4>1. PICK x : x = [call |-> m.call, operation |-> 0]  OBVIOUS
      <4>2. \A y \in Elements(refreshes') : y \in Elements(refreshes) \/ y = x
        BY <3>2, <4>1, AppendElements DEF PrefixInv, RefreshesInv, ForceFresh
      <4>3. \A y \in Elements(refreshes') : CallT(y.call)
        BY <1>1, <4>1, <4>2 DEF TypeInv, RefreshesT
      <4> QED BY <1>1, <1>3, <4>3, LaterKeeps DEF RefreshesT
    <3> QED BY <1>7, <3>1, <3>2 DEF ReceiveMutation
  <2> QED BY <1>1, <2>3, <2>4, <2>5 DEF TypeInv
<1> QED BY <1>4, <1>5, <1>6, <1>7

(* What a worker event leaves. *)
LEMMA EventLeavesTypes ==
  ASSUME PrefixInv, TypeInv, UNCHANGED <<log, worker, calls>>, ChannelInv, Later => ChannelT',
         NEW m, MessageOK(m), MessageT(m), ReceiveEvent(m)
  PROVE  TypeInv'
<1>1. WorldT' /\ StoreT  BY DEF TypeInv, WorldT
<1>2. /\ preload' \in 0 .. MaxGenerations /\ m.generation \in 0 .. MaxGenerations
      /\ epoch \in Nat /\ sequence \in Nat
      /\ UNCHANGED <<snapshot, selected, jobs>>
  BY <1>1 DEF ReceiveEvent, MessageT, StoreT
<1>3. CASE ReceiveRoomEvent(m)
  <2>1. UNCHANGED <<epoch, status, known, hydrating, refreshes>>
    BY <1>3 DEF ReceiveRoomEvent
  <2>2. CASE UNCHANGED <<sequence, catches, requests>>
    <3>1. Later  BY <1>2, <2>1, <2>2 DEF Later
    <3>2. StoreT'  BY <1>1, <1>2, <2>1, <2>2 DEF StoreT
    <3>3. RequestsT' /\ CatchesT' /\ RefreshesT' /\ JobsT'
      BY <1>2, <2>1, <2>2, <3>1, LessKeepsTypes
    <3> QED BY <1>1, <3>1, <3>2, <3>3 DEF TypeInv
  <2>3. CASE /\ sequence' = sequence + 1
             /\ CatchUp([NewCall("live", m.room, sequence + 1) EXCEPT !.seq = m.seq])
    <3>1. Later  BY <1>2, <2>1, <2>3 DEF Later
    <3>2. StoreT'  BY <1>1, <1>2, <2>1, <2>3 DEF StoreT
    <3>3. PICK c : c = [NewCall("live", m.room, sequence + 1) EXCEPT !.seq = m.seq]
      OBVIOUS
    <3>4. c = [kind |-> "live", room |-> m.room, epoch |-> epoch,
               operation |-> sequence + 1, seq |-> m.seq]
      BY <3>3 DEF NewCall
    <3>5. m.room \in Rooms /\ m.seq \in Nat
      BY <1>3 DEF ReceiveRoomEvent, MessageOK, Recorded, PrefixInv, LogInv
    <3>6. CallT(c)'  BY <1>2, <2>1, <2>3, <3>4, <3>5 DEF CallT, Calls
    <3>7. CatchesT' /\ RequestsT'
      BY <1>2, <2>1, <2>3, <3>1, <3>3, <3>4, <3>5, <3>6, CatchUpTypes DEF Waiting
    <3>8. RefreshesT' /\ JobsT'  BY <1>2, <2>1, <3>1, LessKeepsTypes
    <3> QED BY <1>1, <3>1, <3>2, <3>7, <3>8 DEF TypeInv
  <2> QED BY <1>3, <2>2, <2>3 DEF ReceiveRoomEvent
<1>4. CASE ReceiveDisconnected(m)
  <2>1. UNCHANGED <<catches, requests, hydrating>>  BY <1>4 DEF ReceiveDisconnected
  <2>2. CASE UNCHANGED <<epoch, sequence, status, known, refreshes>>
    <3>1. Later  BY <1>2, <2>2 DEF Later
    <3>2. StoreT'  BY <1>1, <1>2, <2>1, <2>2 DEF StoreT
    <3>3. RequestsT' /\ CatchesT' /\ RefreshesT' /\ JobsT'
      BY <1>2, <2>1, <2>2, <3>1, LessKeepsTypes
    <3> QED BY <1>1, <3>1, <3>2, <3>3 DEF TypeInv
  <2>3. CASE /\ known' = [known EXCEPT !.ready = FALSE]
             /\ epoch' = epoch + 1 /\ sequence' = sequence + 1
             /\ status' = [connection |-> "reconnecting", operation |-> sequence + 1]
             /\ refreshes' = <<>>
    <3>1. Later  BY <1>2, <2>3 DEF Later
    <3>2. StoreT'
      <4>1. hydrating'.epoch <= epoch' /\ epoch' \in Nat /\ sequence' \in Nat
        BY <1>1, <1>2, <2>1, <2>3 DEF StoreT
      <4>2. known' \in [generation : 0 .. MaxGenerations, ready : BOOLEAN, hydrated : BOOLEAN]
        BY <1>1, <2>3 DEF StoreT
      <4>3. /\ status' \in [connection : {"bootstrapping", "ready", "reconnecting", "error"},
                             operation : Nat]
            /\ status'.operation <= sequence'
        BY <1>2, <2>3
      <4> QED BY <1>1, <1>2, <2>1, <4>1, <4>2, <4>3 DEF StoreT
    <3>3. RequestsT' /\ CatchesT' /\ JobsT'
      BY <1>2, <2>1, <3>1, LessKeepsTypes
    <3>4. RefreshesT'  BY <2>3, EmptyElements DEF RefreshesT
    <3> QED BY <1>1, <3>1, <3>2, <3>3, <3>4 DEF TypeInv
  <2> QED BY <1>4, <2>2, <2>3 DEF ReceiveDisconnected
<1>5. CASE ReceiveReady(m)
  <2>1. UNCHANGED catches  BY <1>5 DEF ReceiveReady
  <2>2. CASE UNCHANGED <<epoch, sequence, status, known, requests, hydrating, refreshes>>
    <3>1. Later  BY <1>2, <2>2 DEF Later
    <3>2. StoreT'  BY <1>1, <1>2, <2>1, <2>2 DEF StoreT
    <3>3. RequestsT' /\ CatchesT' /\ RefreshesT' /\ JobsT'
      BY <1>2, <2>1, <2>2, <3>1, LessKeepsTypes
    <3> QED BY <1>1, <3>1, <3>2, <3>3 DEF TypeInv
  <2>3. CASE /\ known' = [known EXCEPT !.generation = m.generation, !.ready = TRUE]
             /\ (epoch' = epoch /\ refreshes' = refreshes)
                  \/ (epoch' = epoch + 1 /\ refreshes' = <<>>)
             /\ UNCHANGED <<sequence, status, hydrating, requests>> \/ StartHydrate(epoch')
    <3>1. epoch' \in Nat /\ epoch <= epoch'  BY <1>2, <2>3
    <3>2. /\ RequestsT' /\ Later
          /\ status' \in [connection : {"bootstrapping", "ready", "reconnecting", "error"},
                          operation : Nat]
          /\ status'.operation <= sequence'
          /\ hydrating' \in [epoch : Nat, operation : Nat] /\ hydrating'.epoch <= epoch'
      <4>1. CASE UNCHANGED <<sequence, status, hydrating, requests>>
        <5>1. Later  BY <1>2, <3>1, <4>1 DEF Later
        <5>2. RequestsT'  BY <4>1, <5>1, LessKeepsTypes
        <5>3. hydrating'.epoch <= epoch'  BY <1>1, <1>2, <3>1, <4>1 DEF StoreT
        <5> QED BY <1>1, <4>1, <5>1, <5>2, <5>3 DEF StoreT
      <4>2. CASE StartHydrate(epoch')  BY <1>2, <3>1, <4>2, StartHydrateTypes
      <4> QED BY <2>3, <4>1, <4>2
    <3>3. known' \in [generation : 0 .. MaxGenerations, ready : BOOLEAN, hydrated : BOOLEAN]
      BY <1>1, <1>2, <2>3 DEF StoreT
    <3>4. StoreT'  BY <1>1, <1>2, <3>2, <3>3 DEF StoreT, Later
    <3>5. CatchesT' /\ JobsT'  BY <1>2, <2>1, <3>2, LessKeepsTypes
    <3>6. RefreshesT'
      <4>1. CASE refreshes' = refreshes  BY <3>2, <4>1, LessKeepsTypes
      <4>2. CASE refreshes' = <<>>  BY <4>2, EmptyElements DEF RefreshesT
      <4> QED BY <2>3, <4>1, <4>2
    <3> QED BY <1>1, <3>2, <3>4, <3>5, <3>6 DEF TypeInv
  <2>4. CASE m.generation # known.generation  BY <1>5, <2>2, <2>3, <2>4 DEF ReceiveReady
  <2>5. CASE ~ (m.generation # known.generation)
    BY <1>5, <2>2, <2>3, <2>5 DEF ReceiveReady
  <2> QED BY <2>4, <2>5
<1> QED BY <1>3, <1>4, <1>5 DEF ReceiveEvent

(* Whatever the channel delivers keeps the types. *)
LEMMA ReceiveTypes == PrefixInv /\ TypeInv /\ Receive => TypeInv'
<1>1. SUFFICES ASSUME PrefixInv, TypeInv, Receive PROVE TypeInv'  OBVIOUS
<1>2. UNCHANGED <<log, worker, calls>> /\ channel # <<>> /\ channel' = Tail(channel)
  BY <1>1 DEF Receive
<1>3. PICK m : m = Head(channel)  OBVIOUS
<1>4. Elements(channel') \subseteq Elements(channel) /\ m \in Elements(channel)
  BY <1>1, <1>2, <1>3, TailElements DEF PrefixInv, ChannelInv
<1>5. MessageOK(m) /\ MessageT(m) /\ ChannelInv
  BY <1>1, <1>4 DEF PrefixInv, ChannelInv, TypeInv, ChannelT
<1>6. Later => ChannelT'  BY <1>1, <1>4, LessKeepsTypes
<1>7. CASE ReceiveReply(m)
  <2>1. ReplyOK(m) /\ ReplyT(m) /\ m.generation \in 0 .. MaxGenerations
    BY <1>5, <1>7 DEF MessageOK, MessageT, ReceiveReply
  <2>2. UNCHANGED epoch /\ preload' \in 0 .. MaxGenerations
    BY <1>1, <1>7, <2>1 DEF ReceiveReply, TypeInv, StoreT
  <2>3. ReceiveSnapshot(m) \/ ReceivePage(m) \/ ReceivePosted(m) \/ ReceiveMutation(m)
    BY <1>7 DEF ReceiveReply
  <2>4. UNCHANGED sequence
    BY <2>3 DEF ReceiveSnapshot, ReceivePage, ReceivePosted, ReceiveMutation
  <2>5. ChannelT'  BY <1>1, <1>6, <2>2, <2>4 DEF Later, TypeInv, StoreT
  <2> QED BY <1>1, <1>2, <2>1, <2>2, <2>3, <2>5, ReplyLeavesTypes
<1>8. CASE ReceiveEvent(m)
  BY <1>1, <1>2, <1>5, <1>6, <1>8, EventLeavesTypes
<1> QED BY <1>1, <1>3, <1>7, <1>8 DEF Receive

(* A call of the user begins an operation at most. *)
LEMMA UserCallTypes == PrefixInv /\ TypeInv /\ UserCall => TypeInv'
<1>1. SUFFICES ASSUME PrefixInv, TypeInv, UserCall PROVE TypeInv'  OBVIOUS
<1>2. /\ UNCHANGED <<log, worker, channel, preload, epoch, known, snapshot, jobs>>
      /\ calls' = calls + 1 /\ calls < MaxCalls /\ selected # None
  BY <1>1 DEF UserCall
<1>3. WorldT' /\ StoreT  BY <1>1, <1>2 DEF TypeInv, WorldT
<1>4. /\ preload' \in 0 .. MaxGenerations /\ epoch \in Nat /\ sequence \in Nat
      /\ calls \in 0 .. MaxCalls /\ calls' \in 0 .. MaxCalls
  BY <1>2, <1>3, TimelineAssumption DEF StoreT, TimelineAssumption
<1>5. ASSUME NEW c, CallT(c)', requests' = requests \cup {Sent(c, 0)},
             sequence' \in Nat, sequence <= sequence',
             UNCHANGED <<selected, catches, status, hydrating, refreshes>>
      PROVE  TypeInv'
  <2>1. Later  BY <1>2, <1>4, <1>5 DEF Later
  <2>2. PICK q : q = Sent(c, 0)  OBVIOUS
  <2>3. 0 \in 0 .. MaxEvents  BY TimelineAssumption DEF TimelineAssumption
  <2>4. RequestT(q)'  BY <1>4, <1>5, <2>2, <2>3, SentTypes
  <2>5. RequestsT'  BY <1>1, <1>5, <2>1, <2>2, <2>4, AskTypes
  <2>6. StoreT'  BY <1>2, <1>3, <1>4, <1>5 DEF StoreT
  <2>7. ChannelT' /\ CatchesT' /\ RefreshesT' /\ JobsT'
    BY <1>1, <1>2, <1>5, <2>1, LessKeepsTypes
  <2> QED BY <1>3, <2>5, <2>6, <2>7 DEF TypeInv
<1>6. ASSUME NEW room \in Rooms, SelectRoom(room) PROVE TypeInv'
  <2>1. Select(room) /\ UNCHANGED <<status, hydrating, refreshes>>
    BY <1>6 DEF SelectRoom
  <2>2. CatchesT' /\ RequestsT' /\ Later  BY <1>1, <1>2, <1>4, <2>1, SelectTypes
  <2>3. ChannelT' /\ RefreshesT' /\ JobsT'  BY <1>1, <1>2, <2>1, <2>2, LessKeepsTypes
  <2>4. StoreT'  BY <1>2, <1>3, <1>4, <2>1, <2>2 DEF StoreT, Later
  <2> QED BY <1>3, <2>2, <2>3, <2>4 DEF TypeInv
<1>7. ASSUME NEW room \in Rooms, CreateRoom(room) PROVE TypeInv'
  <2>1. PICK c : c = NewCall("create", room, sequence + 1)  OBVIOUS
  <2>2. CallT(c)'
    BY <1>2, <1>4, <1>7, <2>1 DEF CreateRoom, NewCall, CallT, Calls
  <2> QED BY <1>4, <1>5, <1>7, <2>1, <2>2 DEF CreateRoom
<1>8. CASE PostMessage
  <2>1. PICK c : c = NewCall("post", selected, sequence + 1)  OBVIOUS
  <2>2. selected \in Rooms  BY <1>1, <1>2 DEF PrefixInv, LogInv
  <2>3. CallT(c)'
    BY <1>2, <1>4, <1>8, <2>1, <2>2 DEF PostMessage, NewCall, CallT, Calls
  <2> QED BY <1>4, <1>5, <1>8, <2>1, <2>3 DEF PostMessage
<1>9. CASE RemoveCleanup
  <2>1. PICK c : c = [NewCall("remove", FirstRoom, 0) EXCEPT !.seq = calls]  OBVIOUS
  <2>2. CallT(c)'
    BY <1>2, <1>4, <1>9, <2>1, TimelineAssumption
    DEF RemoveCleanup, NewCall, CallT, Calls, TimelineAssumption
  <2> QED BY <1>4, <1>5, <1>9, <2>1, <2>2 DEF RemoveCleanup
<1> QED BY <1>1, <1>6, <1>7, <1>8, <1>9 DEF UserCall

(* The store starts with one hydrate under way. *)
LEMMA InitTypes == Init => TypeInv
<1>1. SUFFICES ASSUME Init PROVE TypeInv  OBVIOUS
<1> USE <1>1 DEF Init
<1>2. /\ MaxEvents \in Nat /\ MaxGenerations \in Nat \ {0} /\ MaxCalls \in Nat
  BY TimelineAssumption DEF TimelineAssumption
<1>3. WorldT
  <2>1. worker \in [up : BOOLEAN, generation : 0 .. MaxGenerations]
        /\ (~worker.up => worker.generation < MaxGenerations)
    <3>1. CASE worker = [up |-> FALSE, generation |-> 0]  BY <1>2, <3>1
    <3>2. CASE worker = [up |-> TRUE, generation |-> 1]  BY <1>2, <3>2
    <3> QED BY <3>1, <3>2
  <2>2. log \in [Rooms -> 0 .. MaxEvents]  BY <1>2
  <2> QED BY <2>1, <2>2 DEF WorldT
<1>4. StoreT  BY <1>2 DEF StoreT
<1>5. RequestsT
  <2>1. CallT(FirstCall)  BY DEF CallT, FirstCall, Calls
  <2> QED BY <1>2, <2>1 DEF RequestsT, RequestT
<1>6. ChannelT /\ RefreshesT /\ JobsT
  BY EmptyElements DEF ChannelT, RefreshesT, JobsT
<1>7. CatchesT  BY DEF CatchesT
<1> QED BY <1>3, <1>4, <1>5, <1>6, <1>7 DEF TypeInv

(* A stutter changes none of it. *)
LEMMA StutterTypes == TypeInv /\ UNCHANGED vars => TypeInv'
<1>1. SUFFICES ASSUME TypeInv, UNCHANGED vars PROVE TypeInv'  OBVIOUS
<1>2. Later /\ WorldT' /\ StoreT'  BY <1>1 DEF vars, Later, TypeInv, WorldT, StoreT
<1>3. RequestsT' /\ ChannelT' /\ CatchesT' /\ RefreshesT' /\ JobsT'
  BY <1>1, <1>2, LessKeepsTypes DEF vars
<1> QED BY <1>2, <1>3 DEF TypeInv

(* Every step keeps the types. *)
LEMMA NextTypes == PrefixInv /\ TypeInv /\ [Next]_vars => TypeInv'
  BY ServerTypes, RunJobTypes, ReceiveTypes, UserCallTypes, StutterTypes DEF Next

(* The types hold, always. *)
THEOREM TypeInvariant == Spec => [](PrefixInv /\ TypeInv)
<1>1. Init => PrefixInv /\ TypeInv  BY InitPrefix, InitTypes
<1>2. PrefixInv /\ TypeInv /\ [Next]_vars => (PrefixInv /\ TypeInv)'
  BY NextKeeps, NextTypes
<1> QED BY <1>1, <1>2, PTL DEF Spec

(* The store, the worker and what is between them hold what they should. *)
THEOREM TypeCorrect == Spec => []TypeOK
<1>1. PrefixInv /\ TypeInv => TypeOK
  <2>1. SUFFICES ASSUME PrefixInv, TypeInv PROVE TypeOK  OBVIOUS
  <2>2. /\ \A q \in requests : q.call \in Calls /\ q.cursor \in 0 .. MaxEvents
             /\ q.generation \in 0 .. MaxGenerations /\ q.committed \in 0 .. MaxEvents
    BY <2>1 DEF TypeInv, RequestsT, RequestT, CallT
  <2>3. shown \in [Rooms -> SUBSET (1 .. MaxEvents)]
    <3>1. \A r \in Rooms : shown[r] \in SUBSET (1 .. MaxEvents)
      <4>1. SUFFICES ASSUME NEW r \in Rooms PROVE shown[r] \in SUBSET (1 .. MaxEvents)
        OBVIOUS
      <4>2. Cursor(r) \in 0 .. MaxEvents /\ shown[r] = 1 .. Cursor(r)
        BY <2>1, CursorType DEF TypeInv
      <4>3. MaxEvents \in Nat  BY TimelineAssumption DEF TimelineAssumption
      <4>4. PICK n : n = Cursor(r)  OBVIOUS
      <4> QED BY <4>2, <4>3, <4>4
    <3> QED BY <2>1, <3>1 DEF PrefixInv, ShownInv
  <2>4. \A k \in catches : k.room \in Rooms /\ k.epoch \in Nat
                           /\ \A i \in DOMAIN k.waiters : k.waiters[i] \in Calls
    BY <2>1 DEF TypeInv, CatchesT, CatchT, CallT, Elements, PrefixInv, CatchesInv, CatchOK
  <2>5. \A i \in DOMAIN refreshes : refreshes[i].call \in Calls
    BY <2>1 DEF TypeInv, RefreshesT, CallT, Elements
  <2>6. \A i \in DOMAIN jobs :
          jobs[i].call \in Calls /\ jobs[i].outcome \in {"ok", "failed", "error"}
    BY <2>1 DEF TypeInv, JobsT, JobT, CallT, Elements
  <2>7. WorldT /\ StoreT /\ selected \in Rooms \cup {None}
    BY <2>1 DEF TypeInv, PrefixInv, LogInv
  <2> QED BY <2>2, <2>3, <2>4, <2>5, <2>6, <2>7 DEF TypeOK, WorldT, StoreT
<1> QED BY <1>1, TypeInvariant, PTL

-----------------------------------------------------------------------------
(* The order of the channel                                                *)

(* Nothing but refusals comes after a position until a worker is ready. *)
Refused(m) == m.type = "reply" /\ m.outcome = "rejected"
SilentAfter(i) ==
  \/ ~worker.up /\ \A j \in DOMAIN channel : j > i => Refused(channel[j])
  \/ \E r \in DOMAIN channel :
       /\ r > i /\ channel[r].type = "worker.ready"
       /\ \A j \in DOMAIN channel : i < j /\ j < r => Refused(channel[j])
OrderInv ==
  /\ \A i \in DOMAIN channel : channel[i].type = "worker.disconnected" => SilentAfter(i)
  /\ ~known.ready => IF epoch = 0 THEN known.generation = 0 ELSE SilentAfter(0)

(* The places of a sequence that grew. *)
LEMMA AppendShape ==
  ASSUME NEW s, NEW e, IsSequence(s)
  PROVE  \E n \in Nat : /\ DOMAIN s = 1 .. n /\ DOMAIN Append(s, e) = 1 .. n + 1
                        /\ \A i \in 1 .. n : Append(s, e)[i] = s[i]
                        /\ Append(s, e)[n + 1] = e
<1>1. PICK S : s \in Seq(S)  BY DEF IsSequence
<1> DEFINE T == S \cup {e}
<1>2. s \in Seq(T)  BY <1>1, SeqMonotonic
<1>3. /\ Append(s, e) \in Seq(T)
      /\ Len(Append(s, e)) = Len(s) + 1
      /\ \A i \in 1 .. Len(s) : Append(s, e)[i] = s[i]
      /\ Append(s, e)[Len(s) + 1] = e
  BY <1>2, AppendProperties
<1> HIDE DEF T
<1>4. DOMAIN s = 1 .. Len(s) /\ Len(s) \in Nat  BY <1>2, LenProperties
<1>5. DOMAIN Append(s, e) = 1 .. Len(s) + 1  BY <1>3, LenProperties
<1> QED BY <1>3, <1>4, <1>5

(* The places of a tail are those of the sequence, one earlier. *)
LEMMA TailShape ==
  ASSUME NEW s, IsSequence(s), s # <<>>
  PROVE  \E n \in Nat : /\ DOMAIN s = 1 .. n + 1 /\ DOMAIN Tail(s) = 1 .. n
                        /\ \A i \in 1 .. n : Tail(s)[i] = s[i + 1]
                        /\ Head(s) = s[1]
<1>1. PICK S : s \in Seq(S)  BY DEF IsSequence
<1>2. /\ Tail(s) \in Seq(S) /\ Len(Tail(s)) = Len(s) - 1
      /\ \A i \in 1 .. Len(Tail(s)) : Tail(s)[i] = s[i + 1]
  BY <1>1, HeadTailProperties
<1>3. DOMAIN s = 1 .. Len(s) /\ Len(s) \in Nat \ {0}  BY <1>1, LenProperties, EmptySeq
<1>4. DOMAIN Tail(s) = 1 .. Len(s) - 1  BY <1>2, LenProperties
<1>5. Head(s) = s[1]  BY <1>1
<1>6. Len(s) - 1 \in Nat /\ Len(s) = (Len(s) - 1) + 1  BY <1>3
<1> QED BY <1>2, <1>3, <1>4, <1>5, <1>6

(* The places of a concatenation. *)
LEMMA ConcatShape ==
  ASSUME NEW s, NEW t, IsSequence(s), IsSequence(t), NEW n \in Nat, NEW k \in Nat,
         DOMAIN s = 1 .. n, DOMAIN t = 1 .. k
  PROVE  /\ DOMAIN (s \o t) = 1 .. n + k
         /\ \A i \in 1 .. n : (s \o t)[i] = s[i]
         /\ \A i \in 1 .. k : (s \o t)[n + i] = t[i]
<1>1. PICK S : s \in Seq(S)  BY DEF IsSequence
<1>2. PICK T : t \in Seq(T)  BY DEF IsSequence
<1> DEFINE U == S \cup T
<1>3. s \in Seq(U) /\ t \in Seq(U)  BY <1>1, <1>2, SeqMonotonic
<1> HIDE DEF U
<1>4. /\ s \o t \in Seq(U) /\ Len(s \o t) = Len(s) + Len(t)
      /\ \A i \in 1 .. Len(s) + Len(t) :
            (s \o t)[i] = IF i <= Len(s) THEN s[i] ELSE t[i - Len(s)]
  BY <1>3, ConcatProperties
<1>5. n = Len(s) /\ k = Len(t)
  <2>1. DOMAIN s = 1 .. Len(s) /\ Len(s) \in Nat /\ DOMAIN t = 1 .. Len(t) /\ Len(t) \in Nat
    BY <1>3, LenProperties
  <2> QED BY <2>1
<1>7. DOMAIN (s \o t) = 1 .. n + k  BY <1>4, <1>5, LenProperties
<1>8. \A i \in 1 .. n : (s \o t)[i] = s[i]  BY <1>4, <1>5
<1>9. \A i \in 1 .. k : (s \o t)[n + i] = t[i]
  <2>1. SUFFICES ASSUME NEW i \in 1 .. k PROVE (s \o t)[n + i] = t[i]  OBVIOUS
  <2>2. n + i \in 1 .. n + k /\ ~ (n + i <= n) /\ n + i - n = i  OBVIOUS
  <2> QED BY <1>4, <1>5, <2>2
<1> QED BY <1>7, <1>8, <1>9

(* The channel goes on after what it holds. *)
Extended ==
  \E n, k \in Nat : /\ DOMAIN channel = 1 .. n /\ DOMAIN channel' = 1 .. k /\ n <= k
                    /\ \A i \in 1 .. n : channel'[i] = channel[i]

(* What waits for a ready worker still does when messages follow. *)
LEMMA SilentExtends ==
  ASSUME Extended, NEW i \in Nat, SilentAfter(i), worker.up, UNCHANGED worker
  PROVE  SilentAfter(i)'
<1>1. PICK r \in DOMAIN channel :
        /\ r > i /\ channel[r].type = "worker.ready"
        /\ \A j \in DOMAIN channel : i < j /\ j < r => Refused(channel[j])
  BY DEF SilentAfter
<1>2. PICK n, k \in Nat : /\ DOMAIN channel = 1 .. n /\ DOMAIN channel' = 1 .. k /\ n <= k
                          /\ \A j \in 1 .. n : channel'[j] = channel[j]
  BY DEF Extended
<1>3. r \in DOMAIN channel' /\ channel'[r] = channel[r]  BY <1>1, <1>2
<1>4. \A j \in DOMAIN channel' : i < j /\ j < r => Refused(channel'[j])
  <2>1. SUFFICES ASSUME NEW j \in DOMAIN channel', i < j, j < r PROVE Refused(channel'[j])
    OBVIOUS
  <2>2. j \in 1 .. n  BY <1>1, <1>2, <2>1
  <2> QED BY <1>1, <1>2, <2>1, <2>2
<1>5. \E x \in DOMAIN channel' :
        /\ x > i /\ channel'[x].type = "worker.ready"
        /\ \A j \in DOMAIN channel' : i < j /\ j < x => Refused(channel'[j])
  BY <1>1, <1>3, <1>4
<1> QED BY <1>5 DEF SilentAfter, Refused

(* While no worker serves, a refusal follows, or the worker that is ready. *)
LEMMA SilentAppends ==
  ASSUME IsSequence(channel), NEW i \in Nat, i = 0 \/ i \in DOMAIN channel,
         SilentAfter(i), NEW m, channel' = Append(channel, m),
         \/ UNCHANGED worker /\ (worker.up \/ Refused(m))
         \/ m.type = "worker.ready"
         \/ worker.up /\ ~worker.up' /\ m.type = "worker.disconnected"
  PROVE  SilentAfter(i)'
<1>1. PICK n \in Nat : /\ DOMAIN channel = 1 .. n /\ DOMAIN channel' = 1 .. n + 1
                       /\ \A j \in 1 .. n : channel'[j] = channel[j]
                       /\ channel'[n + 1] = m
  <2>1. IsSequence(channel) /\ channel' = Append(channel, m)  OBVIOUS
  <2> QED BY ONLY <2>1, AppendShape
<1>2. CASE \E r \in DOMAIN channel :
             /\ r > i /\ channel[r].type = "worker.ready"
             /\ \A j \in DOMAIN channel : i < j /\ j < r => Refused(channel[j])
  <2>1. PICK r \in 1 .. n :
             /\ r > i /\ channel[r].type = "worker.ready"
             /\ \A j \in 1 .. n : i < j /\ j < r => Refused(channel[j])
    BY <1>1, <1>2
  <2>2. \A j \in 1 .. n + 1 : i < j /\ j < r => Refused(channel'[j])
    <3>1. SUFFICES ASSUME NEW j \in 1 .. n + 1, i < j, j < r PROVE Refused(channel'[j])
      OBVIOUS
    <3>2. j \in 1 .. n  BY <2>1, <3>1
    <3> QED BY <1>1, <2>1, <3>1, <3>2
  <2>3. r \in 1 .. n + 1 /\ channel'[r].type = "worker.ready"  BY <1>1, <2>1
  <2>4. \E x \in DOMAIN channel' :
          /\ x > i /\ channel'[x].type = "worker.ready"
          /\ \A j \in DOMAIN channel' : i < j /\ j < x => Refused(channel'[j])
    BY <1>1, <2>1, <2>2, <2>3
  <2> QED BY <2>4 DEF SilentAfter, Refused
<1>3. CASE ~worker.up /\ \A j \in DOMAIN channel : j > i => Refused(channel[j])
  <2>1. CASE UNCHANGED worker /\ Refused(m)
    <3>1. ~worker'.up /\ \A j \in 1 .. n + 1 : j > i => Refused(channel'[j])
      BY <1>1, <1>3, <2>1
    <3> QED BY <1>1, <3>1 DEF SilentAfter, Refused
  <2>2. CASE m.type = "worker.ready"
    <3>1. \A j \in 1 .. n + 1 : i < j /\ j < n + 1 => Refused(channel'[j])
      BY <1>1, <1>3
    <3>2. \E x \in DOMAIN channel' :
            /\ x > i /\ channel'[x].type = "worker.ready"
            /\ \A j \in DOMAIN channel' : i < j /\ j < x => Refused(channel'[j])
      <4>1. n + 1 > i /\ n + 1 \in 1 .. n + 1  BY <1>1
      <4> QED BY <1>1, <2>2, <3>1, <4>1
    <3> QED BY <3>2 DEF SilentAfter, Refused
  <2> QED BY <1>3, <2>1, <2>2
<1> QED BY <1>2, <1>3 DEF SilentAfter

(* What the head of the channel is while the store waits for a ready worker. *)
LEMMA SilentHead ==
  ASSUME IsSequence(channel), channel # <<>>, SilentAfter(0)
  PROVE  Head(channel).type = "worker.ready" \/ Refused(Head(channel))
<1>1. PICK n \in Nat : /\ DOMAIN channel = 1 .. n + 1 /\ Head(channel) = channel[1]
  BY TailShape
<1>2. 1 \in DOMAIN channel  BY <1>1
<1>3. CASE ~worker.up /\ \A j \in DOMAIN channel : j > 0 => Refused(channel[j])
  BY <1>1, <1>2, <1>3
<1>4. CASE \E r \in DOMAIN channel :
             /\ r > 0 /\ channel[r].type = "worker.ready"
             /\ \A j \in DOMAIN channel : 0 < j /\ j < r => Refused(channel[j])
  <2>1. PICK r \in DOMAIN channel :
             /\ r > 0 /\ channel[r].type = "worker.ready"
             /\ \A j \in DOMAIN channel : 0 < j /\ j < r => Refused(channel[j])
    BY <1>4
  <2>2. CASE r = 1  BY <1>1, <2>1, <2>2
  <2>3. CASE r # 1
    <3>1. 1 < r  BY <1>1, <2>1, <2>3
    <3> QED BY <1>1, <1>2, <2>1, <3>1
  <2> QED BY <2>2, <2>3
<1> QED BY <1>3, <1>4 DEF SilentAfter

(* A position moves on with the channel. *)
LEMMA SilentTail ==
  ASSUME IsSequence(channel), channel # <<>>, channel' = Tail(channel), UNCHANGED worker,
         NEW i \in Nat, SilentAfter(i + 1)
  PROVE  SilentAfter(i)'
<1>1. PICK n \in Nat : /\ DOMAIN channel = 1 .. n + 1 /\ DOMAIN channel' = 1 .. n
                       /\ \A j \in 1 .. n : channel'[j] = channel[j + 1]
  <2>1. IsSequence(channel) /\ channel # <<>> /\ channel' = Tail(channel)  OBVIOUS
  <2> QED BY ONLY <2>1, TailShape
<1>2. CASE ~worker.up /\ \A j \in DOMAIN channel : j > i + 1 => Refused(channel[j])
  <2>1. ASSUME NEW j \in 1 .. n, j > i PROVE Refused(channel'[j])
    <3>1. j + 1 \in 1 .. n + 1 /\ j + 1 > i + 1  BY <2>1
    <3> QED BY <1>1, <1>2, <3>1
  <2> QED BY <1>1, <1>2, <2>1 DEF SilentAfter, Refused
<1>3. CASE \E r \in DOMAIN channel :
             /\ r > i + 1 /\ channel[r].type = "worker.ready"
             /\ \A j \in DOMAIN channel : i + 1 < j /\ j < r => Refused(channel[j])
  <2>1. PICK r \in 1 .. n + 1 :
             /\ r > i + 1 /\ channel[r].type = "worker.ready"
             /\ \A j \in 1 .. n + 1 : i + 1 < j /\ j < r => Refused(channel[j])
    BY <1>1, <1>3
  <2>2. PICK x \in 1 .. n : r = x + 1
    <3>1. r - 1 \in 1 .. n /\ r = (r - 1) + 1  BY <2>1
    <3> QED BY <3>1
  <2>3. x > i /\ channel'[x].type = "worker.ready"  BY <1>1, <2>1, <2>2
  <2>4. ASSUME NEW j \in 1 .. n, i < j, j < x PROVE Refused(channel'[j])
    <3>1. j + 1 \in 1 .. n + 1 /\ i + 1 < j + 1 /\ j + 1 < r  BY <2>2, <2>4
    <3> QED BY <1>1, <2>1, <3>1
  <2>5. \E y \in DOMAIN channel' :
          /\ y > i /\ channel'[y].type = "worker.ready"
          /\ \A j \in DOMAIN channel' : i < j /\ j < y => Refused(channel'[j])
    BY <1>1, <2>2, <2>3, <2>4
  <2> QED BY <2>5 DEF SilentAfter, Refused
<1> QED BY <1>2, <1>3 DEF SilentAfter

(* A message that is sent keeps the order. *)
LEMMA SendOrder ==
  ASSUME IsSequence(channel), OrderInv, UNCHANGED <<known, epoch>>, NEW m,
         channel' = Append(channel, m),
         \/ UNCHANGED worker /\ (worker.up \/ Refused(m)) /\ m.type # "worker.disconnected"
         \/ m.type = "worker.ready"
         \/ worker.up /\ ~worker.up' /\ m.type = "worker.disconnected"
  PROVE  OrderInv'
<1>1. PICK n \in Nat : /\ DOMAIN channel = 1 .. n /\ DOMAIN channel' = 1 .. n + 1
                       /\ \A j \in 1 .. n : channel'[j] = channel[j]
                       /\ channel'[n + 1] = m
  <2>1. IsSequence(channel) /\ channel' = Append(channel, m)  OBVIOUS
  <2> QED BY ONLY <2>1, AppendShape
<1>2. ASSUME NEW i \in Nat, i = 0 \/ i \in DOMAIN channel, SilentAfter(i)
      PROVE  SilentAfter(i)'
  BY <1>2, SilentAppends
<1>3. ASSUME NEW i \in 1 .. n + 1, channel'[i].type = "worker.disconnected"
      PROVE  SilentAfter(i)'
  <2>1. CASE i \in 1 .. n
    <3>1. SilentAfter(i)  BY <1>1, <1>3, <2>1 DEF OrderInv
    <3> QED BY <1>1, <1>2, <2>1, <3>1
  <2>2. CASE i = n + 1
    <3>1. m.type = "worker.disconnected"  BY <1>1, <1>3, <2>2
    <3>2. ~worker'.up  BY <3>1
    <3>3. \A j \in 1 .. n + 1 : ~ (j > i)  BY <2>2
    <3> QED BY <1>1, <3>2, <3>3 DEF SilentAfter
  <2> QED BY <2>1, <2>2
<1>4. ~known.ready => IF epoch = 0 THEN known.generation = 0 ELSE SilentAfter(0)'
  BY <1>2 DEF OrderInv
<1> QED BY <1>1, <1>3, <1>4 DEF OrderInv

(* So do the messages behind the answer to a post. *)
LEMMA ExtendOrder ==
  ASSUME Extended, OrderInv, UNCHANGED <<known, epoch, worker>>, worker.up,
         \A i \in DOMAIN channel' : i \in DOMAIN channel \/ channel'[i].type # "worker.disconnected"
  PROVE  OrderInv'
<1>1. PICK n, k \in Nat : /\ DOMAIN channel = 1 .. n /\ DOMAIN channel' = 1 .. k /\ n <= k
                          /\ \A j \in 1 .. n : channel'[j] = channel[j]
  BY DEF Extended
<1>2. ASSUME NEW i \in Nat, SilentAfter(i) PROVE SilentAfter(i)'
  BY <1>2, SilentExtends
<1>3. ASSUME NEW i \in DOMAIN channel', channel'[i].type = "worker.disconnected"
      PROVE  SilentAfter(i)'
  <2>1. i \in 1 .. n  BY <1>1, <1>3
  <2>2. SilentAfter(i)  BY <1>1, <1>3, <2>1 DEF OrderInv
  <2> QED BY <1>2, <2>1, <2>2
<1>4. ~known.ready => IF epoch = 0 THEN known.generation = 0 ELSE SilentAfter(0)'
  BY <1>2 DEF OrderInv
<1> QED BY <1>3, <1>4 DEF OrderInv

(* The answer to a post and the events behind it follow what is sent. *)
LEMMA PostExtends ==
  ASSUME PrefixInv, NEW q \in requests, AnswerPost(q)
  PROVE  /\ Extended
         /\ \A i \in DOMAIN channel' : i \in DOMAIN channel
              \/ (channel'[i].type = "reply" /\ channel'[i].call.kind = "post")
              \/ channel'[i].type = "room.event"
<1>1. RequestOK(q) /\ log \in [Rooms -> Nat]
  BY DEF PrefixInv, RequestsInv, LogInv
<1>2. /\ q.call.kind = "post" /\ q.call.room \in Rooms
      /\ q.committed \in 1 .. log[q.call.room]
  BY <1>1 DEF AnswerPost, RequestOK, CallOK
<1>3. PICK m : m = Reply(q, "ok", q.committed)  OBVIOUS
<1>4. PICK later : later = LaterEvents(q.call.room, q.committed)  OBVIOUS
<1>5. PICK s : s = Append(channel, m)  OBVIOUS
<1>6. channel' = s \o later  BY <1>3, <1>4, <1>5 DEF AnswerPost
<1>7. PICK n \in Nat : n = log[q.call.room] - q.committed + 1
  BY <1>1, <1>2
<1>8. later = [i \in 1 .. n |-> RoomEvent(q.call.room, q.committed + i - 1)]
  BY <1>4, <1>7 DEF LaterEvents
<1>9. DOMAIN later = 1 .. n /\ later = [i \in 1 .. n |-> later[i]]  BY <1>8
<1>10. IsSequence(channel)  BY DEF PrefixInv, ChannelInv
<1>11. IsSequence(later) /\ IsSequence(s)
  BY <1>10, <1>5, <1>9, FunctionIsSequence, AppendElements
<1>12. \A i \in DOMAIN later : later[i].type = "room.event"
  BY <1>8, <1>9 DEF RoomEvent
<1>13. PICK x \in Nat : /\ DOMAIN channel = 1 .. x /\ DOMAIN s = 1 .. x + 1
                        /\ \A i \in 1 .. x : s[i] = channel[i]
                        /\ s[x + 1] = m
  BY <1>10, <1>5, AppendShape
<1>14. /\ DOMAIN (s \o later) = 1 .. (x + 1) + n
       /\ \A i \in 1 .. x + 1 : (s \o later)[i] = s[i]
       /\ \A i \in 1 .. n : (s \o later)[(x + 1) + i] = later[i]
  BY <1>9, <1>11, <1>13, ConcatShape
<1>15. PICK y \in Nat : y = x + 1  BY <1>13
<1>16. Extended
  <2>1. DOMAIN channel' = 1 .. y + n /\ x <= y + n /\ y + n \in Nat
    BY <1>6, <1>14, <1>15
  <2>2. \A i \in 1 .. x : channel'[i] = channel[i]
    BY <1>6, <1>13, <1>14, <1>15
  <2> QED BY <1>13, <2>1, <2>2 DEF Extended
<1>17. m.type = "reply" /\ m.call.kind = "post"  BY <1>2, <1>3 DEF Reply
<1>18. ASSUME NEW i \in DOMAIN channel'
       PROVE  i \in DOMAIN channel
              \/ (channel'[i].type = "reply" /\ channel'[i].call.kind = "post")
              \/ channel'[i].type = "room.event"
  <2>1. CASE i \in 1 .. x  BY <1>13, <2>1
  <2>2. CASE i = x + 1  BY <1>6, <1>13, <1>14, <1>15, <1>17, <2>2
  <2>3. CASE i > x + 1
    <3>1. PICK j \in 1 .. n : i = y + j
      <4>1. i - y \in 1 .. n /\ i = y + (i - y)  BY <1>6, <1>14, <1>15, <1>18, <2>3
      <4> QED BY <4>1
    <3> QED BY <1>6, <1>9, <1>12, <1>14, <1>15, <3>1
  <2>4. i \in 1 .. y + n  BY <1>6, <1>14, <1>15, <1>18
  <2> QED BY <1>15, <2>1, <2>2, <2>3, <2>4
<1> QED BY <1>16, <1>18

(* The worker announces itself in order, and answers nothing in between. *)
LEMMA ServerOrder == PrefixInv /\ OrderInv /\ ServerStep => OrderInv'
<1>1. SUFFICES ASSUME PrefixInv, OrderInv, ServerStep PROVE OrderInv'  OBVIOUS
<1>2. IsSequence(channel) /\ UNCHANGED <<known, epoch>>
  BY <1>1 DEF PrefixInv, ChannelInv, ServerStep
<1>3. ASSUME UNCHANGED <<channel, worker>> PROVE OrderInv'
  BY <1>1, <1>2, <1>3 DEF OrderInv, SilentAfter, Refused
<1>4. ASSUME NEW room \in Rooms, AppendEvent(room) PROVE OrderInv'
  <2>1. PICK m : m = RoomEvent(room, log[room] + 1)  OBVIOUS
  <2>2. m.type = "room.event"  BY <2>1 DEF RoomEvent
  <2>3. CASE channel' = Append(channel, m)
    BY <1>1, <1>2, <1>4, <2>2, <2>3, SendOrder DEF AppendEvent
  <2> QED BY <1>3, <1>4, <2>1, <2>3 DEF AppendEvent
<1>5. ASSUME NEW q \in requests, Answer(q) PROVE OrderInv'
  <2>1. ASSUME NEW outcome, NEW data, outcome = "rejected" \/ worker.up,
               channel' = Append(channel, Reply(q, outcome, data)), UNCHANGED worker
        PROVE  OrderInv'
    <3>1. PICK m : m = Reply(q, outcome, data)  OBVIOUS
    <3>2. m.type = "reply" /\ m.outcome = outcome  BY <3>1 DEF Reply
    <3>3. worker.up \/ Refused(m)  BY <2>1, <3>2 DEF Refused
    <3> QED BY <1>1, <1>2, <2>1, <3>1, <3>2, <3>3, SendOrder
  <2>2. CASE Reject(q)  BY <2>1, <2>2 DEF Reject
  <2>3. CASE AnswerSnapshot(q)  BY <2>1, <2>3 DEF AnswerSnapshot, Accepted
  <2>4. CASE AnswerReplay(q)  BY <2>1, <2>4 DEF AnswerReplay, Accepted
  <2>5. CASE CommitPost(q)  BY <1>3, <2>5 DEF CommitPost
  <2>6. CASE AnswerPost(q)
    <3>1. /\ Extended
          /\ \A i \in DOMAIN channel' : i \in DOMAIN channel
               \/ (channel'[i].type = "reply" /\ channel'[i].call.kind = "post")
               \/ channel'[i].type = "room.event"
      BY <1>1, <1>5, <2>6, PostExtends
    <3>2. worker.up /\ UNCHANGED worker  BY <2>6 DEF AnswerPost, Accepted
    <3> QED BY <1>1, <1>2, <3>1, <3>2, ExtendOrder
  <2>7. CASE AnswerMutation(q)  BY <2>1, <2>7 DEF AnswerMutation, Accepted
  <2>8. CASE Refuse(q)  BY <2>1, <2>8 DEF Refuse, Accepted
  <2> QED BY <1>5, <2>2, <2>3, <2>4, <2>5, <2>6, <2>7, <2>8 DEF Answer
<1>6. CASE Crash
  <2>1. PICK m : m = [type |-> "worker.disconnected", generation |-> worker.generation]
    OBVIOUS
  <2>2. m.type = "worker.disconnected" /\ channel' = Append(channel, m)
    BY <1>6, <2>1 DEF Crash, Announced
  <2>3. worker.up /\ (UNCHANGED worker \/ ~worker'.up)
    BY <1>6 DEF Crash
  <2>4. CASE ~worker'.up  BY <1>1, <1>2, <2>2, <2>3, <2>4, SendOrder
  <2> QED BY <1>6, <2>4 DEF Crash
<1>7. CASE Restart
  <2>1. PICK m : m = [type |-> "worker.ready", generation |-> worker.generation + 1]
    OBVIOUS
  <2>2. m.type = "worker.ready" /\ channel' = Append(channel, m)
    BY <1>7, <2>1 DEF Restart, Announced
  <2> QED BY <1>1, <1>2, <2>2, SendOrder
<1> QED BY <1>1, <1>4, <1>5, <1>6, <1>7 DEF ServerStep

(* A step that reads no message keeps the order. *)
LEMMA StillOrder ==
  ASSUME OrderInv, UNCHANGED <<channel, worker, epoch>>,
         known'.ready = known.ready, known'.generation = known.generation
  PROVE  OrderInv'
  BY DEF OrderInv, SilentAfter, Refused

(* The end of a hydrate says nothing of the worker. *)
LEMMA FinishHydrateKnown ==
  ASSUME StoreT, NEW c, NEW outcome, NEW rest, FinishHydrate(c, outcome, rest)
  PROVE  known'.ready = known.ready /\ known'.generation = known.generation
  BY DEF FinishHydrate, StoreT

(* No continuation reads a message or says anything of the worker. *)
LEMMA RunJobOrder == TypeInv /\ OrderInv /\ RunJob => OrderInv'
<1>1. SUFFICES ASSUME TypeInv, OrderInv, RunJob PROVE OrderInv'  OBVIOUS
<1>2. UNCHANGED <<channel, worker, epoch>>  BY <1>1 DEF RunJob
<1>3. CASE UNCHANGED known  BY <1>1, <1>2, <1>3, StillOrder
<1>4. CASE \E job : HydrateContinues(job)
  <2>1. PICK job : HydrateContinues(job)  BY <1>4
  <2>2. PICK c, outcome, rest : FinishHydrate(c, outcome, rest)
    BY <2>1 DEF HydrateContinues
  <2>3. known'.ready = known.ready /\ known'.generation = known.generation
    BY <1>1, <2>2, FinishHydrateKnown DEF TypeInv
  <2> QED BY <1>1, <1>2, <2>3, StillOrder
<1> QED BY <1>1, <1>3, <1>4
        DEF RunJob, Continue, SelectContinues, EventContinues, MutationContinues, StartRefresh

(* Nor does a call of the user. *)
LEMMA UserCallOrder == OrderInv /\ UserCall => OrderInv'
<1>1. SUFFICES ASSUME OrderInv, UserCall PROVE OrderInv'  OBVIOUS
<1> QED BY <1>1, StillOrder DEF UserCall

(* What the store learns of a worker, it learns in order. *)
LEMMA ReceiveOrder == PrefixInv /\ TypeInv /\ OrderInv /\ Receive => OrderInv'
<1>1. SUFFICES ASSUME PrefixInv, TypeInv, OrderInv, Receive PROVE OrderInv'  OBVIOUS
<1>2. /\ IsSequence(channel) /\ channel # <<>> /\ channel' = Tail(channel)
      /\ UNCHANGED worker
  BY <1>1 DEF Receive, PrefixInv, ChannelInv
<1>3. PICK m : m = Head(channel)  OBVIOUS
<1>4. PICK n \in Nat : /\ DOMAIN channel = 1 .. n + 1 /\ DOMAIN channel' = 1 .. n
                       /\ \A i \in 1 .. n : channel'[i] = channel[i + 1]
                       /\ m = channel[1]
  BY ONLY <1>2, <1>3, TailShape
<1>5. ASSUME NEW i \in Nat, SilentAfter(i + 1) PROVE SilentAfter(i)'
  BY <1>2, <1>5, SilentTail
<1>6. ASSUME NEW i \in DOMAIN channel', channel'[i].type = "worker.disconnected"
      PROVE  SilentAfter(i)'
  <2>1. i \in Nat /\ i + 1 \in DOMAIN channel /\ channel[i + 1].type = "worker.disconnected"
    BY <1>4, <1>6
  <2>2. SilentAfter(i + 1)  BY <1>1, <2>1 DEF OrderInv
  <2> QED BY <1>5, <2>1, <2>2
<1>7. ASSUME m.type = "worker.disconnected" PROVE SilentAfter(0)'
  <2>1. 1 \in DOMAIN channel /\ channel[1].type = "worker.disconnected"  BY <1>4, <1>7
  <2>2. SilentAfter(0 + 1)  BY <1>1, <2>1 DEF OrderInv
  <2> QED BY <1>5, <2>2
<1>8. ASSUME SilentAfter(0)
      PROVE  /\ m.type = "worker.ready" \/ Refused(m)
             /\ m.type # "worker.ready" => SilentAfter(0)'
  <2>1. m.type = "worker.ready" \/ Refused(m)  BY <1>2, <1>3, <1>8, SilentHead
  <2>2. ASSUME m.type # "worker.ready" PROVE SilentAfter(1)
    <3>1. CASE ~worker.up /\ \A j \in DOMAIN channel : j > 0 => Refused(channel[j])
      <4>1. \A j \in DOMAIN channel : j > 1 => Refused(channel[j])  BY <1>4, <3>1
      <4> QED BY <3>1, <4>1 DEF SilentAfter
    <3>2. CASE \E r \in DOMAIN channel :
                 /\ r > 0 /\ channel[r].type = "worker.ready"
                 /\ \A j \in DOMAIN channel : 0 < j /\ j < r => Refused(channel[j])
      <4>1. PICK r \in DOMAIN channel :
                 /\ r > 0 /\ channel[r].type = "worker.ready"
                 /\ \A j \in DOMAIN channel : 0 < j /\ j < r => Refused(channel[j])
        BY <3>2
      <4>2. r # 1  BY <1>4, <2>2, <4>1
      <4>3. r > 1  BY <1>4, <4>1, <4>2
      <4>4. \A j \in DOMAIN channel : 1 < j /\ j < r => Refused(channel[j])
        BY <1>4, <4>1
      <4> QED BY <4>1, <4>3, <4>4 DEF SilentAfter
    <3> QED BY <1>8, <3>1, <3>2 DEF SilentAfter
  <2>3. ASSUME m.type # "worker.ready" PROVE SilentAfter(0)'
    <3>1. SilentAfter(0 + 1)  BY <2>2, <2>3
    <3> QED BY <1>5, <3>1
  <2> QED BY <2>1, <2>3
<1>9. SUFFICES ASSUME ~known'.ready
               PROVE  IF epoch' = 0 THEN known'.generation = 0 ELSE SilentAfter(0)'
  BY <1>6 DEF OrderInv
<1>10. epoch \in Nat /\ known \in [generation : 0 .. MaxGenerations, ready : BOOLEAN,
                                   hydrated : BOOLEAN]
  BY <1>1 DEF TypeInv, StoreT
<1>11. ASSUME UNCHANGED epoch, known'.ready = known.ready,
              known'.generation = known.generation, m.type # "worker.ready"
       PROVE  IF epoch' = 0 THEN known'.generation = 0 ELSE SilentAfter(0)'
  BY <1>1, <1>8, <1>9, <1>11 DEF OrderInv
<1>12. CASE ReceiveReply(m)
  <2>1. UNCHANGED epoch /\ m.type = "reply"  BY <1>12 DEF ReceiveReply
  <2>2. CASE UNCHANGED known  BY <1>11, <2>1, <2>2
  <2>3. CASE \E outcome : FinishHydrate(m.call, outcome, jobs)
    <3>1. PICK c, outcome, rest : FinishHydrate(c, outcome, rest)  BY <2>3
    <3>2. known'.ready = known.ready /\ known'.generation = known.generation
      BY <1>1, <3>1, FinishHydrateKnown DEF TypeInv
    <3> QED BY <1>11, <2>1, <3>2
  <2>4. CASE known' = [known EXCEPT !.generation = m.generation, !.ready = TRUE]
    BY <1>9, <1>10, <2>4
  <2> QED BY <1>12, <2>2, <2>3, <2>4
          DEF ReceiveReply, ReceiveSnapshot, ReceivePage, ReceivePosted, ReceiveMutation
<1>13. CASE ReceiveRoomEvent(m)
  <2>1. UNCHANGED <<epoch, known>> /\ m.type = "room.event"  BY <1>13 DEF ReceiveRoomEvent
  <2> QED BY <1>11, <2>1
<1>14. CASE ReceiveDisconnected(m)
  <2>1. m.type = "worker.disconnected" /\ SilentAfter(0)'
    BY <1>7, <1>14 DEF ReceiveDisconnected
  <2>2. CASE UNCHANGED <<epoch, known>>  BY <1>11, <2>1, <2>2
  <2>3. CASE epoch' = epoch + 1
    <3>1. epoch' # 0  BY <1>10, <2>3
    <3> QED BY <2>1, <3>1
  <2> QED BY <1>14, <2>2, <2>3 DEF ReceiveDisconnected
<1>15. CASE ReceiveReady(m)
  <2>1. CASE known.ready /\ UNCHANGED known  BY <1>9, <2>1
  <2>2. CASE known' = [known EXCEPT !.generation = m.generation, !.ready = TRUE]
    BY <1>9, <1>10, <2>2
  <2> QED BY <1>15, <2>1, <2>2 DEF ReceiveReady
<1> QED BY <1>1, <1>3, <1>12, <1>13, <1>14, <1>15 DEF Receive, ReceiveEvent

(* At first the channel is empty and no worker is known. *)
LEMMA InitOrder == Init => OrderInv
  BY DEF Init, OrderInv

(* Every step keeps the order of the channel. *)
LEMMA NextOrder == PrefixInv /\ TypeInv /\ OrderInv /\ [Next]_vars => OrderInv'
<1>1. OrderInv /\ UNCHANGED vars => OrderInv'
  <2>1. SUFFICES ASSUME OrderInv, UNCHANGED vars PROVE OrderInv'  OBVIOUS
  <2> QED BY <2>1, StillOrder DEF vars
<1> QED BY <1>1, ServerOrder, RunJobOrder, ReceiveOrder, UserCallOrder DEF Next

-----------------------------------------------------------------------------
(* The hydrate of an epoch                                                 *)

Hydrates(c) == c.kind = "hydrate" /\ c.epoch = epoch
Asking == {q \in requests : Hydrates(q.call)}
Answered == {m \in Elements(channel) : m.type = "reply" /\ Hydrates(m.call)}
HydratesOf(k) == {c \in Elements(k.waiters) : Hydrates(c)}
Catching == {k \in catches : HydratesOf(k) # {}}
Ending == {j \in Elements(jobs) : Hydrates(j.call)}

Once(s, S) == \A i, j \in DOMAIN s : s[i] \in S /\ s[j] \in S => i = j
Task(c) == [epoch |-> c.epoch, operation |-> c.operation]

(* It is in one place: asked for, answered, in a catch-up or about to end. *)
AskingInv == (\A q, p \in Asking : q = p) /\ \A q \in Asking : hydrating = Task(q.call)
AnsweredInv == Once(channel, Answered) /\ \A m \in Answered : hydrating = Task(m.call)
CatchingInv == \A k \in Catching : /\ Once(k.waiters, HydratesOf(k))
                                   /\ \A c \in HydratesOf(k) : hydrating = Task(c)
                                   /\ \A l \in Catching : k = l
EndingInv == Once(jobs, Ending) /\ \A j \in Ending : hydrating = Task(j.call)
OnePlace ==
  /\ Asking # {} => Answered = {} /\ Catching = {} /\ Ending = {}
  /\ Answered # {} => Catching = {} /\ Ending = {}
  /\ Catching # {} => Ending = {}
HydrateInv == AskingInv /\ AnsweredInv /\ CatchingInv /\ EndingInv /\ OnePlace

NoHydrate == Asking = {} /\ Answered = {} /\ Catching = {} /\ Ending = {}

(* What a step may do to the places a hydrate is in, but for one of them. *)
AskingLess == Asking' \subseteq Asking
AnsweredLess == Answered' \subseteq Answered /\ Once(channel, Answered)'
CatchingLess ==
  \A k \in Catching' : \E l \in Catching :
     /\ k.room = l.room /\ k.epoch = l.epoch
     /\ HydratesOf(k)' \subseteq HydratesOf(l) /\ Once(k.waiters, HydratesOf(k))'
EndingLess == Ending' \subseteq Ending /\ Once(jobs, Ending)'

(* A hydrate stays where it is, or goes. *)
LEMMA HydrateStays ==
  ASSUME HydrateInv, CatchesT', AskingLess, AnsweredLess, CatchingLess, EndingLess,
         UNCHANGED hydrating \/ NoHydrate
  PROVE  HydrateInv'
<1>1. Catching = {} => Catching' = {}  BY DEF CatchingLess
<1>2. CASE NoHydrate
  <2>1. Asking' = {} /\ Answered' = {} /\ Catching' = {} /\ Ending' = {}
    BY <1>1, <1>2 DEF NoHydrate, AskingLess, AnsweredLess, EndingLess
  <2> QED BY <2>1 DEF HydrateInv, AskingInv, AnsweredInv, CatchingInv, EndingInv, OnePlace, Once
<1>3. CASE UNCHANGED hydrating
  <2>1. AskingInv'  BY <1>3 DEF AskingInv, AskingLess, HydrateInv, Task
  <2>2. AnsweredInv'
    BY <1>3 DEF AnsweredInv, AnsweredLess, HydrateInv, Task
  <2>3. EndingInv'  BY <1>3 DEF EndingInv, EndingLess, HydrateInv, Task
  <2>4. ASSUME NEW k \in Catching'
        PROVE  /\ Once(k.waiters, HydratesOf(k))'
               /\ \A c \in HydratesOf(k)' : hydrating' = Task(c)
               /\ \A l \in Catching' : k = l
    <3>1. PICK i \in Catching :
             /\ k.room = i.room /\ k.epoch = i.epoch
             /\ HydratesOf(k)' \subseteq HydratesOf(i) /\ Once(k.waiters, HydratesOf(k))'
      BY <2>4 DEF CatchingLess
    <3>2. \A c \in HydratesOf(k)' : hydrating' = Task(c)
      BY <1>3, <3>1 DEF HydrateInv, CatchingInv
    <3>3. ASSUME NEW l \in Catching' PROVE k = l
      <4>1. PICK j \in Catching : l.room = j.room /\ l.epoch = j.epoch
        BY <3>3 DEF CatchingLess
      <4>2. i = j  BY DEF HydrateInv, CatchingInv
      <4>3. k \in catches' /\ l \in catches'  BY <2>4, <3>3 DEF Catching
      <4> QED BY <3>1, <4>1, <4>2, <4>3 DEF CatchesT
    <3> QED BY <3>1, <3>2, <3>3
  <2>5. CatchingInv'  BY <2>4 DEF CatchingInv, Task
  <2>6. OnePlace'
    BY <1>1 DEF HydrateInv, OnePlace, AskingLess, AnsweredLess, EndingLess
  <2> QED BY <2>1, <2>2, <2>3, <2>5, <2>6 DEF HydrateInv
<1> QED BY <1>2, <1>3

(* A hydrate under way is the one of hydrateTask. *)
LEMMA HydrateIsActive ==
  ASSUME TypeInv, HydrateInv, ~NoHydrate
  PROVE  Active /\ hydrating.epoch = epoch /\ hydrating.operation <= sequence
<1>1. PICK c : CallT(c) /\ Hydrates(c) /\ hydrating = Task(c)
  <2>1. CASE Asking # {}
    BY <2>1 DEF HydrateInv, AskingInv, Asking, TypeInv, RequestsT, RequestT
  <2>2. CASE Answered # {}
    BY <2>2 DEF HydrateInv, AnsweredInv, Answered, TypeInv, ChannelT, MessageT, ReplyT
  <2>3. CASE Catching # {}
    <3>1. PICK k \in Catching : TRUE  BY <2>3
    <3>2. PICK c \in HydratesOf(k) : TRUE  BY DEF Catching
    <3>3. hydrating = Task(c)  BY DEF HydrateInv, CatchingInv
    <3>4. k \in catches /\ c \in Elements(k.waiters) /\ Hydrates(c)
      BY DEF Catching, HydratesOf
    <3> QED BY <3>3, <3>4 DEF TypeInv, CatchesT, CatchT
  <2>4. CASE Ending # {}
    BY <2>4 DEF HydrateInv, EndingInv, Ending, TypeInv, JobsT, JobT
  <2> QED BY <2>1, <2>2, <2>3, <2>4 DEF NoHydrate
<1>2. c.operation >= 1 /\ c.operation <= sequence /\ c.operation \in Nat /\ c.epoch = epoch
  BY <1>1 DEF CallT, Hydrates, Calls
<1> QED BY <1>1, <1>2 DEF Active, Task, NoTask

(* What a step leaves alone, the hydrates in it are left alone. *)
LEMMA PlacesLess ==
  ASSUME HydrateInv, PrefixInv, UNCHANGED epoch
  PROVE  /\ requests' \in SUBSET requests => AskingLess
         /\ UNCHANGED channel => AnsweredLess
         /\ channel # <<>> /\ channel' = Tail(channel) => AnsweredLess
         /\ catches' \in SUBSET catches => CatchingLess
         /\ UNCHANGED jobs => EndingLess
         /\ jobs # <<>> /\ jobs' = Tail(jobs) => EndingLess
<1> USE DEF Hydrates
<1>1. requests' \in SUBSET requests => AskingLess  BY DEF AskingLess, Asking
<1>2. UNCHANGED channel => AnsweredLess
  BY DEF AnsweredLess, Answered, HydrateInv, AnsweredInv
<1>3. ASSUME channel # <<>>, channel' = Tail(channel) PROVE AnsweredLess
  <2>1. IsSequence(channel)  BY DEF PrefixInv, ChannelInv
  <2>2. PICK n \in Nat : /\ DOMAIN channel = 1 .. n + 1 /\ DOMAIN channel' = 1 .. n
                         /\ \A i \in 1 .. n : channel'[i] = channel[i + 1]
    BY ONLY <1>3, <2>1, TailShape
  <2>3. Answered' \subseteq Answered
    <3>1. Elements(channel') \subseteq Elements(channel)  BY <1>3, <2>1, TailElements
    <3> QED BY <3>1 DEF Answered
  <2>4. ASSUME NEW i \in 1 .. n, NEW j \in 1 .. n,
               channel'[i] \in Answered', channel'[j] \in Answered'
        PROVE  i = j
    <3>1. channel[i + 1] \in Answered /\ channel[j + 1] \in Answered
      BY <2>2, <2>3, <2>4
    <3>2. i + 1 \in DOMAIN channel /\ j + 1 \in DOMAIN channel  BY <2>2
    <3>3. i + 1 = j + 1  BY <3>1, <3>2 DEF HydrateInv, AnsweredInv, Once
    <3> QED BY <3>3
  <2>5. Once(channel, Answered)'  BY <2>2, <2>4 DEF Once
  <2> QED BY <2>3, <2>5 DEF AnsweredLess
<1>4. ASSUME catches' \in SUBSET catches PROVE CatchingLess
  <2>1. SUFFICES ASSUME NEW k \in Catching'
                 PROVE  \E l \in Catching :
                          /\ k.room = l.room /\ k.epoch = l.epoch
                          /\ HydratesOf(k)' \subseteq HydratesOf(l)
                          /\ Once(k.waiters, HydratesOf(k))'
    BY DEF CatchingLess
  <2>2. HydratesOf(k)' = HydratesOf(k)  BY DEF HydratesOf
  <2>3. k \in Catching  BY <1>4, <2>2 DEF Catching
  <2>4. Once(k.waiters, HydratesOf(k))  BY <2>3 DEF HydrateInv, CatchingInv
  <2>5. Once(k.waiters, HydratesOf(k))'  BY <2>2, <2>4 DEF Once
  <2> QED BY <2>2, <2>3, <2>5
<1>5. UNCHANGED jobs => EndingLess
  BY DEF EndingLess, Ending, HydrateInv, EndingInv
<1>6. ASSUME jobs # <<>>, jobs' = Tail(jobs) PROVE EndingLess
  <2>1. IsSequence(jobs)  BY DEF PrefixInv, JobsInv
  <2>2. PICK n \in Nat : /\ DOMAIN jobs = 1 .. n + 1 /\ DOMAIN jobs' = 1 .. n
                         /\ \A i \in 1 .. n : jobs'[i] = jobs[i + 1]
    BY ONLY <1>6, <2>1, TailShape
  <2>3. Ending' \subseteq Ending
    <3>1. Elements(jobs') \subseteq Elements(jobs)  BY <1>6, <2>1, TailElements
    <3> QED BY <3>1 DEF Ending
  <2>4. ASSUME NEW i \in 1 .. n, NEW j \in 1 .. n, jobs'[i] \in Ending', jobs'[j] \in Ending'
        PROVE  i = j
    <3>1. jobs[i + 1] \in Ending /\ jobs[j + 1] \in Ending  BY <2>2, <2>3, <2>4
    <3>2. i + 1 \in DOMAIN jobs /\ j + 1 \in DOMAIN jobs  BY <2>2
    <3>3. i + 1 = j + 1  BY <3>1, <3>2 DEF HydrateInv, EndingInv, Once
    <3> QED BY <3>3
  <2>5. Once(jobs, Ending)'  BY <2>2, <2>4 DEF Once
  <2> QED BY <2>3, <2>5 DEF EndingLess
<1> QED BY <1>1, <1>2, <1>3, <1>4, <1>5, <1>6

(* A call that is no hydrate of the epoch adds to no place. *)
LEMMA AskOther ==
  ASSUME UNCHANGED epoch, NEW q, ~Hydrates(q.call), requests' = requests \cup {q}
  PROVE  AskingLess
  BY DEF AskingLess, Asking, Hydrates

(* At most one place of a sequence: of its tail, and of a longer one. *)
LEMMA OnceTail ==
  ASSUME NEW s, NEW S, IsSequence(s), s # <<>>, Once(s, S)
  PROVE  /\ Once(Tail(s), S)
         /\ Head(s) \in S => \A x \in Elements(Tail(s)) : x \notin S
<1>1. PICK n \in Nat : /\ DOMAIN s = 1 .. n + 1 /\ DOMAIN Tail(s) = 1 .. n
                       /\ \A i \in 1 .. n : Tail(s)[i] = s[i + 1]
                       /\ Head(s) = s[1]
  BY TailShape
<1>2. ASSUME NEW i \in 1 .. n, NEW j \in 1 .. n, Tail(s)[i] \in S, Tail(s)[j] \in S
      PROVE  i = j
  <2>1. i + 1 \in DOMAIN s /\ j + 1 \in DOMAIN s /\ s[i + 1] \in S /\ s[j + 1] \in S
    BY <1>1, <1>2
  <2>2. i + 1 = j + 1  BY <2>1 DEF Once
  <2> QED BY <2>2
<1>3. ASSUME Head(s) \in S, NEW i \in 1 .. n, Tail(s)[i] \in S PROVE FALSE
  <2>1. 1 \in DOMAIN s /\ i + 1 \in DOMAIN s /\ s[1] \in S /\ s[i + 1] \in S
    BY <1>1, <1>3
  <2>2. i + 1 = 1  BY <2>1 DEF Once
  <2> QED BY <2>2
<1> QED BY <1>1, <1>2, <1>3 DEF Once, Elements

(* And of one more, when there was none or it is another. *)
LEMMA OnceAppend ==
  ASSUME NEW s, NEW S, NEW e, IsSequence(s),
         (Once(s, S) /\ e \notin S) \/ \A x \in Elements(s) : x \notin S
  PROVE  Once(Append(s, e), S)
<1>1. PICK n \in Nat : /\ DOMAIN s = 1 .. n /\ DOMAIN Append(s, e) = 1 .. n + 1
                       /\ \A i \in 1 .. n : Append(s, e)[i] = s[i]
                       /\ Append(s, e)[n + 1] = e
  BY AppendShape
<1>2. ASSUME NEW i \in 1 .. n + 1, NEW j \in 1 .. n + 1,
             Append(s, e)[i] \in S, Append(s, e)[j] \in S
      PROVE  i = j
  <2>1. CASE i \in 1 .. n /\ j \in 1 .. n
    BY <1>1, <1>2, <2>1 DEF Once, Elements
  <2>2. CASE i = n + 1 /\ j = n + 1  BY <2>2
  <2>3. CASE i \in 1 .. n /\ j = n + 1
    <3>1. s[i] \in S /\ s[i] \in Elements(s) /\ e \in S  BY <1>1, <1>2, <2>3 DEF Elements
    <3> QED BY <3>1
  <2>4. CASE j \in 1 .. n /\ i = n + 1
    <3>1. s[j] \in S /\ s[j] \in Elements(s) /\ e \in S  BY <1>1, <1>2, <2>4 DEF Elements
    <3> QED BY <3>1
  <2> QED BY <2>1, <2>2, <2>3, <2>4
<1> QED BY <1>1, <1>2 DEF Once

(* A message that is no answer to a hydrate of the epoch. *)
LEMMA SendOther ==
  ASSUME HydrateInv, PrefixInv, UNCHANGED epoch, NEW m, channel' = Append(channel, m),
         ~ (m.type = "reply" /\ Hydrates(m.call))
  PROVE  AnsweredLess
<1>1. IsSequence(channel)  BY DEF PrefixInv, ChannelInv
<1>2. m \notin Answered'  BY DEF Answered, Hydrates
<1>3. \A x \in Elements(channel') : x \in Elements(channel) \/ x = m
  BY <1>1, AppendElements
<1>4. Answered' \subseteq Answered  BY <1>2, <1>3 DEF Answered, Hydrates
<1>5. PICK S : S = Answered'  OBVIOUS
<1>6. Once(channel, S)  BY <1>4, <1>5 DEF HydrateInv, AnsweredInv, Once
<1>7. Once(Append(channel, m), S)  BY <1>1, <1>2, <1>5, <1>6, OnceAppend
<1> QED BY <1>4, <1>5, <1>7 DEF AnsweredLess

(* Several of them, behind what the channel holds. *)
LEMMA ExtendOther ==
  ASSUME HydrateInv, Extended, UNCHANGED epoch,
         \A i \in DOMAIN channel' :
            i \in DOMAIN channel \/ ~ (channel'[i].type = "reply" /\ Hydrates(channel'[i].call))
  PROVE  AnsweredLess
<1>1. PICK n, k \in Nat : /\ DOMAIN channel = 1 .. n /\ DOMAIN channel' = 1 .. k /\ n <= k
                          /\ \A j \in 1 .. n : channel'[j] = channel[j]
  BY DEF Extended
<1>2. ASSUME NEW i \in DOMAIN channel', channel'[i].type = "reply", Hydrates(channel'[i].call)
      PROVE  i \in DOMAIN channel /\ channel'[i] = channel[i] /\ channel[i] \in Answered
  <2>1. i \in 1 .. n  BY <1>1, <1>2
  <2> QED BY <1>1, <1>2, <2>1 DEF Answered, Elements
<1>3. \A m \in Answered' : \E i \in DOMAIN channel' : m = channel'[i]
  BY DEF Answered, Elements
<1>4. \A m \in Answered' : m.type = "reply" /\ Hydrates(m.call)  BY DEF Answered, Hydrates
<1>5. Answered' \subseteq Answered  BY <1>2, <1>3, <1>4
<1>6. \A i, j \in DOMAIN channel' : channel'[i] \in Answered' /\ channel'[j] \in Answered' => i = j
  BY <1>2, <1>4 DEF HydrateInv, AnsweredInv, Once
<1>7. Once(channel, Answered)'  BY <1>6 DEF Once
<1> QED BY <1>5, <1>7 DEF AnsweredLess

(* The one that asks is answered. *)
LEMMA HydrateIsAnswered ==
  ASSUME HydrateInv, PrefixInv, UNCHANGED <<epoch, hydrating, catches, jobs>>,
         NEW q \in Asking, NEW m, m.type = "reply", m.call = q.call,
         channel' = Append(channel, m), requests' = requests \ {q}
  PROVE  HydrateInv'
<1>1. Answered = {} /\ Catching = {} /\ Ending = {}  BY DEF HydrateInv, OnePlace
<1>2. hydrating = Task(q.call) /\ \A p \in Asking : p = q  BY DEF HydrateInv, AskingInv
<1>3. Asking' = {}  BY <1>2 DEF Asking, Hydrates
<1>4. Catching' = {} /\ Ending' = {}
  BY <1>1 DEF Catching, HydratesOf, Ending, Hydrates
<1>5. IsSequence(channel)  BY DEF PrefixInv, ChannelInv
<1>6. \A x \in Elements(channel') : x \in Elements(channel) \/ x = m
  BY <1>5, AppendElements
<1>7. \A x \in Answered' : x = m  BY <1>1, <1>6 DEF Answered, Hydrates
<1>8. PICK S : S = Answered'  OBVIOUS
<1>9. \A x \in Elements(channel) : x \notin S  BY <1>1, <1>8 DEF Answered, Hydrates
<1>10. Once(Append(channel, m), S)  BY <1>5, <1>9, OnceAppend
<1>11. AnsweredInv'  BY <1>2, <1>7, <1>8, <1>10 DEF AnsweredInv, Task
<1> QED BY <1>3, <1>4, <1>11
        DEF HydrateInv, AskingInv, CatchingInv, EndingInv, OnePlace, Once

(* catchUp for a call that is no hydrate. *)
LEMMA CatchUpOther ==
  ASSUME HydrateInv, PrefixInv, UNCHANGED epoch, NEW c, c.kind # "hydrate", CatchUp(c)
  PROVE  AskingLess /\ CatchingLess
<1>1. CASE InFlight(c.room) = {}
  <2>1. PICK k : k = [room |-> c.room, epoch |-> epoch, waiters |-> <<c>>]  OBVIOUS
  <2>2. PICK r : r = NewCall("replay", c.room, 0)  OBVIOUS
  <2>3. PICK q : q = Sent(r, Cursor(c.room))  OBVIOUS
  <2>4. catches' = catches \cup {k} /\ requests' = requests \cup {q}
    BY <1>1, <2>1, <2>2, <2>3 DEF CatchUp
  <2>5. ~Hydrates(q.call)  BY <2>2, <2>3 DEF Hydrates, NewCall, Sent
  <2>6. AskingLess  BY <2>4, <2>5, AskOther
  <2>7. HydratesOf(k)' = {}
    <3>1. \A x \in Elements(k.waiters) : x = c  BY <2>1, SingleElement
    <3> QED BY <3>1 DEF HydratesOf, Hydrates
  <2>8. ASSUME NEW l \in Catching'
        PROVE  /\ l \in Catching /\ HydratesOf(l)' \subseteq HydratesOf(l)
               /\ Once(l.waiters, HydratesOf(l))'
    <3>1. HydratesOf(l)' = HydratesOf(l)  BY DEF HydratesOf, Hydrates
    <3>2. l \in Catching  BY <2>4, <2>7, <2>8, <3>1 DEF Catching
    <3>3. Once(l.waiters, HydratesOf(l))  BY <3>2 DEF HydrateInv, CatchingInv
    <3>4. Once(l.waiters, HydratesOf(l))'  BY <3>1, <3>3 DEF Once
    <3> QED BY <3>1, <3>2, <3>4
  <2>9. CatchingLess  BY <2>8 DEF CatchingLess
  <2> QED BY <2>6, <2>9
<1>2. CASE InFlight(c.room) # {}
  <2>1. AskingLess  BY <1>2 DEF CatchUp, AskingLess, Asking, Hydrates
  <2>2. catches' = {IF k \in InFlight(c.room)
                      THEN [k EXCEPT !.waiters = Append(@, c)] ELSE k : k \in catches}
    BY <1>2 DEF CatchUp
  <2>3. ASSUME NEW j \in Catching'
        PROVE  \E l \in Catching :
                 /\ j.room = l.room /\ j.epoch = l.epoch
                 /\ HydratesOf(j)' \subseteq HydratesOf(l) /\ Once(j.waiters, HydratesOf(j))'
    <3>1. j \in catches' /\ HydratesOf(j)' # {}  BY <2>3 DEF Catching
    <3>2. PICK k \in catches : j = k \/ j = [k EXCEPT !.waiters = Append(@, c)]
      BY <2>2, <3>1
    <3>3. CatchOK(k)  BY DEF PrefixInv, CatchesInv
    <3>4. CASE j = k
      <4>1. HydratesOf(j)' = HydratesOf(k)  BY <3>4 DEF HydratesOf, Hydrates
      <4>2. k \in Catching  BY <3>1, <4>1 DEF Catching
      <4>3. Once(k.waiters, HydratesOf(k))  BY <4>2 DEF HydrateInv, CatchingInv
      <4>4. Once(j.waiters, HydratesOf(j))'  BY <3>4, <4>1, <4>3 DEF Once
      <4> QED BY <3>4, <4>1, <4>2, <4>4
    <3>5. CASE j = [k EXCEPT !.waiters = Append(@, c)]
      <4>1. j = [room |-> k.room, epoch |-> k.epoch, waiters |-> Append(k.waiters, c)]
        BY <3>3, <3>5 DEF CatchOK
      <4>2. \A x \in Elements(j.waiters) : x \in Elements(k.waiters) \/ x = c
        BY <3>3, <4>1, AppendElements DEF CatchOK
      <4>3. HydratesOf(j)' \subseteq HydratesOf(k)  BY <4>2 DEF HydratesOf, Hydrates
      <4>4. k \in Catching  BY <3>1, <4>3 DEF Catching
      <4>5. PICK S : S = HydratesOf(j)'  OBVIOUS
      <4>6. Once(k.waiters, HydratesOf(k))  BY <4>4 DEF HydrateInv, CatchingInv
      <4>7. Once(k.waiters, S)  BY <4>3, <4>5, <4>6 DEF Once
      <4>8. c \notin S  BY <4>5 DEF HydratesOf, Hydrates
      <4>9. Once(Append(k.waiters, c), S)
        BY <3>3, <4>7, <4>8, OnceAppend DEF CatchOK
      <4>10. Once(j.waiters, HydratesOf(j)')  BY <4>1, <4>5, <4>9
      <4>11. Once(j.waiters, HydratesOf(j))'  BY <4>10 DEF Once
      <4> QED BY <4>1, <4>3, <4>4, <4>11
    <3> QED BY <3>2, <3>4, <3>5
  <2>4. CatchingLess  BY <2>3 DEF CatchingLess
  <2> QED BY <2>1, <2>4
<1> QED BY <1>1, <1>2

(* The end of a hydrate wakes mutations only. *)
LEMMA FinishEnding ==
  ASSUME PrefixInv, UNCHANGED epoch, NEW c, NEW outcome, NEW rest,
         FinishHydrate(c, outcome, rest), IsSequence(rest), Once(rest, Ending),
         Elements(rest) \subseteq Elements(jobs)
  PROVE  EndingLess /\ \A j \in Ending' : j \in Elements(rest)
<1>1. CASE refreshes # <<>> /\ Head(refreshes).operation = c.operation
  <2>1. PICK x : x = Head(refreshes)  OBVIOUS
  <2>2. PICK j : j = [call |-> x.call, outcome |-> "ok"]  OBVIOUS
  <2>3. x \in Elements(refreshes)
    BY <1>1, <2>1, TailElements DEF PrefixInv, RefreshesInv
  <2>4. x.call.kind \in {"create", "remove"}
    BY <2>3 DEF PrefixInv, RefreshesInv, RefreshOK
  <2>5. jobs' = Append(rest, j)  BY <1>1, <2>1, <2>2 DEF FinishHydrate
  <2>6. \A y \in Elements(jobs') : y \in Elements(rest) \/ y = j
    BY <2>5, AppendElements
  <2>7. j \notin Ending'  BY <2>2, <2>4 DEF Ending, Hydrates
  <2>8. Ending' \subseteq Ending /\ \A y \in Ending' : y \in Elements(rest)
    BY <2>6, <2>7 DEF Ending, Hydrates
  <2>9. PICK S : S = Ending'  OBVIOUS
  <2>10. Once(rest, S)  BY <2>8, <2>9 DEF Once
  <2>11. Once(Append(rest, j), S)  BY <2>7, <2>9, <2>10, OnceAppend
  <2>12. Once(jobs, Ending)'  BY <2>5, <2>9, <2>11 DEF Once
  <2> QED BY <2>8, <2>12 DEF EndingLess
<1>2. CASE ~ (refreshes # <<>> /\ Head(refreshes).operation = c.operation)
  <2>1. jobs' = rest  BY <1>2 DEF FinishHydrate
  <2>2. Ending' \subseteq Ending /\ \A y \in Ending' : y \in Elements(rest)
    BY <2>1 DEF Ending, Hydrates
  <2>3. Once(jobs, Ending)'  BY <2>1, <2>2 DEF Once
  <2> QED BY <2>2, <2>3 DEF EndingLess
<1> QED BY <1>1, <1>2

(* Where no hydrate is under way there is nothing to say. *)
LEMMA NoHydrateLater == NoHydrate' => HydrateInv'
  BY DEF NoHydrate, HydrateInv, AskingInv, AnsweredInv, CatchingInv, EndingInv, OnePlace, Once

(* A hydrate that starts is the only one. *)
LEMMA StartHydrateAlone ==
  ASSUME StartHydrate(epoch'), \A q \in requests : ~Hydrates(q.call)',
         Answered' = {}, Catching' = {}, Ending' = {}
  PROVE  HydrateInv'
<1>1. PICK c : c = [NewCall("hydrate", None, sequence + 1) EXCEPT !.epoch = epoch']
  OBVIOUS
<1>2. c = [kind |-> "hydrate", room |-> None, epoch |-> epoch',
           operation |-> sequence + 1, seq |-> 0]
  BY <1>1 DEF NewCall
<1>3. PICK q : q = Sent(c, 0)  OBVIOUS
<1>4. requests' = requests \cup {q}  BY <1>1, <1>3 DEF StartHydrate
<1>5. q.call = c  BY <1>3 DEF Sent
<1>6. \A p \in Asking' : p = q  BY <1>4 DEF Asking
<1>7. hydrating' = Task(c)  BY <1>2 DEF StartHydrate, Task
<1>8. AskingInv'  BY <1>5, <1>6, <1>7 DEF AskingInv, Task
<1> QED BY <1>8 DEF HydrateInv, AnsweredInv, CatchingInv, EndingInv, OnePlace, Once

(* With its epoch a hydrate is history. *)
LEMMA EpochEnds ==
  ASSUME TypeInv, epoch' = epoch + 1, Elements(channel') \subseteq Elements(channel),
         UNCHANGED <<catches, jobs>>
  PROVE  /\ \A q \in requests : ~Hydrates(q.call)'
         /\ Answered' = {} /\ Catching' = {} /\ Ending' = {}
<1>1. \A c : CallT(c) => ~Hydrates(c)'
  BY DEF TypeInv, StoreT, CallT, Calls, Hydrates
<1>2. \A q \in requests : ~Hydrates(q.call)'
  BY <1>1 DEF TypeInv, RequestsT, RequestT
<1>3. Answered' = {}
  BY <1>1 DEF Answered, TypeInv, ChannelT, MessageT, ReplyT
<1>4. ASSUME NEW k \in Catching' PROVE FALSE
  <2>1. k \in catches /\ HydratesOf(k)' # {}  BY <1>4 DEF Catching
  <2>2. \A c \in Elements(k.waiters) : CallT(c)  BY <2>1 DEF TypeInv, CatchesT, CatchT
  <2> QED BY <1>1, <2>1, <2>2 DEF HydratesOf
<1>5. Ending' = {}  BY <1>1 DEF Ending, TypeInv, JobsT, JobT
<1> QED BY <1>2, <1>3, <1>4, <1>5

(* What is not under way in this epoch leaves hydrateTask to the one that is. *)
LEMMA FinishOther ==
  ASSUME TypeInv, HydrateInv, NEW c, NEW outcome, NEW rest,
         FinishHydrate(c, outcome, rest), c.kind = "hydrate", ~Hydrates(c)
  PROVE  UNCHANGED hydrating \/ NoHydrate
<1>1. CASE NoHydrate  BY <1>1
<1>2. CASE ~NoHydrate
  <2>1. hydrating.epoch = epoch  BY <1>2, HydrateIsActive
  <2>2. c.epoch # epoch  BY DEF Hydrates
  <2> QED BY <2>1, <2>2 DEF FinishHydrate
<1> QED BY <1>1, <1>2

(* The worker's side moves a hydrate from the requests to the answers. *)
LEMMA ServerHydrate ==
  ASSUME PrefixInv, TypeInv, TypeInv', HydrateInv, ServerStep
  PROVE  HydrateInv'
<1>1. UNCHANGED <<epoch, hydrating, catches, jobs>>  BY DEF ServerStep
<1>2. CatchesT' /\ CatchingLess /\ EndingLess
  BY <1>1, PlacesLess DEF TypeInv
<1>3. SUFFICES ASSUME ~HydrateInv' PROVE FALSE  OBVIOUS
<1>4. ASSUME AskingLess, AnsweredLess PROVE FALSE
  BY <1>1, <1>2, <1>3, <1>4, HydrateStays
<1>5. ASSUME UNCHANGED <<requests, channel>> PROVE FALSE
  BY <1>1, <1>4, <1>5, PlacesLess
<1>6. ASSUME UNCHANGED requests, NEW m, m.type # "reply", channel' = Append(channel, m)
      PROVE  FALSE
  <2>1. AnsweredLess  BY <1>1, <1>6, SendOther
  <2> QED BY <1>1, <1>4, <1>6, <2>1, PlacesLess
<1>7. ASSUME NEW room \in Rooms, AppendEvent(room) PROVE FALSE
  <2>1. PICK m : m = RoomEvent(room, log[room] + 1)  OBVIOUS
  <2>2. m.type = "room.event"  BY <2>1 DEF RoomEvent
  <2> QED BY <1>5, <1>6, <1>7, <2>1, <2>2 DEF AppendEvent
<1>8. ASSUME NEW q \in requests, Answer(q) PROVE FALSE
  <2>1. ASSUME NEW outcome, NEW data, requests' = requests \ {q},
               channel' = Append(channel, Reply(q, outcome, data))
        PROVE  FALSE
    <3>1. PICK m : m = Reply(q, outcome, data)  OBVIOUS
    <3>2. m.type = "reply" /\ m.call = q.call  BY <3>1 DEF Reply
    <3>3. CASE Hydrates(q.call)
      <4>1. q \in Asking  BY <3>3 DEF Asking
      <4> QED BY <1>1, <1>3, <2>1, <3>1, <3>2, <4>1, HydrateIsAnswered
    <3>4. CASE ~Hydrates(q.call)
      <4>1. AnsweredLess  BY <1>1, <2>1, <3>1, <3>2, <3>4, SendOther
      <4>2. AskingLess  BY <1>1, <2>1, PlacesLess
      <4> QED BY <1>4, <4>1, <4>2
    <3> QED BY <3>3, <3>4
  <2>2. CASE Reject(q)  BY <2>1, <2>2 DEF Reject
  <2>3. CASE AnswerSnapshot(q)  BY <2>1, <2>3 DEF AnswerSnapshot
  <2>4. CASE AnswerReplay(q)  BY <2>1, <2>4 DEF AnswerReplay
  <2>5. CASE CommitPost(q)
    <3>1. RequestOK(q) /\ q.call.kind = "post"
      BY <1>8, <2>5 DEF CommitPost, PrefixInv, RequestsInv
    <3>2. PICK p : p = [q EXCEPT !.committed = log[q.call.room] + 1]  OBVIOUS
    <3>3. p.call = q.call  BY <3>1, <3>2 DEF RequestOK
    <3>4. requests' = (requests \ {q}) \cup {p} /\ UNCHANGED channel
      BY <2>5, <3>2 DEF CommitPost
    <3>5. AskingLess  BY <1>1, <3>1, <3>3, <3>4 DEF AskingLess, Asking, Hydrates
    <3> QED BY <1>1, <1>4, <3>4, <3>5, PlacesLess
  <2>6. CASE AnswerPost(q)
    <3>1. Extended /\ \A i \in DOMAIN channel' : i \in DOMAIN channel
                        \/ ~ (channel'[i].type = "reply" /\ Hydrates(channel'[i].call))
      BY <1>8, <2>6, PostExtends DEF Hydrates
    <3>2. AnsweredLess  BY <1>1, <3>1, ExtendOther
    <3>3. AskingLess  BY <1>1, <2>6, PlacesLess DEF AnswerPost
    <3> QED BY <1>4, <3>2, <3>3
  <2>7. CASE AnswerMutation(q)  BY <2>1, <2>7 DEF AnswerMutation
  <2>8. CASE Refuse(q)  BY <2>1, <2>8 DEF Refuse
  <2> QED BY <1>8, <2>2, <2>3, <2>4, <2>5, <2>6, <2>7, <2>8 DEF Answer
<1>9. CASE Crash
  <2>1. PICK m : m = [type |-> "worker.disconnected", generation |-> worker.generation]
    OBVIOUS
  <2> QED BY <1>6, <1>9, <2>1 DEF Crash, Announced
<1>10. CASE Restart
  <2>1. PICK m : m = [type |-> "worker.ready", generation |-> worker.generation + 1]
    OBVIOUS
  <2> QED BY <1>6, <1>10, <2>1 DEF Restart, Announced
<1> QED BY <1>7, <1>8, <1>9, <1>10 DEF ServerStep

(* The continuations and the refreshes. *)
LEMMA RunJobHydrate ==
  ASSUME PrefixInv, TypeInv, TypeInv', HydrateInv, RunJob
  PROVE  HydrateInv'
<1>1. UNCHANGED <<epoch, channel>> /\ CatchesT'  BY DEF RunJob, TypeInv
<1>2. AnsweredLess  BY <1>1, PlacesLess
<1>3. IsSequence(jobs) /\ Once(jobs, Ending)
  BY DEF PrefixInv, JobsInv, HydrateInv, EndingInv
<1>4. ASSUME AskingLess, CatchingLess, EndingLess, UNCHANGED hydrating \/ NoHydrate
      PROVE  HydrateInv'
  BY <1>1, <1>2, <1>4, HydrateStays
<1>5. CASE Continue
  <2>1. PICK job : job = Head(jobs)  OBVIOUS
  <2>2. jobs # <<>>  BY <1>5 DEF Continue
  <2>3. CASE HydrateContinues(job)
    <3>1. PICK c, outcome, rest : c = job.call /\ outcome = job.outcome /\ rest = Tail(jobs)
      OBVIOUS
    <3>2. FinishHydrate(c, outcome, rest) /\ UNCHANGED <<catches, requests>>
          /\ c.kind = "hydrate"
      BY <2>3, <3>1 DEF HydrateContinues
    <3>3. IsSequence(rest) /\ Elements(rest) \subseteq Elements(jobs) /\ job \in Elements(jobs)
      BY <1>3, <2>1, <2>2, <3>1, TailElements
    <3>4. /\ Once(rest, Ending)
          /\ job \in Ending => \A x \in Elements(rest) : x \notin Ending
      <4>1. PICK S : S = Ending  OBVIOUS
      <4> QED BY <1>3, <2>1, <2>2, <3>1, <4>1, OnceTail
    <3>5. EndingLess /\ \A j \in Ending' : j \in Elements(rest)
      BY <1>1, <3>2, <3>3, <3>4, FinishEnding
    <3>6. AskingLess /\ CatchingLess  BY <1>1, <3>2, PlacesLess
    <3>7. CASE Hydrates(c)
      <4>1. job \in Ending  BY <3>1, <3>3, <3>7 DEF Ending
      <4>2. Ending' = {}  BY <3>4, <3>5, <4>1 DEF EndingLess
      <4>3. Asking = {} /\ Answered = {} /\ Catching = {}
        BY <4>1 DEF HydrateInv, OnePlace
      <4>4. Asking' = {} /\ Answered' = {} /\ Catching' = {}
        BY <1>2, <3>6, <4>3 DEF AskingLess, AnsweredLess, CatchingLess
      <4> QED BY <4>2, <4>4, NoHydrateLater DEF NoHydrate
    <3>8. CASE ~Hydrates(c)
      <4>1. UNCHANGED hydrating \/ NoHydrate  BY <3>2, <3>8, FinishOther
      <4> QED BY <1>4, <3>5, <3>6, <4>1
    <3> QED BY <3>7, <3>8
  <2>4. ASSUME jobs' = Tail(jobs), UNCHANGED hydrating, AskingLess, CatchingLess
        PROVE  HydrateInv'
    BY <1>1, <1>4, <2>2, <2>4, PlacesLess
  <2>5. ASSUME UNCHANGED <<catches, requests>> PROVE AskingLess /\ CatchingLess
    BY <1>1, <2>5, PlacesLess
  <2>6. CASE SelectContinues(job)  BY <2>4, <2>5, <2>6 DEF SelectContinues
  <2>7. CASE EventContinues(job)  BY <2>4, <2>5, <2>7 DEF EventContinues
  <2>8. CASE MutationContinues(job)
    <3>1. jobs' = Tail(jobs) /\ UNCHANGED hydrating  BY <2>8 DEF MutationContinues
    <3>2. CASE UNCHANGED <<catches, requests>>  BY <2>4, <2>5, <3>1, <3>2
    <3>3. CASE Select(job.call.room)
      <4>1. PICK c : c = NewCall("select", job.call.room, sequence + 1)  OBVIOUS
      <4>2. c.kind # "hydrate" /\ CatchUp(c)  BY <3>3, <4>1 DEF Select, NewCall
      <4>3. AskingLess /\ CatchingLess  BY <1>1, <4>2, CatchUpOther
      <4> QED BY <2>4, <3>1, <4>3
    <3> QED BY <2>8, <3>2, <3>3 DEF MutationContinues
  <2> QED BY <1>5, <2>1, <2>3, <2>6, <2>7, <2>8 DEF Continue
<1>6. CASE StartRefresh
  <2>1. StartHydrate(epoch') /\ ~Active /\ UNCHANGED <<catches, jobs>>
    BY <1>1, <1>6 DEF StartRefresh, RefreshReady
  <2>2. NoHydrate  BY <2>1, HydrateIsActive
  <2>3. CatchingLess /\ EndingLess  BY <1>1, <2>1, PlacesLess
  <2>4. \A q \in requests : ~Hydrates(q.call)'
    BY <1>1, <2>2 DEF NoHydrate, Asking, Hydrates
  <2>5. Answered' = {} /\ Catching' = {} /\ Ending' = {}
    BY <1>2, <2>2, <2>3 DEF NoHydrate, AnsweredLess, CatchingLess, EndingLess
  <2> QED BY <2>1, <2>4, <2>5, StartHydrateAlone
<1> QED BY <1>5, <1>6 DEF RunJob

(* The hydrate whose snapshot is loaded waits for a catch-up. *)
LEMMA HydrateCatchesUp ==
  ASSUME PrefixInv, CatchesT', Answered' = {}, Asking = {}, Catching = {}, Ending = {},
         UNCHANGED <<epoch, hydrating, jobs>>, NEW c, Hydrates(c), hydrating = Task(c),
         CatchUp(c)
  PROVE  HydrateInv'
<1>1. Ending' = {}  BY DEF Ending, Hydrates
<1>2. CASE InFlight(c.room) = {}
  <2>1. PICK k : k = [room |-> c.room, epoch |-> epoch, waiters |-> <<c>>]  OBVIOUS
  <2>2. PICK r : r = NewCall("replay", c.room, 0)  OBVIOUS
  <2>3. PICK q : q = Sent(r, Cursor(c.room))  OBVIOUS
  <2>4. catches' = catches \cup {k} /\ requests' = requests \cup {q}
    BY <1>2, <2>1, <2>2, <2>3 DEF CatchUp
  <2>5. ~Hydrates(q.call)  BY <2>2, <2>3 DEF Hydrates, NewCall, Sent
  <2>6. Asking' = {}  BY <2>4, <2>5 DEF Asking, Hydrates
  <2>7. \A x \in Elements(k.waiters) : x = c  BY <2>1, SingleElement
  <2>8. \A l \in Catching' : l = k
    BY <2>4 DEF Catching, HydratesOf, Hydrates
  <2>9. \A x \in HydratesOf(k)' : x = c  BY <2>7 DEF HydratesOf
  <2>10. PICK S : S = HydratesOf(k)'  OBVIOUS
  <2>11. Once(k.waiters, S)  BY <2>1 DEF Once
  <2>12. Once(k.waiters, HydratesOf(k))'  BY <2>10, <2>11 DEF Once
  <2>13. CatchingInv'  BY <2>8, <2>9, <2>12 DEF CatchingInv, Task
  <2> QED BY <1>1, <2>6, <2>13 DEF HydrateInv, AskingInv, AnsweredInv, EndingInv, OnePlace, Once
<1>3. CASE InFlight(c.room) # {}
  <2>1. Asking' = {}  BY <1>3 DEF CatchUp, Asking, Hydrates
  <2>2. catches' = {IF k \in InFlight(c.room)
                      THEN [k EXCEPT !.waiters = Append(@, c)] ELSE k : k \in catches}
    BY <1>3 DEF CatchUp
  <2>3. ASSUME NEW j \in Catching'
        PROVE  /\ j \in catches' /\ j.room = c.room /\ j.epoch = epoch
               /\ \A x \in HydratesOf(j)' : x = c
               /\ Once(j.waiters, HydratesOf(j))'
    <3>1. j \in catches' /\ HydratesOf(j)' # {}  BY <2>3 DEF Catching
    <3>2. PICK k \in catches :
            j = IF k \in InFlight(c.room) THEN [k EXCEPT !.waiters = Append(@, c)] ELSE k
      BY <2>2, <3>1
    <3>3. CatchOK(k) /\ HydratesOf(k) = {}
      BY DEF PrefixInv, CatchesInv, Catching
    <3>4. k \in InFlight(c.room)
      <4>1. SUFFICES ASSUME k \notin InFlight(c.room) PROVE FALSE  OBVIOUS
      <4>2. j = k  BY <3>2, <4>1
      <4> QED BY <3>1, <3>3, <4>2 DEF HydratesOf, Hydrates
    <3>5. j = [room |-> k.room, epoch |-> k.epoch, waiters |-> Append(k.waiters, c)]
      BY <3>2, <3>3, <3>4 DEF CatchOK
    <3>6. \A x \in Elements(j.waiters) : x \in Elements(k.waiters) \/ x = c
      BY <3>3, <3>5, AppendElements DEF CatchOK
    <3>7. \A x \in HydratesOf(j)' : x = c  BY <3>3, <3>6 DEF HydratesOf, Hydrates
    <3>8. PICK S : S = HydratesOf(j)'  OBVIOUS
    <3>9. \A x \in Elements(k.waiters) : x \notin S
      BY <3>3, <3>8 DEF HydratesOf, Hydrates
    <3>10. Once(Append(k.waiters, c), S)  BY <3>3, <3>9, OnceAppend DEF CatchOK
    <3>11. Once(j.waiters, HydratesOf(j)')  BY <3>5, <3>8, <3>10
    <3>12. Once(j.waiters, HydratesOf(j))'  BY <3>11 DEF Once
    <3>13. j.room = c.room /\ j.epoch = epoch  BY <3>4, <3>5 DEF InFlight
    <3> QED BY <3>1, <3>7, <3>12, <3>13
  <2>4. \A j, l \in Catching' : j = l  BY <2>3 DEF CatchesT
  <2>5. CatchingInv'  BY <2>3, <2>4 DEF CatchingInv, Task
  <2> QED BY <1>1, <2>1, <2>5 DEF HydrateInv, AskingInv, AnsweredInv, EndingInv, OnePlace, Once
<1> QED BY <1>2, <1>3

(* A hydrate whose catch-up ends is about to end. *)
LEMMA ReplayEndsHydrate ==
  ASSUME PrefixInv, HydrateInv, CatchesT', AskingLess, AnsweredLess,
         UNCHANGED <<epoch, hydrating>>, NEW m, NEW outcome, ReplayEnds(m, outcome)
  PROVE  HydrateInv'
<1>1. PICK k \in catches :
        /\ catches' = catches \ {k} /\ UNCHANGED requests
        /\ jobs' = [i \in DOMAIN k.waiters |-> [call |-> k.waiters[i], outcome |-> outcome]]
  BY DEF ReplayEnds
<1>2. CatchingLess  BY <1>1, PlacesLess
<1>3. ASSUME NEW i \in DOMAIN jobs', jobs'[i] \in Ending'
      PROVE  i \in DOMAIN k.waiters /\ k.waiters[i] \in HydratesOf(k)
             /\ jobs'[i].call = k.waiters[i]
  BY <1>1, <1>3 DEF Ending, HydratesOf, Elements, Hydrates
<1>4. \A j \in Ending' : \E i \in DOMAIN jobs' : j = jobs'[i]
  BY DEF Ending, Elements
<1>5. CASE HydratesOf(k) = {}
  <2>1. Ending' = {}  BY <1>3, <1>4, <1>5
  <2>2. EndingLess  BY <2>1 DEF EndingLess, Once
  <2> QED BY <1>2, <2>2, HydrateStays
<1>6. CASE HydratesOf(k) # {}
  <2>1. k \in Catching  BY <1>6 DEF Catching
  <2>2. Asking = {} /\ Answered = {}  BY <2>1 DEF HydrateInv, OnePlace
  <2>3. Asking' = {} /\ Answered' = {}  BY <2>2 DEF AskingLess, AnsweredLess
  <2>4. /\ Once(k.waiters, HydratesOf(k)) /\ \A c \in HydratesOf(k) : hydrating = Task(c)
        /\ \A l \in Catching : k = l
    BY <2>1 DEF HydrateInv, CatchingInv
  <2>5. Catching' = {}
    BY <1>1, <2>4 DEF Catching, HydratesOf, Hydrates
  <2>6. Once(jobs, Ending)'
    <3>1. \A i, j \in DOMAIN jobs' : jobs'[i] \in Ending' /\ jobs'[j] \in Ending' => i = j
      BY <1>3, <2>4 DEF Once
    <3> QED BY <3>1 DEF Once
  <2>7. \A j \in Ending' : hydrating' = Task(j.call)
    BY <1>3, <1>4, <2>4 DEF Task
  <2> QED BY <2>3, <2>5, <2>6, <2>7
          DEF HydrateInv, AskingInv, AnsweredInv, CatchingInv, EndingInv, OnePlace, Once, Task
<1> QED BY <1>5, <1>6

(* The answer to a hydrate. *)
LEMMA SnapshotHydrate ==
  ASSUME PrefixInv, TypeInv, CatchesT', HydrateInv, channel # <<>>, channel' = Tail(channel),
         UNCHANGED epoch, NEW m, m = Head(channel), m.type = "reply", ReplyOK(m),
         ReceiveSnapshot(m)
  PROVE  HydrateInv'
<1>1. IsSequence(channel) /\ Once(channel, Answered) /\ IsSequence(jobs) /\ Once(jobs, Ending)
  BY DEF PrefixInv, ChannelInv, JobsInv, HydrateInv, AnsweredInv, EndingInv
<1>2. AnsweredLess  BY PlacesLess
<1>3. m.call.kind = "hydrate"  BY DEF ReceiveSnapshot
<1>4. ASSUME Hydrates(m.call)
      PROVE  /\ Answered' = {} /\ Asking = {} /\ Catching = {} /\ Ending = {}
             /\ hydrating = Task(m.call)
  <2>1. m \in Answered  BY <1>1, <1>4, TailElements DEF Answered
  <2>2. PICK S : S = Answered  OBVIOUS
  <2>3. \A x \in Elements(Tail(channel)) : x \notin S
    BY <1>1, <2>1, <2>2, OnceTail
  <2>4. Answered' = {}  BY <1>2, <2>2, <2>3 DEF AnsweredLess, Answered
  <2> QED BY <2>1, <2>4 DEF HydrateInv, OnePlace, AnsweredInv
<1>5. CASE UNCHANGED <<catches, requests>> /\ \E outcome \in {"ok", "failed"} :
             FinishHydrate(m.call, outcome, jobs)
  <2>1. PICK c, outcome, rest : /\ c = m.call /\ rest = jobs
                                /\ FinishHydrate(c, outcome, rest)
    BY <1>5
  <2>2. EndingLess  BY <1>1, <2>1, FinishEnding
  <2>3. AskingLess /\ CatchingLess  BY <1>5, PlacesLess
  <2>4. CASE Hydrates(c)
    <3>1. Answered' = {} /\ Asking = {} /\ Catching = {} /\ Ending = {}
      BY <1>4, <2>1, <2>4
    <3>2. NoHydrate'
      BY <2>2, <2>3, <3>1 DEF NoHydrate, AskingLess, CatchingLess, EndingLess
    <3> QED BY <3>2, NoHydrateLater
  <2>5. CASE ~Hydrates(c)
    <3>1. UNCHANGED hydrating \/ NoHydrate  BY <1>3, <2>1, <2>5, FinishOther
    <3> QED BY <1>2, <2>2, <2>3, <3>1, HydrateStays
  <2> QED BY <2>4, <2>5
<1>6. CASE /\ IsCurrent(m.call) /\ UNCHANGED <<hydrating, jobs>>
           /\ \E room \in Rooms : CatchUp([m.call EXCEPT !.room = room])
  <2>1. PICK room \in Rooms : CatchUp([m.call EXCEPT !.room = room])
    BY <1>6
  <2>2. PICK c : c = [m.call EXCEPT !.room = room]  OBVIOUS
  <2>3. c = [kind |-> "hydrate", room |-> room, epoch |-> m.call.epoch,
             operation |-> m.call.operation, seq |-> m.call.seq]
    BY <1>3, <2>2 DEF ReplyOK, CallOK
  <2>4. Hydrates(m.call)  BY <1>3, <1>6 DEF Hydrates, IsCurrent
  <2>5. Hydrates(c) /\ Task(c) = Task(m.call)  BY <2>3, <2>4 DEF Hydrates, Task
  <2>6. /\ Answered' = {} /\ Asking = {} /\ Catching = {} /\ Ending = {}
        /\ hydrating = Task(m.call)
    BY <1>4, <2>4
  <2> QED BY <1>6, <2>1, <2>2, <2>5, <2>6, HydrateCatchesUp
<1>7. (IF selected = None THEN FirstRoom ELSE selected) \in Rooms
  BY TimelineAssumption DEF TimelineAssumption, PrefixInv, LogInv
<1> QED BY <1>5, <1>6, <1>7 DEF ReceiveSnapshot

(* Whatever the channel delivers. *)
LEMMA ReceiveHydrate ==
  ASSUME PrefixInv, TypeInv, TypeInv', HydrateInv, Receive
  PROVE  HydrateInv'
<1>1. channel # <<>> /\ channel' = Tail(channel) /\ IsSequence(channel) /\ CatchesT'
  BY DEF Receive, PrefixInv, ChannelInv, TypeInv
<1>2. PICK m : m = Head(channel)  OBVIOUS
<1>3. Elements(channel') \subseteq Elements(channel) /\ m \in Elements(channel)
  BY <1>1, <1>2, TailElements
<1>4. MessageOK(m)  BY <1>3 DEF PrefixInv, ChannelInv
<1>5. ASSUME UNCHANGED <<epoch, hydrating>>, AskingLess, CatchingLess, EndingLess
      PROVE  HydrateInv'
  BY <1>1, <1>5, PlacesLess, HydrateStays
<1>6. ASSUME UNCHANGED <<epoch, hydrating, requests, catches, jobs>> PROVE HydrateInv'
  BY <1>5, <1>6, PlacesLess
<1>7. ASSUME UNCHANGED <<epoch, hydrating, jobs>>, NEW c, c.kind # "hydrate", CatchUp(c)
      PROVE  HydrateInv'
  BY <1>5, <1>7, PlacesLess, CatchUpOther
<1>8. CASE ReceiveReply(m)
  <2>1. UNCHANGED epoch /\ m.type = "reply" /\ ReplyOK(m)
    BY <1>4, <1>8 DEF ReceiveReply, MessageOK
  <2>2. CASE ReceiveSnapshot(m)  BY <1>1, <1>2, <2>1, <2>2, SnapshotHydrate
  <2>3. CASE ReceivePage(m)
    <3>1. UNCHANGED hydrating /\ m.call.kind = "replay"  BY <2>3 DEF ReceivePage
    <3>2. CASE \E outcome : ReplayEnds(m, outcome)
      <4>1. AskingLess /\ AnsweredLess
        BY <1>1, <2>1, <3>2, PlacesLess DEF ReplayEnds
      <4> QED BY <1>1, <2>1, <3>1, <3>2, <4>1, ReplayEndsHydrate
    <3>3. CASE UNCHANGED <<catches, jobs>> /\
                 \E tail : requests' = requests \cup {Sent(m.call, tail)}
      <4>1. PICK tail : requests' = requests \cup {Sent(m.call, tail)}  BY <3>3
      <4>2. PICK q : q = Sent(m.call, tail)  OBVIOUS
      <4>3. ~Hydrates(q.call)  BY <3>1, <4>2 DEF Sent, Hydrates
      <4>4. AskingLess  BY <2>1, <4>1, <4>2, <4>3, AskOther
      <4> QED BY <1>5, <2>1, <3>1, <3>3, <4>4, PlacesLess
    <3> QED BY <2>3, <3>2, <3>3 DEF ReceivePage, AcceptPage
  <2>4. CASE ReceivePosted(m)
    <3>1. UNCHANGED hydrating /\ m.call.kind = "post"  BY <2>4 DEF ReceivePosted
    <3>2. PICK c : c = [m.call EXCEPT !.seq = m.data]  OBVIOUS
    <3>3. c.kind = "post"  BY <2>1, <3>1, <3>2 DEF ReplyOK, CallOK
    <3>4. CASE UNCHANGED <<catches, requests, jobs>>  BY <1>6, <2>1, <3>1, <3>4
    <3>5. CASE CatchUp(c) /\ UNCHANGED jobs  BY <1>7, <2>1, <3>1, <3>3, <3>5
    <3>6. CASE UNCHANGED <<catches, requests>> /\
                 jobs' = Append(jobs, [call |-> c, outcome |-> "ok"])
      <4>1. PICK j : j = [call |-> c, outcome |-> "ok"]  OBVIOUS
      <4>2. IsSequence(jobs) /\ Once(jobs, Ending)
        BY DEF PrefixInv, JobsInv, HydrateInv, EndingInv
      <4>3. j \notin Ending'  BY <3>3, <4>1 DEF Ending, Hydrates
      <4>4. \A x \in Elements(jobs') : x \in Elements(jobs) \/ x = j
        BY <3>6, <4>1, <4>2, AppendElements
      <4>5. Ending' \subseteq Ending  BY <2>1, <4>3, <4>4 DEF Ending, Hydrates
      <4>6. PICK S : S = Ending'  OBVIOUS
      <4>7. Once(jobs, S)  BY <4>2, <4>5, <4>6 DEF Once
      <4>8. Once(Append(jobs, j), S)  BY <4>2, <4>3, <4>6, <4>7, OnceAppend
      <4>9. Once(jobs, Ending)'  BY <3>6, <4>1, <4>6, <4>8 DEF Once
      <4>10. EndingLess  BY <4>5, <4>9 DEF EndingLess
      <4> QED BY <1>5, <2>1, <3>1, <3>6, <4>10, PlacesLess
    <3> QED BY <2>4, <3>2, <3>4, <3>5, <3>6 DEF ReceivePosted
  <2>5. CASE ReceiveMutation(m)  BY <1>6, <2>1, <2>5 DEF ReceiveMutation
  <2> QED BY <1>8, <2>2, <2>3, <2>4, <2>5 DEF ReceiveReply
<1>9. CASE ReceiveEvent(m)
  <2>1. UNCHANGED jobs  BY <1>9 DEF ReceiveEvent
  <2>2. CASE ReceiveRoomEvent(m)
    <3>1. UNCHANGED <<epoch, hydrating>>  BY <2>2 DEF ReceiveRoomEvent
    <3>2. CASE UNCHANGED <<catches, requests>>  BY <1>6, <2>1, <3>1, <3>2
    <3>3. CASE CatchUp([NewCall("live", m.room, sequence + 1) EXCEPT !.seq = m.seq])
      <4>1. PICK c : c = [NewCall("live", m.room, sequence + 1) EXCEPT !.seq = m.seq]
        OBVIOUS
      <4>2. c.kind # "hydrate"  BY <4>1 DEF NewCall
      <4> QED BY <1>7, <2>1, <3>1, <3>3, <4>1, <4>2
    <3> QED BY <2>2, <3>2, <3>3 DEF ReceiveRoomEvent
  <2>3. ASSUME epoch' = epoch + 1, UNCHANGED catches
        PROVE  /\ \A q \in requests : ~Hydrates(q.call)'
               /\ Answered' = {} /\ Catching' = {} /\ Ending' = {}
    BY <1>3, <2>1, <2>3, EpochEnds
  <2>4. CASE ReceiveDisconnected(m)
    <3>1. UNCHANGED <<catches, requests, hydrating>>  BY <2>4 DEF ReceiveDisconnected
    <3>2. CASE UNCHANGED epoch  BY <1>6, <2>1, <3>1, <3>2
    <3>3. CASE epoch' = epoch + 1
      <4>1. Asking' = {}  BY <2>3, <3>1, <3>3 DEF Asking
      <4> QED BY <2>3, <3>1, <3>3, <4>1, NoHydrateLater DEF NoHydrate
    <3> QED BY <2>4, <3>2, <3>3 DEF ReceiveDisconnected
  <2>5. CASE ReceiveReady(m)
    <3>1. UNCHANGED catches  BY <2>5 DEF ReceiveReady
    <3>2. CASE UNCHANGED <<epoch, requests, hydrating>>  BY <1>6, <2>1, <3>1, <3>2
    <3>3. CASE epoch' = epoch + 1 /\ StartHydrate(epoch')
      BY <2>3, <3>1, <3>3, StartHydrateAlone
    <3>4. CASE UNCHANGED epoch /\ StartHydrate(epoch') /\ ~Active
      <4>1. NoHydrate  BY <3>4, HydrateIsActive
      <4>2. CatchingLess /\ EndingLess /\ AnsweredLess
        BY <1>1, <2>1, <3>1, <3>4, PlacesLess
      <4>3. \A q \in requests : ~Hydrates(q.call)'
        BY <3>4, <4>1 DEF NoHydrate, Asking, Hydrates
      <4>4. Answered' = {} /\ Catching' = {} /\ Ending' = {}
        BY <4>1, <4>2 DEF NoHydrate, AnsweredLess, CatchingLess, EndingLess
      <4> QED BY <3>4, <4>3, <4>4, StartHydrateAlone
    <3>5. epoch \in Nat /\ hydrating.epoch \in Nat /\ hydrating.epoch <= epoch
      BY DEF TypeInv, StoreT
    <3>6. CASE m.generation # known.generation
      <4>1. epoch' = epoch + 1 /\ hydrating.epoch # epoch'
        BY <2>5, <3>5, <3>6 DEF ReceiveReady
      <4> QED BY <2>5, <3>3, <3>6, <4>1 DEF ReceiveReady
    <3>7. CASE ~ (m.generation # known.generation)
      BY <2>5, <3>2, <3>4, <3>7 DEF ReceiveReady, Active
    <3> QED BY <3>6, <3>7
  <2> QED BY <1>9, <2>2, <2>4, <2>5 DEF ReceiveEvent
<1> QED BY <1>2, <1>8, <1>9 DEF Receive

(* The user's calls ask for no hydrate. *)
LEMMA UserCallHydrate ==
  ASSUME PrefixInv, TypeInv', HydrateInv, UserCall
  PROVE  HydrateInv'
<1>1. UNCHANGED <<epoch, channel, jobs, hydrating>> /\ CatchesT'
  BY DEF UserCall, SelectRoom, CreateRoom, PostMessage, RemoveCleanup, TypeInv
<1>2. AnsweredLess /\ EndingLess  BY <1>1, PlacesLess
<1>3. ASSUME NEW c, c.kind # "hydrate", requests' = requests \cup {Sent(c, 0)},
             UNCHANGED catches
      PROVE  HydrateInv'
  <2>1. PICK q : q = Sent(c, 0)  OBVIOUS
  <2>2. ~Hydrates(q.call)  BY <1>3, <2>1 DEF Sent, Hydrates
  <2>3. AskingLess  BY <1>1, <1>3, <2>1, <2>2, AskOther
  <2> QED BY <1>1, <1>2, <1>3, <2>3, PlacesLess, HydrateStays
<1>4. ASSUME NEW room \in Rooms, SelectRoom(room) PROVE HydrateInv'
  <2>1. PICK c : c = NewCall("select", room, sequence + 1)  OBVIOUS
  <2>2. c.kind # "hydrate" /\ CatchUp(c)  BY <1>4, <2>1 DEF SelectRoom, Select, NewCall
  <2> QED BY <1>1, <1>2, <2>2, CatchUpOther, HydrateStays
<1>5. ASSUME NEW room \in Rooms, CreateRoom(room) PROVE HydrateInv'
  <2>1. PICK c : c = NewCall("create", room, sequence + 1)  OBVIOUS
  <2>2. c.kind # "hydrate"  BY <2>1 DEF NewCall
  <2> QED BY <1>3, <1>5, <2>1, <2>2 DEF CreateRoom
<1>6. CASE PostMessage
  <2>1. PICK c : c = NewCall("post", selected, sequence + 1)  OBVIOUS
  <2>2. c.kind # "hydrate"  BY <2>1 DEF NewCall
  <2> QED BY <1>3, <1>6, <2>1, <2>2 DEF PostMessage
<1>7. CASE RemoveCleanup
  <2>1. PICK c : c = [NewCall("remove", FirstRoom, 0) EXCEPT !.seq = calls]  OBVIOUS
  <2>2. c.kind # "hydrate"  BY <2>1 DEF NewCall
  <2> QED BY <1>3, <1>7, <2>1, <2>2 DEF RemoveCleanup
<1> QED BY <1>4, <1>5, <1>6, <1>7 DEF UserCall

(* The first hydrate is the one the application has asked for. *)
LEMMA InitHydrate == Init => HydrateInv
<1>1. SUFFICES ASSUME Init PROVE HydrateInv  OBVIOUS
<1>2. PICK q : q = [call |-> FirstCall, cursor |-> 0, generation |-> 0, committed |-> 0]
  OBVIOUS
<1>3. requests = {q} /\ hydrating = Task(q.call)
  BY <1>1, <1>2 DEF Init, Task, FirstCall
<1>4. Answered = {} /\ Catching = {} /\ Ending = {}
  BY <1>1, EmptyElements DEF Init, Answered, Catching, Ending
<1>5. AskingInv  BY <1>3 DEF AskingInv, Asking
<1> QED BY <1>4, <1>5 DEF HydrateInv, AnsweredInv, CatchingInv, EndingInv, OnePlace, Once

(* Every step keeps the hydrate in one place. *)
LEMMA NextHydrate ==
  PrefixInv /\ TypeInv /\ TypeInv' /\ HydrateInv /\ [Next]_vars => HydrateInv'
<1>1. ASSUME PrefixInv, TypeInv', HydrateInv, UNCHANGED vars PROVE HydrateInv'
  BY <1>1, PlacesLess, HydrateStays DEF vars, TypeInv
<1> QED BY <1>1, ServerHydrate, RunJobHydrate, ReceiveHydrate, UserCallHydrate DEF Next

-----------------------------------------------------------------------------
(* What ready promises                                                     *)

(* A call whose failure is shown in the place of what operation t shows. *)
Outranks(c, t) ==
  /\ c.epoch = epoch /\ c.kind \in Waiting
  /\ c.operation > t \/ (c.kind = "hydrate" /\ c.operation >= t)

(* The selected room has what the snapshot counted, or a call of operation t *)
(* or later is there that sees to it, or to an error.                        *)
Covered(t) ==
  /\ selected \in Rooms
  /\ \/ snapshot[selected] <= Cursor(selected)
     \/ \E k \in InFlight(selected) : \E c \in Elements(k.waiters) : Outranks(c, t)
     \/ \E j \in Elements(jobs) : j.outcome # "ok" /\ Outranks(j.call, t)

(* A hydrate that has loaded its snapshot, and a connection that is ready. *)
LoadedInv ==
  Catching # {} \/ Ending # {} =>
    /\ known.ready
    /\ Covered(hydrating.operation) \/ status.operation > hydrating.operation
ReadyInv ==
  status.connection = "ready" => known.ready /\ ~Active /\ Covered(status.operation)

(* What was promised still is, or a later operation is on display. *)
CoverKept ==
  \A t \in Nat : t <= sequence /\ Covered(t) => Covered(t)' \/ status'.operation > t

(* Of a loaded hydrate, while it is under way. *)
LEMMA LoadedStays ==
  ASSUME TypeInv, StoreT', HydrateInv, LoadedInv, CoverKept,
         UNCHANGED hydrating \/ NoHydrate, known.ready => known'.ready,
         status.operation <= status'.operation,
         Catching' # {} \/ Ending' # {} => Catching # {} \/ Ending # {}
  PROVE  LoadedInv'
<1>1. SUFFICES ASSUME Catching' # {} \/ Ending' # {}
               PROVE  known'.ready /\ (Covered(hydrating.operation)'
                                         \/ status'.operation > hydrating'.operation)
  BY DEF LoadedInv
<1>2. Catching # {} \/ Ending # {}  BY <1>1
<1>3. ~NoHydrate /\ hydrating' = hydrating  BY <1>2 DEF NoHydrate
<1>4. hydrating.operation <= sequence /\ hydrating.operation \in Nat
  BY <1>3, HydrateIsActive DEF TypeInv, StoreT
<1>5. PICK t \in Nat : t = hydrating.operation  BY <1>4
<1>6. known.ready /\ (Covered(t) \/ status.operation > t)  BY <1>2, <1>5 DEF LoadedInv
<1>7. CASE Covered(t)
  <2>1. Covered(t)' \/ status'.operation > t  BY <1>4, <1>5, <1>7 DEF CoverKept
  <2>2. t = hydrating'.operation  BY <1>3, <1>5
  <2> QED BY <1>6, <2>1, <2>2
<1>8. CASE status.operation > t
  <2>1. status'.operation > t  BY <1>8 DEF TypeInv, StoreT
  <2> QED BY <1>3, <1>5, <1>6, <2>1
<1> QED BY <1>6, <1>7, <1>8

(* Of ready, while it is shown. *)
LEMMA ReadyStays ==
  ASSUME TypeInv, ReadyInv, CoverKept, known.ready => known'.ready, ~Active => ~Active',
         status' = status \/ status'.connection # "ready"
  PROVE  ReadyInv'
<1>1. SUFFICES ASSUME status'.connection = "ready"
               PROVE  known'.ready /\ ~Active' /\ Covered(status.operation)'
  BY DEF ReadyInv
<1>2. status' = status  BY <1>1
<1>3. PICK t \in Nat : t = status.operation /\ t <= sequence  BY DEF TypeInv, StoreT
<1>4. known.ready /\ ~Active /\ Covered(t)  BY <1>1, <1>2, <1>3 DEF ReadyInv
<1>5. Covered(t)'
  <2>1. Covered(t)' \/ status'.operation > t  BY <1>3, <1>4 DEF CoverKept
  <2>2. ~ (status'.operation > t)  BY <1>2, <1>3
  <2> QED BY <2>1, <2>2
<1>6. t = status'.operation  BY <1>2, <1>3
<1> QED BY <1>4, <1>5, <1>6

(* A timeline that grows does not fall behind. *)
LEMMA CursorGrows ==
  ASSUME PrefixInv, PrefixInv', NEW room \in Rooms, shown[room] \subseteq shown'[room]
  PROVE  Cursor(room) \in Nat /\ Cursor(room)' \in Nat /\ Cursor(room) <= Cursor(room)'
<1>1. log[room] \in Nat /\ log'[room] \in Nat  BY DEF PrefixInv, LogInv
<1>2. PICK n \in 0 .. log[room] : shown[room] = 1 .. n
  BY DEF PrefixInv, ShownInv, ShownIsPrefix
<1>3. PICK k \in 0 .. log'[room] : shown'[room] = 1 .. k
  BY DEF PrefixInv, ShownInv, ShownIsPrefix
<1>4. n \in Nat /\ k \in Nat  BY <1>1
<1>5. Cursor(room) = n /\ Cursor(room)' = k
  BY <1>2, <1>3, <1>4, GreatestOfPrefix DEF Cursor
<1>6. n <= k
  <2>1. CASE n = 0  BY <1>4, <2>1
  <2>2. CASE n # 0
    <3>1. n \in 1 .. n  BY <1>4, <2>2
    <3>2. n \in 1 .. k  BY <1>2, <1>3, <3>1
    <3> QED BY <3>2
  <2> QED BY <2>1, <2>2
<1> QED BY <1>4, <1>5, <1>6

(* What a step that only adds leaves true. *)
ShownGrows == \A r \in Rooms : shown[r] \subseteq shown'[r]
WaitersStay ==
  \A k \in catches : \A c \in Elements(k.waiters) :
     \E l \in catches' : l.room = k.room /\ l.epoch = k.epoch /\ c \in Elements(l.waiters)

(* A selected room that is caught up stays so. *)
LEMMA ShownCovers ==
  ASSUME PrefixInv, PrefixInv', TypeInv, UNCHANGED <<selected, snapshot>>, ShownGrows,
         selected \in Rooms, snapshot[selected] <= Cursor(selected)
  PROVE  snapshot'[selected'] <= Cursor(selected)'
<1>1. /\ Cursor(selected) \in Nat /\ Cursor(selected)' \in Nat
      /\ Cursor(selected) <= Cursor(selected)'
  <2>1. PICK room \in Rooms : room = selected  OBVIOUS
  <2>2. Cursor(room) \in Nat /\ Cursor(room)' \in Nat /\ Cursor(room) <= Cursor(room)'
    BY CursorGrows DEF ShownGrows
  <2>3. room = selected'  BY <2>1
  <2> QED BY <2>1, <2>2, <2>3
<1>2. snapshot[selected] \in Nat
  BY TimelineAssumption DEF TypeInv, StoreT, TimelineAssumption
<1> QED BY <1>1, <1>2

(* A promise stays while no call that covers it goes. *)
LEMMA CoverStays ==
  ASSUME PrefixInv, PrefixInv', TypeInv, StoreT', UNCHANGED <<selected, snapshot, epoch>>,
         ShownGrows, WaitersStay,
         NEW t \in Nat, Covered(t),
         \A j \in Elements(jobs) : j.outcome # "ok" /\ Outranks(j.call, t)
                                     => j \in Elements(jobs')
  PROVE  Covered(t)'
<1>1. selected \in Rooms /\ selected' = selected /\ snapshot' = snapshot /\ epoch' = epoch
  BY DEF Covered
<1>2. \A c : Outranks(c, t)' <=> Outranks(c, t)  BY <1>1 DEF Outranks, Waiting
<1>3. CASE snapshot[selected] <= Cursor(selected)
  <2>1. snapshot'[selected'] <= Cursor(selected)'  BY <1>1, <1>3, ShownCovers
  <2> QED BY <1>1, <2>1 DEF Covered
<1>4. CASE \E k \in InFlight(selected) : \E c \in Elements(k.waiters) : Outranks(c, t)
  <2>1. PICK k \in InFlight(selected) : \E c \in Elements(k.waiters) : Outranks(c, t)
    BY <1>4
  <2>2. PICK c \in Elements(k.waiters) : Outranks(c, t)  BY <2>1
  <2>3. k \in catches /\ k.room = selected /\ k.epoch = epoch  BY DEF InFlight
  <2>4. PICK l \in catches' : /\ l.room = k.room /\ l.epoch = k.epoch
                              /\ c \in Elements(l.waiters)
    BY <2>2, <2>3 DEF WaitersStay
  <2>5. l \in InFlight(selected)'  BY <1>1, <2>3, <2>4 DEF InFlight
  <2> QED BY <1>1, <1>2, <2>2, <2>4, <2>5 DEF Covered
<1>5. CASE \E j \in Elements(jobs) : j.outcome # "ok" /\ Outranks(j.call, t)
  <2>1. PICK j \in Elements(jobs) : j.outcome # "ok" /\ Outranks(j.call, t)
    BY <1>5
  <2>2. j \in Elements(jobs')  BY <2>1
  <2>3. j \in Elements(jobs)'  BY <2>2 DEF Elements
  <2> QED BY <1>1, <1>2, <2>1, <2>3 DEF Covered
<1> QED BY <1>3, <1>4, <1>5 DEF Covered

(* An element stays when another is appended. *)
LEMMA AppendHolds ==
  ASSUME NEW s, NEW e, IsSequence(s)
  PROVE  e \in Elements(Append(s, e)) /\ Elements(s) \subseteq Elements(Append(s, e))
<1>1. PICK n \in Nat : /\ DOMAIN s = 1 .. n /\ DOMAIN Append(s, e) = 1 .. n + 1
                       /\ \A i \in 1 .. n : Append(s, e)[i] = s[i]
                       /\ Append(s, e)[n + 1] = e
  BY AppendShape
<1>2. n + 1 \in DOMAIN Append(s, e)  BY <1>1
<1>3. \A i \in 1 .. n : i \in DOMAIN Append(s, e)  BY <1>1
<1> QED BY <1>1, <1>2, <1>3 DEF Elements

(* catchUp takes a call in and keeps those that wait. *)
LEMMA CatchUpWaits ==
  ASSUME PrefixInv, UNCHANGED epoch, NEW c, CatchUp(c)
  PROVE  /\ WaitersStay
         /\ \E l \in catches' : l.room = c.room /\ l.epoch = epoch /\ c \in Elements(l.waiters)
<1>1. CASE InFlight(c.room) = {}
  <2>1. PICK k : k = [room |-> c.room, epoch |-> epoch, waiters |-> <<c>>]  OBVIOUS
  <2>2. catches' = catches \cup {k}  BY <1>1, <2>1 DEF CatchUp
  <2>3. 1 \in DOMAIN k.waiters /\ k.waiters[1] = c  BY <2>1
  <2>4. c \in Elements(k.waiters)  BY <2>3 DEF Elements
  <2> QED BY <2>1, <2>2, <2>4 DEF WaitersStay
<1>2. CASE InFlight(c.room) # {}
  <2>1. catches' = {IF k \in InFlight(c.room)
                      THEN [k EXCEPT !.waiters = Append(@, c)] ELSE k : k \in catches}
    BY <1>2 DEF CatchUp
  <2>2. ASSUME NEW k \in InFlight(c.room)
        PROVE  \E l \in catches' : /\ l.room = k.room /\ l.epoch = k.epoch
                                   /\ c \in Elements(l.waiters)
                                   /\ Elements(k.waiters) \subseteq Elements(l.waiters)
    <3>1. CatchOK(k) /\ k \in catches  BY DEF InFlight, PrefixInv, CatchesInv
    <3>2. PICK l : l = [k EXCEPT !.waiters = Append(@, c)]  OBVIOUS
    <3>3. l = [room |-> k.room, epoch |-> k.epoch, waiters |-> Append(k.waiters, c)]
      BY <3>1, <3>2 DEF CatchOK
    <3>4. c \in Elements(l.waiters) /\ Elements(k.waiters) \subseteq Elements(l.waiters)
      BY <3>1, <3>3, AppendHolds DEF CatchOK
    <3>5. l \in catches'  BY <2>1, <3>1, <3>2
    <3> QED BY <3>3, <3>4, <3>5
  <2>3. ASSUME NEW k \in catches, k \notin InFlight(c.room) PROVE k \in catches'
    BY <2>1, <2>3
  <2>4. WaitersStay  BY <2>2, <2>3 DEF WaitersStay
  <2>5. PICK k \in InFlight(c.room) : TRUE  BY <1>2
  <2>6. k.room = c.room /\ k.epoch = epoch  BY DEF InFlight
  <2> QED BY <2>2, <2>4, <2>5, <2>6
<1> QED BY <1>1, <1>2

-----------------------------------------------------------------------------
(* Steps keep what ready promises                                          *)

(* No hydrate loads its snapshot in this step. *)
HydrateHeld == Catching' # {} \/ Ending' # {} => Catching # {} \/ Ending # {}

(* A step that leaves the hydrates where they are. *)
LEMMA LessIsHeld == CatchingLess /\ EndingLess => HydrateHeld
  BY DEF CatchingLess, EndingLess, HydrateHeld

(* A step that shows no ready of its own. *)
LEMMA PromisesStay ==
  ASSUME TypeInv, TypeInv', HydrateInv, LoadedInv, ReadyInv, CoverKept, HydrateHeld,
         UNCHANGED hydrating \/ NoHydrate, ~Active => ~Active', known'.ready = known.ready,
         \/ status' = status
         \/ status'.connection # "ready" /\ status.operation <= status'.operation
  PROVE  LoadedInv' /\ ReadyInv'
<1>1. StoreT'  BY DEF TypeInv
<1>2. status.operation <= status'.operation  BY DEF TypeInv, StoreT
<1>3. LoadedInv'  BY <1>1, <1>2, LoadedStays DEF HydrateHeld
<1>4. ReadyInv'  BY ReadyStays
<1> QED BY <1>3, <1>4

(* Nor one that loses no call that waits. *)
LEMMA PlainPromises ==
  ASSUME PrefixInv, PrefixInv', TypeInv, TypeInv', HydrateInv, LoadedInv, ReadyInv,
         UNCHANGED <<epoch, selected, snapshot, known, hydrating>>, HydrateHeld,
         ShownGrows, WaitersStay, Elements(jobs) \subseteq Elements(jobs'),
         \/ status' = status
         \/ status'.connection # "ready" /\ status.operation <= status'.operation
  PROVE  LoadedInv' /\ ReadyInv'
<1>1. StoreT'  BY DEF TypeInv
<1>2. \A t \in Nat : Covered(t) => Covered(t)'  BY <1>1, CoverStays
<1>3. CoverKept  BY <1>2 DEF CoverKept
<1> QED BY <1>3, PromisesStay DEF Active

(* An error that is shown is shown for its operation or a later one. *)
LEMMA PatchedUp ==
  ASSUME TypeInv, NEW c, CallT(c), status' = Patched(c, "error")
  PROVE  /\ status' = status \/ status'.connection = "error"
         /\ status.operation \in Nat /\ status'.operation \in Nat /\ c.operation \in Nat
         /\ status.operation <= status'.operation
         /\ c.epoch = epoch => c.operation <= status'.operation
<1>1. status.operation \in Nat /\ c.operation \in Nat
  BY DEF TypeInv, StoreT, CallT, Calls
<1>2. CASE IsCurrent(c) /\ c.operation >= status.operation
  <2>1. status' = [connection |-> "error", operation |-> c.operation]
    BY <1>2 DEF Patched
  <2> QED BY <1>1, <1>2, <2>1
<1>3. CASE ~ (IsCurrent(c) /\ c.operation >= status.operation)
  <2>1. status' = status  BY <1>3 DEF Patched
  <2> QED BY <1>1, <1>3, <2>1 DEF IsCurrent
<1> QED BY <1>2, <1>3

(* An element of a sequence is its head or in its tail. *)
LEMMA HeadOrTail ==
  ASSUME NEW s, IsSequence(s), s # <<>>, NEW x \in Elements(s)
  PROVE  x = Head(s) \/ x \in Elements(Tail(s))
<1>1. PICK n \in Nat : /\ DOMAIN s = 1 .. n + 1 /\ DOMAIN Tail(s) = 1 .. n
                       /\ \A i \in 1 .. n : Tail(s)[i] = s[i + 1]
                       /\ Head(s) = s[1]
  BY TailShape
<1>2. PICK i \in 1 .. n + 1 : x = s[i]  BY <1>1 DEF Elements
<1>3. CASE i = 1  BY <1>1, <1>2, <1>3
<1>4. CASE i # 1
  <2>1. PICK j \in 1 .. n : i = j + 1
    <3>1. i - 1 \in 1 .. n /\ i = (i - 1) + 1  BY <1>4
    <3> QED BY <3>1
  <2>2. j \in DOMAIN Tail(s) /\ Tail(s)[j] = x  BY <1>1, <1>2, <2>1
  <2> QED BY <2>2 DEF Elements
<1> QED BY <1>3, <1>4

(* A failure is shown by its continuation, or one of a later operation is. *)
LEMMA HeadGone ==
  ASSUME PrefixInv, PrefixInv', TypeInv, TypeInv',
         UNCHANGED <<selected, snapshot, epoch, catches>>, ShownGrows,
         jobs # <<>>, Elements(Tail(jobs)) \subseteq Elements(jobs'),
         NEW job, job = Head(jobs),
         job.outcome # "ok" /\ job.call.epoch = epoch /\ job.call.kind \in Waiting
           => job.call.kind # "hydrate" /\ job.call.operation <= status'.operation
  PROVE  CoverKept
<1>1. SUFFICES ASSUME NEW t \in Nat, Covered(t), ~ (status'.operation > t)
               PROVE  Covered(t)'
  BY DEF CoverKept
<1>2. StoreT' /\ WaitersStay  BY DEF TypeInv, WaitersStay
<1>3. IsSequence(jobs)  BY DEF PrefixInv, JobsInv
<1>4. job \in Elements(jobs)  BY <1>3, TailElements
<1>5. job.call.operation \in Nat /\ status'.operation \in Nat
  BY <1>2, <1>4 DEF TypeInv, JobsT, JobT, CallT, Calls, StoreT
<1>6. ~ (job.outcome # "ok" /\ Outranks(job.call, t))
  BY <1>1, <1>5 DEF Outranks
<1>7. ASSUME NEW j \in Elements(jobs), j.outcome # "ok", Outranks(j.call, t)
      PROVE  j \in Elements(jobs')
  <2>1. j # job  BY <1>6, <1>7
  <2>2. j \in Elements(Tail(jobs))  BY <1>3, <2>1, HeadOrTail
  <2> QED BY <2>2
<1> QED BY <1>1, <1>2, <1>7, CoverStays

(* A selection covers what was promised: its catch-up is a later call. *)
LEMMA SelectCovers ==
  ASSUME PrefixInv, TypeInv, UNCHANGED epoch, NEW room \in Rooms, Select(room)
  PROVE  CoverKept
<1>1. SUFFICES ASSUME NEW t \in Nat, t <= sequence PROVE Covered(t)'
  BY DEF CoverKept
<1>2. PICK c : c = NewCall("select", room, sequence + 1)  OBVIOUS
<1>3. c = [kind |-> "select", room |-> room, epoch |-> epoch,
           operation |-> sequence + 1, seq |-> 0]
  BY <1>2 DEF NewCall
<1>4. CatchUp(c) /\ selected' = room  BY <1>2 DEF Select
<1>5. PICK l \in catches' : l.room = c.room /\ l.epoch = epoch /\ c \in Elements(l.waiters)
  BY <1>4, CatchUpWaits
<1>6. l \in InFlight(selected)'  BY <1>3, <1>4, <1>5 DEF InFlight
<1>7. sequence \in Nat  BY DEF TypeInv, StoreT
<1>8. Outranks(c, t)'  BY <1>1, <1>3, <1>7 DEF Outranks, Waiting
<1>9. c \in Elements(l.waiters)'  BY <1>5 DEF Elements
<1> QED BY <1>4, <1>6, <1>8, <1>9 DEF Covered

(* A hydrate that starts has loaded nothing, and shows so. *)
LEMMA StartedPromises ==
  ASSUME NEW newEpoch, StartHydrate(newEpoch), Catching' = {}, Ending' = {}
  PROVE  LoadedInv' /\ ReadyInv'
<1>1. status'.connection \in {"reconnecting", "bootstrapping"}  BY DEF StartHydrate
<1> QED BY <1>1 DEF LoadedInv, ReadyInv

(* The hydrate of the epoch ends: ready is shown for its operation alone. *)
LEMMA FinishPromises ==
  ASSUME TypeInv, ReadyInv, UNCHANGED epoch, Catching' = {}, Ending' = {},
         NEW c, CallT(c), Hydrates(c), hydrating = Task(c),
         NEW outcome, NEW rest, FinishHydrate(c, outcome, rest),
         outcome = "ok" => known.ready /\ (Covered(c.operation)' \/ status.operation > c.operation)
  PROVE  LoadedInv' /\ ReadyInv'
<1>1. LoadedInv'  BY DEF LoadedInv
<1>2. SUFFICES ASSUME status'.connection = "ready"
               PROVE  known'.ready /\ ~Active' /\ Covered(status.operation)'
  BY <1>1 DEF ReadyInv
<1>3. /\ c.operation >= 1 /\ c.operation \in Nat /\ c.epoch = epoch
      /\ status.operation \in Nat /\ StoreT
  BY DEF CallT, Hydrates, Calls, TypeInv, StoreT
<1>4. Active  BY <1>3 DEF Active, Task, NoTask
<1>5. status.connection # "ready"  BY <1>4 DEF ReadyInv
<1>6. /\ outcome = "ok" /\ c.operation >= status.operation
      /\ status' = [connection |-> "ready", operation |-> c.operation]
  BY <1>2, <1>5 DEF FinishHydrate, Patched
<1>7. known'.ready  BY <1>3, <1>6, FinishHydrateKnown
<1>8. ~Active'  BY DEF FinishHydrate, Task, Active, NoTask
<1>9. ~ (status.operation > c.operation)  BY <1>3, <1>6
<1>10. PICK t : t = c.operation  OBVIOUS
<1>11. Covered(t)' /\ status'.operation = t  BY <1>6, <1>9, <1>10
<1> QED BY <1>7, <1>8, <1>11

(* What is no hydrate of the epoch ends without a trace. *)
LEMMA FinishOtherPromises ==
  ASSUME TypeInv, TypeInv', HydrateInv, LoadedInv, ReadyInv, CoverKept, HydrateHeld,
         UNCHANGED epoch, NEW c, c.kind = "hydrate", ~Hydrates(c),
         NEW outcome, NEW rest, FinishHydrate(c, outcome, rest)
  PROVE  LoadedInv' /\ ReadyInv'
<1>1. UNCHANGED hydrating \/ NoHydrate  BY FinishOther
<1>2. hydrating' = hydrating \/ hydrating' = NoTask  BY DEF FinishHydrate
<1>3. ~Active => ~Active'  BY <1>2 DEF Active
<1>4. known'.ready = known.ready  BY FinishHydrateKnown DEF TypeInv
<1>5. status' = status  BY DEF FinishHydrate, Patched, Hydrates, IsCurrent
<1> QED BY <1>1, <1>3, <1>4, <1>5, PromisesStay

(* The continuation of a hydrate. *)
LEMMA HydrateContinuesPromises ==
  ASSUME PrefixInv, PrefixInv', TypeInv, TypeInv', HydrateInv, LoadedInv, ReadyInv,
         UNCHANGED <<epoch, snapshot>>, jobs # <<>>,
         NEW job, job = Head(jobs), HydrateContinues(job)
  PROVE  LoadedInv' /\ ReadyInv'
<1>1. PICK c, outcome, rest : c = job.call /\ outcome = job.outcome /\ rest = Tail(jobs)
  OBVIOUS
<1>2. /\ FinishHydrate(c, outcome, rest) /\ c.kind = "hydrate"
      /\ UNCHANGED <<selected, shown, catches>>
  BY <1>1 DEF HydrateContinues
<1>3. IsSequence(jobs) /\ Once(jobs, Ending)
  BY DEF PrefixInv, JobsInv, HydrateInv, EndingInv
<1>4. IsSequence(rest) /\ Elements(rest) \subseteq Elements(jobs) /\ job \in Elements(jobs)
  BY <1>1, <1>3, TailElements
<1>5. CallT(c)  BY <1>1, <1>4 DEF TypeInv, JobsT, JobT
<1>6. /\ Once(rest, Ending)
      /\ job \in Ending => \A x \in Elements(rest) : x \notin Ending
  <2>1. PICK S : S = Ending  OBVIOUS
  <2> QED BY <1>1, <1>3, <2>1, OnceTail
<1>7. EndingLess /\ \A j \in Ending' : j \in Elements(rest)
  BY <1>2, <1>4, <1>6, FinishEnding
<1>8. CatchingLess  BY <1>2, PlacesLess
<1>9. Elements(rest) \subseteq Elements(jobs')
  <2>1. jobs' = rest \/ \E e : jobs' = Append(rest, e)  BY <1>2 DEF FinishHydrate
  <2>2. ASSUME NEW e, jobs' = Append(rest, e) PROVE Elements(rest) \subseteq Elements(jobs')
    BY <1>4, <2>2, AppendHolds
  <2> QED BY <2>1, <2>2
<1>10. ShownGrows /\ WaitersStay  BY <1>2 DEF ShownGrows, WaitersStay
<1>11. CASE Hydrates(c)
  <2>1. job \in Ending  BY <1>1, <1>4, <1>11 DEF Ending
  <2>2. Catching = {} /\ hydrating = Task(c)
    BY <1>1, <2>1 DEF HydrateInv, OnePlace, EndingInv
  <2>3. Catching' = {} /\ Ending' = {}
    BY <1>6, <1>7, <1>8, <2>1, <2>2 DEF EndingLess, CatchingLess
  <2>4. ASSUME outcome = "ok"
        PROVE  known.ready /\ (Covered(c.operation)' \/ status.operation > c.operation)
    <3>1. PICK t : t = c.operation  OBVIOUS
    <3>2. t = hydrating.operation /\ t \in Nat
      BY <1>5, <2>2, <3>1 DEF Task, CallT, Calls
    <3>3. known.ready /\ (Covered(t) \/ status.operation > t)
      BY <2>1, <3>2 DEF LoadedInv
    <3>4. ASSUME Covered(t) PROVE Covered(t)'
      <4>1. ASSUME NEW j \in Elements(jobs), j.outcome # "ok", Outranks(j.call, t)
            PROVE  j \in Elements(jobs')
        <5>1. j # job  BY <1>1, <2>4, <4>1
        <5>2. j \in Elements(rest)  BY <1>1, <1>3, <5>1, HeadOrTail
        <5> QED BY <1>9, <5>2
      <4>2. StoreT'  BY DEF TypeInv
      <4> QED BY <1>2, <1>10, <3>2, <3>4, <4>1, <4>2, CoverStays
    <3> QED BY <3>1, <3>3, <3>4
  <2> QED BY <1>2, <1>5, <1>11, <2>2, <2>3, <2>4, FinishPromises
<1>12. CASE ~Hydrates(c)
  <2>1. job.call.epoch # epoch  BY <1>1, <1>2, <1>12 DEF Hydrates
  <2>2. CoverKept  BY <1>1, <1>2, <1>9, <1>10, <2>1, HeadGone
  <2>3. HydrateHeld  BY <1>7, <1>8, LessIsHeld
  <2> QED BY <1>2, <1>12, <2>2, <2>3, FinishOtherPromises
<1> QED BY <1>11, <1>12

(* The continuations and the refreshes. *)
LEMMA RunJobPromises ==
  ASSUME PrefixInv, PrefixInv', TypeInv, TypeInv', HydrateInv, HydrateInv',
         LoadedInv, ReadyInv, RunJob
  PROVE  LoadedInv' /\ ReadyInv'
<1>1. UNCHANGED <<epoch, snapshot, channel>>  BY DEF RunJob
<1>2. CASE Continue
  <2>1. PICK job : job = Head(jobs)  OBVIOUS
  <2>2. jobs # <<>> /\ IsSequence(jobs)  BY <1>2 DEF Continue, PrefixInv, JobsInv
  <2>3. job \in Elements(jobs)  BY <2>1, <2>2, TailElements
  <2>4. CallT(job.call)  BY <2>3 DEF TypeInv, JobsT, JobT
  <2>5. ASSUME CoverKept, HydrateHeld, UNCHANGED <<known, hydrating>>,
               \/ status' = status
               \/ status'.connection # "ready" /\ status.operation <= status'.operation
        PROVE  LoadedInv' /\ ReadyInv'
    BY <1>1, <2>5, PromisesStay DEF Active
  <2>6. ASSUME UNCHANGED <<selected, catches, known, hydrating>>, jobs' = Tail(jobs), ShownGrows,
               \/ status' = status
               \/ status'.connection # "ready" /\ status.operation <= status'.operation,
               job.outcome # "ok" /\ job.call.epoch = epoch /\ job.call.kind \in Waiting
                 => job.call.kind # "hydrate" /\ job.call.operation <= status'.operation
        PROVE  LoadedInv' /\ ReadyInv'
    <3>1. CoverKept  BY <1>1, <2>1, <2>2, <2>6, HeadGone
    <3>2. CatchingLess /\ EndingLess  BY <1>1, <2>2, <2>6, PlacesLess
    <3> QED BY <2>5, <2>6, <3>1, <3>2, LessIsHeld
  <2>7. CASE HydrateContinues(job)
    BY <1>1, <2>1, <2>2, <2>7, HydrateContinuesPromises
  <2>8. CASE SelectContinues(job)
    <3>1. /\ UNCHANGED <<selected, catches, known, hydrating, shown>> /\ jobs' = Tail(jobs)
          /\ job.call.kind = "select"
      BY <2>8 DEF SelectContinues
    <3>2. ShownGrows  BY <3>1 DEF ShownGrows
    <3>3. CASE job.outcome = "ok"
      <4>1. status' = status  BY <2>8, <3>3 DEF SelectContinues
      <4> QED BY <2>6, <3>1, <3>2, <3>3, <4>1
    <3>4. CASE job.outcome # "ok"
      <4>1. PICK c : c = job.call  OBVIOUS
      <4>2. status' = Patched(c, "error")  BY <2>8, <3>4, <4>1 DEF SelectContinues
      <4>3. /\ status' = status \/ status'.connection = "error"
            /\ status.operation <= status'.operation
            /\ c.epoch = epoch => c.operation <= status'.operation
        BY <2>4, <4>1, <4>2, PatchedUp
      <4> QED BY <2>6, <3>1, <3>2, <4>1, <4>3
    <3> QED BY <3>3, <3>4
  <2>9. CASE EventContinues(job)
    <3>1. PICK c : c = job.call  OBVIOUS
    <3>2. /\ UNCHANGED <<selected, catches, known, hydrating>> /\ jobs' = Tail(jobs)
          /\ c.kind \in {"live", "post"}
      BY <2>9, <3>1 DEF EventContinues
    <3>3. CASE ~IsCurrent(c) /\ UNCHANGED <<status, shown>>
      <4>1. ShownGrows  BY <3>3 DEF ShownGrows
      <4> QED BY <2>6, <3>1, <3>2, <3>3, <4>1 DEF IsCurrent
    <3>4. CASE status' = Patched(c, "error") /\ UNCHANGED shown
      <4>1. ShownGrows  BY <3>4 DEF ShownGrows
      <4>2. /\ status' = status \/ status'.connection = "error"
            /\ status.operation <= status'.operation
            /\ c.epoch = epoch => c.operation <= status'.operation
        BY <2>4, <3>1, <3>4, PatchedUp
      <4> QED BY <2>6, <3>1, <3>2, <4>1, <4>2
    <3>5. CASE /\ job.outcome = "ok" /\ UNCHANGED status
               /\ shown' = [shown EXCEPT ![c.room] = @ \cup Fresh(c.room, {c.seq})]
      <4>1. ShownGrows
        <5>1. shown \in [Rooms -> SUBSET Nat]  BY DEF PrefixInv, ShownInv
        <5> QED BY <3>5, <5>1 DEF ShownGrows
      <4> QED BY <2>6, <3>1, <3>2, <3>5, <4>1
    <3> QED BY <2>9, <3>1, <3>3, <3>4, <3>5 DEF EventContinues
  <2>10. CASE MutationContinues(job)
    <3>1. /\ UNCHANGED <<status, known, hydrating, shown>> /\ jobs' = Tail(jobs)
          /\ job.call.kind \in {"create", "remove"}
      BY <2>10 DEF MutationContinues
    <3>2. ShownGrows  BY <3>1 DEF ShownGrows
    <3>3. CASE UNCHANGED <<selected, catches>>  BY <2>6, <3>1, <3>2, <3>3 DEF Waiting
    <3>4. CASE job.call.kind = "create" /\ Select(job.call.room)
      <4>1. PICK room : room = job.call.room  OBVIOUS
      <4>2. room \in Rooms
        <5>1. JobOK(job)  BY <2>3 DEF PrefixInv, JobsInv
        <5> QED BY <3>4, <4>1, <5>1 DEF JobOK, WaiterOK, CallOK
      <4>3. CoverKept  BY <1>1, <3>4, <4>1, <4>2, SelectCovers
      <4>4. PICK c : c = NewCall("select", room, sequence + 1)  OBVIOUS
      <4>5. c.kind # "hydrate" /\ CatchUp(c)  BY <3>4, <4>1, <4>4 DEF Select, NewCall
      <4>6. CatchingLess  BY <1>1, <4>5, CatchUpOther
      <4>7. EndingLess  BY <1>1, <2>2, <3>1, PlacesLess
      <4> QED BY <2>5, <3>1, <4>3, <4>6, <4>7, LessIsHeld
    <3> QED BY <2>10, <3>3, <3>4 DEF MutationContinues
  <2> QED BY <1>2, <2>1, <2>7, <2>8, <2>9, <2>10 DEF Continue
<1>3. CASE StartRefresh
  <2>1. StartHydrate(epoch) /\ ~Active /\ UNCHANGED <<catches, jobs>>
    BY <1>3 DEF StartRefresh, RefreshReady
  <2>2. NoHydrate  BY <2>1, HydrateIsActive
  <2>3. CatchingLess /\ EndingLess  BY <1>1, <2>1, PlacesLess
  <2>4. Catching' = {} /\ Ending' = {}
    BY <2>2, <2>3 DEF NoHydrate, CatchingLess, EndingLess
  <2>5. PICK e : e = epoch  OBVIOUS
  <2> QED BY <2>1, <2>4, <2>5, StartedPromises
<1> QED BY <1>2, <1>3 DEF RunJob

(* The worker's side touches nothing of it. *)
LEMMA ServerPromises ==
  ASSUME PrefixInv, PrefixInv', TypeInv, TypeInv', HydrateInv, LoadedInv, ReadyInv, ServerStep
  PROVE  LoadedInv' /\ ReadyInv'
<1>1. UNCHANGED <<epoch, sequence, status, known, snapshot, selected, shown, catches,
                  hydrating, jobs>>
  BY DEF ServerStep
<1>2. CatchingLess /\ EndingLess  BY <1>1, PlacesLess
<1>3. ShownGrows /\ WaitersStay  BY <1>1 DEF ShownGrows, WaitersStay
<1> QED BY <1>1, <1>2, <1>3, LessIsHeld, PlainPromises

(* The user's calls: a selection is the only one that bears on it. *)
LEMMA UserCallPromises ==
  ASSUME PrefixInv, PrefixInv', TypeInv, TypeInv', HydrateInv, LoadedInv, ReadyInv, UserCall
  PROVE  LoadedInv' /\ ReadyInv'
<1>1. UNCHANGED <<epoch, status, known, snapshot, shown, hydrating, jobs>>
  BY DEF UserCall, SelectRoom, CreateRoom, PostMessage, RemoveCleanup
<1>2. EndingLess  BY <1>1, PlacesLess
<1>3. ASSUME CoverKept, CatchingLess PROVE LoadedInv' /\ ReadyInv'
  BY <1>1, <1>2, <1>3, LessIsHeld, PromisesStay DEF Active
<1>4. ASSUME NEW room \in Rooms, SelectRoom(room) PROVE LoadedInv' /\ ReadyInv'
  <2>1. CoverKept  BY <1>1, <1>4, SelectCovers DEF SelectRoom
  <2>2. PICK c : c = NewCall("select", room, sequence + 1)  OBVIOUS
  <2>3. c.kind # "hydrate" /\ CatchUp(c)  BY <1>4, <2>2 DEF SelectRoom, Select, NewCall
  <2>4. CatchingLess  BY <1>1, <2>3, CatchUpOther
  <2> QED BY <1>3, <2>1, <2>4
<1>5. CASE UNCHANGED <<selected, catches>>
  <2>1. ShownGrows /\ WaitersStay  BY <1>1, <1>5 DEF ShownGrows, WaitersStay
  <2>2. CatchingLess  BY <1>1, <1>5, PlacesLess
  <2> QED BY <1>1, <1>2, <1>5, <2>1, <2>2, LessIsHeld, PlainPromises
<1> QED BY <1>4, <1>5 DEF UserCall, CreateRoom, PostMessage, RemoveCleanup

(* At first nothing is loaded and nothing shown. *)
LEMMA InitPromises == Init => LoadedInv /\ ReadyInv
<1>1. SUFFICES ASSUME Init PROVE LoadedInv /\ ReadyInv  OBVIOUS
<1>2. Catching = {} /\ Ending = {}  BY <1>1, EmptyElements DEF Init, Catching, Ending
<1>3. status.connection # "ready"  BY <1>1 DEF Init
<1> QED BY <1>2, <1>3 DEF LoadedInv, ReadyInv

(* The answer to a hydrate. *)
LEMMA SnapshotPromises ==
  ASSUME PrefixInv, PrefixInv', TypeInv, TypeInv', OrderInv, HydrateInv,
         LoadedInv, ReadyInv, channel # <<>>, UNCHANGED epoch,
         NEW m, m = Head(channel), m.type = "reply", ReplyOK(m), ReplyT(m), ReceiveSnapshot(m)
  PROVE  LoadedInv' /\ ReadyInv'
<1>1. IsSequence(channel) /\ IsSequence(jobs) /\ Once(jobs, Ending)
  BY DEF PrefixInv, ChannelInv, JobsInv, HydrateInv, EndingInv
<1>2. m.call.kind = "hydrate" /\ UNCHANGED shown /\ CallT(m.call)
  BY DEF ReceiveSnapshot, ReplyT
<1>3. ShownGrows  BY <1>2 DEF ShownGrows
<1>4. ASSUME Hydrates(m.call)
      PROVE  m \in Answered /\ Catching = {} /\ Ending = {} /\ hydrating = Task(m.call)
  <2>1. m \in Answered  BY <1>1, <1>4, TailElements DEF Answered
  <2> QED BY <2>1 DEF HydrateInv, OnePlace, AnsweredInv
<1>5. ASSUME NEW outcome, FinishHydrate(m.call, outcome, jobs),
             Hydrates(m.call) => outcome # "ok", UNCHANGED <<snapshot, selected, catches>>
      PROVE  LoadedInv' /\ ReadyInv'
  <2>1. PICK c, rest : c = m.call /\ rest = jobs  OBVIOUS
  <2>2. FinishHydrate(c, outcome, rest)  BY <1>5, <2>1
  <2>3. EndingLess  BY <1>1, <2>1, <2>2, FinishEnding
  <2>4. CatchingLess  BY <1>5, PlacesLess
  <2>5. CASE Hydrates(c)
    <3>1. Catching' = {} /\ Ending' = {} /\ hydrating = Task(c) /\ outcome # "ok"
      BY <1>4, <1>5, <2>1, <2>3, <2>4, <2>5 DEF CatchingLess, EndingLess
    <3> QED BY <1>2, <2>1, <2>2, <2>5, <3>1, FinishPromises
  <2>6. CASE ~Hydrates(c)
    <3>1. Elements(jobs) \subseteq Elements(jobs')
      <4>1. jobs' = rest \/ \E e : jobs' = Append(rest, e)  BY <2>2 DEF FinishHydrate
      <4>2. ASSUME NEW e, jobs' = Append(jobs, e) PROVE Elements(jobs) \subseteq Elements(jobs')
        BY <1>1, <4>2, AppendHolds
      <4> QED BY <2>1, <4>1, <4>2
    <3>2. StoreT' /\ WaitersStay  BY <1>5 DEF TypeInv, WaitersStay
    <3>3. \A t \in Nat : Covered(t) => Covered(t)'
      BY <1>3, <1>5, <3>1, <3>2, CoverStays
    <3>4. CoverKept  BY <3>3 DEF CoverKept
    <3>5. HydrateHeld  BY <2>3, <2>4, LessIsHeld
    <3> QED BY <1>2, <2>1, <2>2, <2>6, <3>4, <3>5, FinishOtherPromises
  <2> QED BY <2>5, <2>6
<1>6. ASSUME NEW room, ~Failed(m), IsCurrent(m.call),
             known' = IF known.generation # 0 THEN known
                      ELSE [known EXCEPT !.generation = m.generation, !.ready = TRUE],
             selected' = room, CatchUp([m.call EXCEPT !.room = room]),
             UNCHANGED <<status, hydrating>>
      PROVE  LoadedInv' /\ ReadyInv'
  <2>1. Hydrates(m.call)  BY <1>2, <1>6 DEF Hydrates, IsCurrent
  <2>2. m \in Answered /\ hydrating = Task(m.call)  BY <1>4, <2>1
  <2>3. Active  BY <2>2, HydrateIsActive DEF NoHydrate
  <2>4. status'.connection # "ready"  BY <1>6, <2>3 DEF ReadyInv
  <2>5. known'.ready
    <3>1. CASE known.generation = 0
      <4>1. known' = [known EXCEPT !.generation = m.generation, !.ready = TRUE]
        BY <1>6, <3>1
      <4> QED BY <4>1 DEF TypeInv, StoreT
    <3>2. CASE known.generation # 0
      <4>1. SUFFICES ASSUME ~known.ready PROVE FALSE  BY <1>6, <3>2
      <4>2. SilentAfter(0)  BY <3>2, <4>1 DEF OrderInv
      <4>3. Refused(m)  BY <1>1, <4>2, SilentHead
      <4> QED BY <1>6, <4>3 DEF Refused, Failed
    <3> QED BY <3>1, <3>2
  <2>6. PICK c : c = [m.call EXCEPT !.room = room]  OBVIOUS
  <2>7. c = [kind |-> "hydrate", room |-> room, epoch |-> epoch,
             operation |-> m.call.operation, seq |-> m.call.seq]
    BY <1>2, <1>6, <2>6 DEF ReplyOK, CallOK, IsCurrent
  <2>8. PICK l \in catches' : l.room = c.room /\ l.epoch = epoch /\ c \in Elements(l.waiters)
    BY <1>6, <2>6, CatchUpWaits
  <2>9. l \in InFlight(selected)' /\ c \in Elements(l.waiters)'
    BY <1>6, <2>7, <2>8 DEF InFlight, Elements
  <2>10. PICK t : t = hydrating.operation  OBVIOUS
  <2>11. t = c.operation /\ t \in Nat
    BY <1>2, <2>2, <2>7, <2>10 DEF Task, CallT, Calls
  <2>12. Outranks(c, t)'  BY <2>7, <2>11 DEF Outranks, Waiting
  <2>13. selected' \in Rooms
    <3>1. c \in HydratesOf(l)'  BY <2>7, <2>9 DEF HydratesOf, Hydrates
    <3>2. CatchOK(l)'  BY <2>8 DEF PrefixInv, CatchesInv
    <3>3. l.room \in Rooms  BY <3>2 DEF CatchOK
    <3> QED BY <1>6, <2>7, <2>8, <3>3
  <2>14. Covered(t)'  BY <2>9, <2>12, <2>13 DEF Covered
  <2>15. t = hydrating'.operation  BY <1>6, <2>10
  <2>16. LoadedInv'  BY <2>5, <2>14, <2>15 DEF LoadedInv
  <2> QED BY <2>4, <2>16 DEF ReadyInv
<1>7. (Failed(m) \/ ~IsCurrent(m.call)) /\ Hydrates(m.call)
        => (IF Failed(m) THEN "failed" ELSE "ok") # "ok"
  BY DEF Hydrates, IsCurrent
<1> QED BY <1>5, <1>6, <1>7 DEF ReceiveSnapshot

(* The calls that waited for a replay go on with its outcome. *)
LEMMA ReplayEndsPromises ==
  ASSUME PrefixInv, PrefixInv', TypeInv, TypeInv', HydrateInv, LoadedInv, ReadyInv,
         UNCHANGED <<epoch, status, known, snapshot, selected, hydrating>>,
         jobs = <<>>, ShownGrows, NEW m, NEW outcome, ReplayEnds(m, outcome),
         outcome = "ok" /\ m.call.epoch = epoch
           => snapshot[m.call.room] <= Cursor(m.call.room)'
  PROVE  LoadedInv' /\ ReadyInv'
<1>1. PICK k \in catches :
        /\ k.room = m.call.room /\ k.epoch = m.call.epoch /\ catches' = catches \ {k}
        /\ jobs' = [i \in DOMAIN k.waiters |-> [call |-> k.waiters[i], outcome |-> outcome]]
  BY DEF ReplayEnds
<1>2. CatchingLess  BY <1>1, PlacesLess
<1>3. HydrateHeld
  <2>1. ASSUME NEW j \in Ending' PROVE k \in Catching
    <3>1. PICK i \in DOMAIN k.waiters : j = [call |-> k.waiters[i], outcome |-> outcome]
      BY <1>1, <2>1 DEF Ending, Elements
    <3>2. Hydrates(k.waiters[i])  BY <2>1, <3>1 DEF Ending, Hydrates
    <3> QED BY <3>2 DEF Catching, HydratesOf, Elements
  <2> QED BY <1>2, <2>1 DEF CatchingLess, HydrateHeld
<1>4. SUFFICES CoverKept  BY <1>3, PromisesStay DEF Active
<1>5. SUFFICES ASSUME NEW t \in Nat, Covered(t) PROVE Covered(t)'
  BY DEF CoverKept
<1>6. selected' \in Rooms /\ selected \in Rooms  BY <1>5 DEF Covered
<1>7. CASE snapshot[selected] <= Cursor(selected)
  <2>1. snapshot'[selected'] <= Cursor(selected)'  BY <1>6, <1>7, ShownCovers
  <2> QED BY <1>6, <2>1 DEF Covered
<1>8. CASE \E l \in InFlight(selected) : \E c \in Elements(l.waiters) : Outranks(c, t)
  <2>1. PICK l \in InFlight(selected) : \E c \in Elements(l.waiters) : Outranks(c, t)
    BY <1>8
  <2>2. PICK c \in Elements(l.waiters) : Outranks(c, t)  BY <2>1
  <2>3. Outranks(c, t)'  BY <2>2 DEF Outranks, Waiting
  <2>4. l \in catches /\ l.room = selected /\ l.epoch = epoch  BY DEF InFlight
  <2>5. CASE l # k
    <3>1. l \in InFlight(selected)'  BY <1>1, <2>4, <2>5 DEF InFlight
    <3>2. c \in Elements(l.waiters)'  BY <2>2 DEF Elements
    <3> QED BY <1>6, <2>3, <3>1, <3>2 DEF Covered
  <2>6. CASE l = k /\ outcome = "ok"
    <3>1. m.call.epoch = epoch /\ m.call.room = selected  BY <1>1, <2>4, <2>6
    <3>2. PICK room : room = m.call.room  OBVIOUS
    <3>3. snapshot[room] <= Cursor(room)' /\ room = selected'  BY <2>6, <3>1, <3>2
    <3>4. snapshot'[selected'] <= Cursor(selected)'  BY <3>3
    <3> QED BY <1>6, <3>4 DEF Covered
  <2>7. CASE l = k /\ outcome # "ok"
    <3>1. PICK i \in DOMAIN k.waiters : c = k.waiters[i]  BY <2>2, <2>7 DEF Elements
    <3>2. PICK j : j = [call |-> c, outcome |-> outcome]  OBVIOUS
    <3>3. i \in DOMAIN jobs' /\ jobs'[i] = j  BY <1>1, <3>1, <3>2
    <3>4. j \in Elements(jobs)'  BY <3>3 DEF Elements
    <3>5. j.outcome # "ok" /\ Outranks(j.call, t)'  BY <2>3, <2>7, <3>2
    <3> QED BY <1>6, <3>4, <3>5 DEF Covered
  <2> QED BY <2>5, <2>6, <2>7
<1>9. ~ \E j \in Elements(jobs) : j.outcome # "ok" /\ Outranks(j.call, t)
  BY EmptyElements
<1> QED BY <1>5, <1>7, <1>8, <1>9 DEF Covered

(* A page of a replay. *)
LEMMA PagePromises ==
  ASSUME PrefixInv, PrefixInv', TypeInv, TypeInv', HydrateInv, LoadedInv, ReadyInv,
         jobs = <<>>, UNCHANGED epoch, NEW m, ReplyOK(m), ReceivePage(m)
  PROVE  LoadedInv' /\ ReadyInv'
<1>1. /\ UNCHANGED <<status, known, snapshot, selected, hydrating>>
      /\ m.call.kind = "replay"
  BY DEF ReceivePage
<1>2. ASSUME NEW outcome, ReplayEnds(m, outcome), UNCHANGED shown,
             outcome # "ok" \/ ~IsCurrent(m.call)
      PROVE  LoadedInv' /\ ReadyInv'
  <2>1. ShownGrows  BY <1>2 DEF ShownGrows
  <2> QED BY <1>1, <1>2, <2>1, ReplayEndsPromises DEF IsCurrent
<1>3. CASE AcceptPage(m)
  <2>1. PICK room, fresh : room = m.call.room /\ fresh = Fresh(room, m.data.events)
    OBVIOUS
  <2>2. PICK tail : tail = Greatest(shown[room] \cup fresh)  OBVIOUS
  <2>3. room \in Rooms /\ shown \in [Rooms -> SUBSET Nat]
    BY <1>1, <2>1 DEF ReplyOK, CallOK, PrefixInv, ShownInv
  <2>4. shown' = [shown EXCEPT ![room] = @ \cup fresh]  BY <1>3, <2>1 DEF AcceptPage
  <2>5. ShownGrows  BY <2>3, <2>4 DEF ShownGrows
  <2>6. Cursor(room)' = tail  BY <2>2, <2>3, <2>4 DEF Cursor
  <2>7. CASE UNCHANGED <<catches, jobs>>
    <3>1. WaitersStay  BY <2>7 DEF WaitersStay
    <3>2. CatchingLess /\ EndingLess  BY <2>7, PlacesLess
    <3> QED BY <1>1, <2>5, <2>7, <3>1, <3>2, LessIsHeld, PlainPromises
  <2>8. CASE ReplayEnds(m, IF NeedsMore(m, tail) THEN "error" ELSE "ok")
    <3>1. PICK outcome : outcome = IF NeedsMore(m, tail) THEN "error" ELSE "ok"
      OBVIOUS
    <3>2. ASSUME outcome = "ok" PROVE snapshot[m.call.room] <= Cursor(m.call.room)'
      <4>1. ~NeedsMore(m, tail)  BY <3>1, <3>2
      <4>2. ~ (tail < snapshot[room])  BY <2>1, <4>1 DEF NeedsMore
      <4>3. snapshot[room] \in Nat
        BY <2>3, TimelineAssumption DEF TypeInv, StoreT, TimelineAssumption
      <4>4. tail \in Nat  BY <2>3, <2>5, <2>6, CursorGrows DEF ShownGrows
      <4>5. snapshot[room] <= Cursor(room)'  BY <2>6, <4>2, <4>3, <4>4
      <4> QED BY <2>1, <4>5
    <3> QED BY <1>1, <2>5, <2>8, <3>1, <3>2, ReplayEndsPromises
  <2> QED BY <1>3, <2>1, <2>2, <2>7, <2>8 DEF AcceptPage
<1> QED BY <1>2, <1>3 DEF ReceivePage

(* The answer to a message the user posted. *)
LEMMA PostedPromises ==
  ASSUME PrefixInv, PrefixInv', TypeInv, TypeInv', HydrateInv, LoadedInv, ReadyInv,
         UNCHANGED epoch, NEW m, ReplyOK(m), ReplyT(m), ReceivePosted(m)
  PROVE  LoadedInv' /\ ReadyInv'
<1>1. /\ UNCHANGED <<known, snapshot, selected, hydrating, shown>> /\ m.call.kind = "post"
      /\ CallT(m.call) /\ IsSequence(jobs)
  BY DEF ReceivePosted, ReplyT, PrefixInv, JobsInv
<1>2. ShownGrows  BY <1>1 DEF ShownGrows
<1>3. CASE UNCHANGED <<catches, jobs>>
  <2>1. WaitersStay  BY <1>3 DEF WaitersStay
  <2>2. HydrateHeld  BY <1>3, PlacesLess, LessIsHeld
  <2>3. \/ status' = status
        \/ status'.connection # "ready" /\ status.operation <= status'.operation
    <3>1. PICK c : c = m.call  OBVIOUS
    <3>2. status' = status \/ status' = Patched(c, "error")  BY <3>1 DEF ReceivePosted
    <3> QED BY <1>1, <3>1, <3>2, PatchedUp
  <2> QED BY <1>1, <1>2, <1>3, <2>1, <2>2, <2>3, PlainPromises
<1>4. PICK c : c = [m.call EXCEPT !.seq = m.data]  OBVIOUS
<1>5. c.kind = "post"  BY <1>1, <1>4 DEF ReplyOK, CallOK
<1>6. CASE CatchUp(c) /\ UNCHANGED <<jobs, status>>
  <2>1. WaitersStay  BY <1>6, CatchUpWaits
  <2>2. CatchingLess  BY <1>5, <1>6, CatchUpOther
  <2>3. EndingLess  BY <1>6, PlacesLess
  <2> QED BY <1>1, <1>2, <1>6, <2>1, <2>2, <2>3, LessIsHeld, PlainPromises
<1>7. CASE /\ jobs' = Append(jobs, [call |-> c, outcome |-> "ok"])
           /\ UNCHANGED <<catches, status>>
  <2>1. PICK j : j = [call |-> c, outcome |-> "ok"]  OBVIOUS
  <2>2. Elements(jobs) \subseteq Elements(jobs')  BY <1>1, <1>7, <2>1, AppendHolds
  <2>3. \A x \in Elements(jobs') : x \in Elements(jobs) \/ x = j
    BY <1>1, <1>7, <2>1, AppendElements
  <2>4. Ending' \subseteq Ending  BY <1>5, <2>1, <2>3 DEF Ending, Hydrates
  <2>5. CatchingLess  BY <1>7, PlacesLess
  <2>6. HydrateHeld  BY <2>4, <2>5 DEF HydrateHeld, CatchingLess
  <2>7. WaitersStay  BY <1>7 DEF WaitersStay
  <2> QED BY <1>1, <1>2, <1>7, <2>2, <2>6, <2>7, PlainPromises
<1> QED BY <1>3, <1>4, <1>6, <1>7 DEF ReceivePosted

(* What the bridge hands on of the worker's life. *)
LEMMA EventPromises ==
  ASSUME PrefixInv, PrefixInv', TypeInv, TypeInv', HydrateInv, LoadedInv, ReadyInv,
         Elements(channel') \subseteq Elements(channel), NEW m, ReceiveEvent(m)
  PROVE  LoadedInv' /\ ReadyInv'
<1>1. UNCHANGED <<snapshot, selected, jobs>>  BY DEF ReceiveEvent
<1>2. ASSUME UNCHANGED <<epoch, known, hydrating, status>>, ShownGrows, WaitersStay,
             CatchingLess
      PROVE  LoadedInv' /\ ReadyInv'
  <2>1. EndingLess  BY <1>1, <1>2, PlacesLess
  <2> QED BY <1>1, <1>2, <2>1, LessIsHeld, PlainPromises
<1>3. ASSUME UNCHANGED <<epoch, known, hydrating, status, catches>>, ShownGrows
      PROVE  LoadedInv' /\ ReadyInv'
  <2>1. WaitersStay  BY <1>3 DEF WaitersStay
  <2>2. CatchingLess  BY <1>3, PlacesLess
  <2> QED BY <1>2, <1>3, <2>1, <2>2
<1>4. CASE ReceiveRoomEvent(m)
  <2>1. UNCHANGED <<epoch, known, hydrating, status>>  BY <1>4 DEF ReceiveRoomEvent
  <2>2. CASE /\ UNCHANGED catches
             /\ shown' = shown \/ shown' = [shown EXCEPT ![m.room] = @ \cup {m.seq}]
    <3>1. shown \in [Rooms -> SUBSET Nat]  BY DEF PrefixInv, ShownInv
    <3>2. ShownGrows  BY <2>2, <3>1 DEF ShownGrows
    <3> QED BY <1>3, <2>1, <2>2, <3>2
  <2>3. CASE /\ UNCHANGED shown
             /\ CatchUp([NewCall("live", m.room, sequence + 1) EXCEPT !.seq = m.seq])
    <3>1. PICK c : c = [NewCall("live", m.room, sequence + 1) EXCEPT !.seq = m.seq]
      OBVIOUS
    <3>2. c.kind # "hydrate" /\ CatchUp(c)  BY <2>3, <3>1 DEF NewCall
    <3>3. CatchingLess  BY <2>1, <3>2, CatchUpOther
    <3>4. ShownGrows /\ WaitersStay  BY <2>1, <2>3, <3>2, CatchUpWaits DEF ShownGrows
    <3> QED BY <1>2, <2>1, <3>3, <3>4
  <2> QED BY <1>4, <2>2, <2>3 DEF ReceiveRoomEvent
<1>5. CASE ReceiveDisconnected(m)
  <2>1. UNCHANGED <<shown, catches, hydrating>>  BY <1>5 DEF ReceiveDisconnected
  <2>2. CASE UNCHANGED <<epoch, known, status>>
    <3>1. ShownGrows  BY <2>1 DEF ShownGrows
    <3> QED BY <1>3, <2>1, <2>2, <3>1
  <2>3. CASE epoch' = epoch + 1 /\ status'.connection = "reconnecting"
    <3>1. Catching' = {} /\ Ending' = {}  BY <1>1, <2>1, <2>3, EpochEnds
    <3> QED BY <2>3, <3>1 DEF LoadedInv, ReadyInv
  <2>4. \/ UNCHANGED <<epoch, known, status>>
        \/ epoch' = epoch + 1 /\ status'.connection = "reconnecting"
    BY <1>5 DEF ReceiveDisconnected
  <2> QED BY <2>2, <2>3, <2>4
<1>6. CASE ReceiveReady(m)
  <2>1. UNCHANGED <<shown, catches>>  BY <1>6 DEF ReceiveReady
  <2>2. epoch \in Nat /\ hydrating.epoch \in Nat /\ hydrating.epoch <= epoch
    BY DEF TypeInv, StoreT
  <2>3. CASE UNCHANGED <<epoch, known, status, hydrating>>
    <3>1. ShownGrows  BY <2>1 DEF ShownGrows
    <3> QED BY <1>3, <2>1, <2>3, <3>1
  <2>4. CASE epoch' = epoch + 1 /\ StartHydrate(epoch')
    <3>1. Catching' = {} /\ Ending' = {}  BY <1>1, <2>1, <2>4, EpochEnds
    <3>2. PICK e : e = epoch'  OBVIOUS
    <3> QED BY <2>4, <3>1, <3>2, StartedPromises
  <2>5. CASE UNCHANGED epoch /\ ~Active /\ StartHydrate(epoch')
    <3>1. NoHydrate  BY <2>5, HydrateIsActive
    <3>2. CatchingLess /\ EndingLess  BY <1>1, <2>1, <2>5, PlacesLess
    <3>3. Catching' = {} /\ Ending' = {}
      BY <3>1, <3>2 DEF NoHydrate, CatchingLess, EndingLess
    <3>4. PICK e : e = epoch'  OBVIOUS
    <3> QED BY <2>5, <3>3, <3>4, StartedPromises
  <2>6. CASE UNCHANGED <<epoch, status, hydrating>> /\ ~known.ready
    <3>1. Catching = {} /\ Ending = {} /\ status.connection # "ready"
      BY <2>6 DEF LoadedInv, ReadyInv
    <3>2. CatchingLess /\ EndingLess  BY <1>1, <2>1, <2>6, PlacesLess
    <3>3. Catching' = {} /\ Ending' = {}
      BY <3>1, <3>2 DEF CatchingLess, EndingLess
    <3> QED BY <2>6, <3>1, <3>3 DEF LoadedInv, ReadyInv
  <2>7. CASE m.generation # known.generation
    <3>1. epoch' = epoch + 1 /\ hydrating.epoch # epoch'
      BY <1>6, <2>2, <2>7 DEF ReceiveReady
    <3> QED BY <1>6, <2>4, <2>7, <3>1 DEF ReceiveReady
  <2>8. CASE ~ (m.generation # known.generation)
    BY <1>6, <2>3, <2>5, <2>6, <2>8 DEF ReceiveReady, Active
  <2> QED BY <2>7, <2>8
<1> QED BY <1>4, <1>5, <1>6 DEF ReceiveEvent

(* Whatever the channel delivers. *)
LEMMA ReceivePromises ==
  ASSUME PrefixInv, PrefixInv', TypeInv, TypeInv', OrderInv, HydrateInv,
         LoadedInv, ReadyInv, Receive
  PROVE  LoadedInv' /\ ReadyInv'
<1>1. jobs = <<>> /\ channel # <<>> /\ channel' = Tail(channel) /\ IsSequence(channel)
  BY DEF Receive, Idle, PrefixInv, ChannelInv
<1>2. PICK m : m = Head(channel)  OBVIOUS
<1>3. Elements(channel') \subseteq Elements(channel) /\ m \in Elements(channel)
  BY <1>1, <1>2, TailElements
<1>4. MessageOK(m) /\ MessageT(m)
  BY <1>3 DEF PrefixInv, ChannelInv, TypeInv, ChannelT
<1>5. CASE ReceiveReply(m)
  <2>1. UNCHANGED epoch /\ m.type = "reply" /\ ReplyOK(m) /\ ReplyT(m)
    BY <1>4, <1>5 DEF ReceiveReply, MessageOK, MessageT
  <2>2. CASE ReceiveSnapshot(m)  BY <1>1, <1>2, <2>1, <2>2, SnapshotPromises
  <2>3. CASE ReceivePage(m)  BY <1>1, <2>1, <2>3, PagePromises
  <2>4. CASE ReceivePosted(m)  BY <2>1, <2>4, PostedPromises
  <2>5. CASE ReceiveMutation(m)
    <3>1. UNCHANGED <<known, snapshot, selected, shown, catches, hydrating, jobs>>
      BY <2>5 DEF ReceiveMutation
    <3>2. ShownGrows /\ WaitersStay  BY <3>1 DEF ShownGrows, WaitersStay
    <3>3. HydrateHeld  BY <2>1, <3>1, PlacesLess, LessIsHeld
    <3>4. \/ status' = status
          \/ status'.connection # "ready" /\ status.operation <= status'.operation
      <4>1. PICK c : c = m.call  OBVIOUS
      <4>2. status' = status \/ status' = Patched(c, "error")
        BY <2>5, <4>1 DEF ReceiveMutation
      <4> QED BY <2>1, <4>1, <4>2, PatchedUp DEF ReplyT
    <3> QED BY <2>1, <3>1, <3>2, <3>3, <3>4, PlainPromises
  <2> QED BY <1>5, <2>2, <2>3, <2>4, <2>5 DEF ReceiveReply
<1>6. CASE ReceiveEvent(m)  BY <1>3, <1>6, EventPromises
<1> QED BY <1>2, <1>5, <1>6 DEF Receive

(* A step that changes nothing. *)
LEMMA StutterPromises ==
  ASSUME PrefixInv, PrefixInv', TypeInv, TypeInv', HydrateInv, LoadedInv, ReadyInv,
         UNCHANGED vars
  PROVE  LoadedInv' /\ ReadyInv'
<1>1. UNCHANGED <<epoch, status, known, snapshot, selected, shown, catches, hydrating, jobs>>
  BY DEF vars
<1>2. HydrateHeld  BY <1>1, PlacesLess, LessIsHeld
<1>3. ShownGrows /\ WaitersStay  BY <1>1 DEF ShownGrows, WaitersStay
<1> QED BY <1>1, <1>2, <1>3, PlainPromises

(* Every step keeps what ready promises. *)
LEMMA NextPromises ==
  ASSUME PrefixInv, PrefixInv', TypeInv, TypeInv', OrderInv, HydrateInv, HydrateInv',
         LoadedInv, ReadyInv, [Next]_vars
  PROVE  LoadedInv' /\ ReadyInv'
  BY ServerPromises, RunJobPromises, ReceivePromises, UserCallPromises, StutterPromises
     DEF Next

-----------------------------------------------------------------------------
(* The theorem                                                             *)

StatusInv == TypeInv /\ OrderInv /\ HydrateInv /\ LoadedInv /\ ReadyInv

(* Ready, with nothing left to run: what covers it is shown or in flight. *)
LEMMA ReadyWhenIdle == PrefixInv /\ StatusInv => ReadyIsCaughtUp
<1>1. SUFFICES ASSUME PrefixInv, StatusInv, status.connection = "ready"
               PROVE  /\ known.ready
                      /\ Idle => \/ InFlight(selected) # {}
                                 \/ Cursor(selected) >= snapshot[selected]
  BY DEF ReadyIsCaughtUp
<1>2. known.ready /\ Covered(status.operation)  BY <1>1 DEF StatusInv, ReadyInv
<1>3. SUFFICES ASSUME Idle, InFlight(selected) = {}
               PROVE  Cursor(selected) >= snapshot[selected]
  BY <1>2
<1>4. Elements(jobs) = {}  BY <1>3, EmptyElements DEF Idle
<1>5. selected \in Rooms /\ snapshot[selected] <= Cursor(selected)
  BY <1>2, <1>3, <1>4 DEF Covered
<1>6. snapshot[selected] \in Nat
  BY <1>1, <1>5, TimelineAssumption DEF StatusInv, TypeInv, StoreT, TimelineAssumption
<1>7. Cursor(selected) \in Nat
  <2>1. PICK room \in Rooms : room = selected  BY <1>5
  <2>2. log[room] \in Nat /\ Cursor(room) \in 0 .. log[room]
    BY <1>1, CursorType DEF StatusInv, TypeInv, PrefixInv, LogInv
  <2> QED BY <2>1, <2>2
<1> QED BY <1>5, <1>6, <1>7

(* The types, the order of the channel, the one hydrate and what ready      *)
(* promises hold, always.                                                   *)
THEOREM StatusInvariant == Spec => [](PrefixInv /\ StatusInv)
<1>1. Init => PrefixInv /\ StatusInv
  BY InitPrefix, InitTypes, InitOrder, InitHydrate, InitPromises DEF StatusInv
<1>2. PrefixInv /\ StatusInv /\ [Next]_vars => PrefixInv' /\ StatusInv'
  <2>1. SUFFICES ASSUME PrefixInv, StatusInv, [Next]_vars PROVE PrefixInv' /\ StatusInv'
    OBVIOUS
  <2>2. TypeInv /\ OrderInv /\ HydrateInv /\ LoadedInv /\ ReadyInv
    BY <2>1 DEF StatusInv
  <2>3. PrefixInv' /\ TypeInv'  BY <2>1, <2>2, NextKeeps, NextTypes
  <2>4. OrderInv' /\ HydrateInv'  BY <2>1, <2>2, <2>3, NextOrder, NextHydrate
  <2>5. LoadedInv' /\ ReadyInv'  BY <2>1, <2>2, <2>3, <2>4, NextPromises
  <2> QED BY <2>3, <2>4, <2>5 DEF StatusInv
<1> QED BY <1>1, <1>2, PTL DEF Spec

(* Ready is shown over a live worker and an up to date timeline: nothing    *)
(* begun before a disconnect shows ready after it and, unless its replay is *)
(* under way, the selected room holds every event its snapshot counted.     *)
THEOREM ReadyIsCaughtUpHolds == Spec => []ReadyIsCaughtUp
<1>1. PrefixInv /\ StatusInv => ReadyIsCaughtUp  BY ReadyWhenIdle
<1> QED BY <1>1, StatusInvariant, PTL
=============================================================================
