----------------------- MODULE ProviderProcess_proofs -----------------------
(***************************************************************************)
(* Proofs about ProviderProcess for every set of concurrent cancellations  *)
(* and every bound: a run that is called over has ended, no process but    *)
(* the run's is signalled on the word of an old number, and an executable  *)
(* that works is one the journal can name.                                 *)
(***************************************************************************)
EXTENDS ProviderProcess, TLAPS

USE ProviderAssumption DEF ProviderAssumption

-----------------------------------------------------------------------------
(* Types: what the operators make of the records                           *)

Leaders == {"none", "alive", "killed", "zombie", "reaped"}
Runners == [ phase : {"none", "boot", "idle", "running", "ended"},
             commanded : BOOLEAN, asked : BOOLEAN, left : 0..MaxMessages ]
Messages == {"ready", "session", "tool", "bad", "result", "cancelled"}
Rows == [ status : {"none", "intent", "completed", "needs_attention"}, identity : BOOLEAN ]
Pcs == {"idle", "probing", "probed", "booting", "registered", "session", "unwinding",
        "started", "failed", "lost"}
Starts == [ pc : Pcs, seen : BOOLEAN, resume : BOOLEAN ]
Supervisors == [active : BOOLEAN, listening : BOOLEAN, exited : BOOLEAN]
Readers == {"off", "reading", "tool", "cancelling", "ended"}
Results == {"completed", "failed", "cancelled"}
Adapters == [ registered : BOOLEAN, session : BOOLEAN, completion : {"none"} \cup Results ]
Stages == Waiting \cup Over
Words == {"none", "abort"} \cup Signals

Typed ==
  /\ leader \in Leaders /\ helper \in BOOLEAN /\ reused \in BOOLEAN
  /\ runner \in Runners /\ stdout \in Seq(Messages) /\ row \in Rows
  /\ up \in {"up", "down", "later"} /\ start \in Starts /\ sup \in Supervisors
  /\ reader \in Readers /\ adapter \in Adapters
  /\ stage \in [Callers -> Stages] /\ sent \in [Callers -> Words]
  /\ psFailures \in 0..MaxPsFailures /\ stray \subseteq Callers /\ late \subseteq Callers

LEMMA TypedIsTypeOK == Typed <=> TypeOK
BY DEF Typed, TypeOK, Leaders, Runners, Messages, Rows, Pcs, Starts, Supervisors, Readers,
   Results, Adapters, Stages, Words

LEMMA StartsAreTyped ==
  ASSUME NEW r \in Starts, NEW pc \in Pcs
  PROVE  /\ [r EXCEPT !.pc = pc] \in Starts /\ [r EXCEPT !.pc = pc].pc = pc
         /\ \A b \in BOOLEAN : /\ [r EXCEPT !.pc = pc, !.seen = b] \in Starts
                               /\ [r EXCEPT !.pc = pc, !.seen = b].pc = pc
BY DEF Starts

LEMMA RowsAreTyped ==
  ASSUME row \in Rows
  PROVE  /\ RowNamed \in Rows /\ RowNamed.identity /\ RowNamed.status = row.status
         /\ RowCompleted \in Rows /\ RowCompleted.identity = row.identity
         /\ \A s \in {"none", "intent", "completed", "needs_attention"} :
              /\ [row EXCEPT !.status = s] \in Rows
              /\ [row EXCEPT !.status = s].status = s
              /\ [row EXCEPT !.status = s].identity = row.identity
BY DEF Rows, RowNamed, RowCompleted

LEMMA SettledIsTyped ==
  ASSUME adapter \in Adapters, NEW result \in Results
  PROVE  Settled(result) \in Adapters /\ Settled(result).completion # "none"
BY DEF Adapters, Settled, Results

LEMMA AdaptersAreTyped ==
  ASSUME adapter \in Adapters, NEW b \in BOOLEAN
  PROVE  /\ [adapter EXCEPT !.registered = b] \in Adapters
         /\ [adapter EXCEPT !.registered = b].completion = adapter.completion
         /\ [adapter EXCEPT !.session = b] \in Adapters
         /\ [adapter EXCEPT !.session = b].completion = adapter.completion
BY DEF Adapters

LEMMA RunnersAreTyped ==
  ASSUME NEW r \in Runners
  PROVE  /\ \A p \in {"none", "boot", "idle", "running", "ended"} :
              /\ [r EXCEPT !.phase = p] \in Runners
              /\ [r EXCEPT !.phase = p].commanded = r.commanded
              /\ [r EXCEPT !.phase = p, !.asked = FALSE] \in Runners
              /\ [r EXCEPT !.phase = p, !.asked = FALSE].commanded = r.commanded
         /\ \A b \in BOOLEAN : /\ [r EXCEPT !.asked = b] \in Runners
                               /\ [r EXCEPT !.asked = b].commanded = r.commanded
         /\ [r EXCEPT !.commanded = TRUE] \in Runners
         /\ r.left > 0 => /\ [r EXCEPT !.left = @ - 1] \in Runners
                          /\ [r EXCEPT !.left = @ - 1].commanded = r.commanded
<1>1. r.left \in 0..MaxMessages
  BY DEF Runners
<1>2. r.left > 0 => r.left - 1 \in 0..MaxMessages
  BY <1>1
<1> QED BY <1>2 DEF Runners

LEMMA QueueIsTyped ==
  ASSUME stdout \in Seq(Messages)
  PROVE  /\ \A message \in Messages : Append(stdout, message) \in Seq(Messages)
         /\ stdout # <<>> => Tail(stdout) \in Seq(Messages)
         /\ <<>> \in Seq(Messages)
BY DEF Messages

LEMMA KilledIsTyped ==
  ASSUME NEW l \in Leaders
  PROVE  Killed(l) \in Leaders /\ Killed(l) # "alive" /\ (l # "alive" => Killed(l) = l)
BY DEF Leaders, Killed

-----------------------------------------------------------------------------
(* The inductive invariant                                                 *)

\* Before the spawn nobody has cancelled and nothing has been heard.
NotBegun ==
  start.pc = "idle" =>
    /\ leader = "none" /\ ~sup.exited /\ reader = "off"
    /\ \A c \in Callers : stage[c] = "idle" /\ sent[c] = "none"

\* The runner's end: what the supervisor takes for it, and what a cancel has done.
EndIsReal ==
  /\ row.status = "completed" => leader # "alive"
  /\ sup.exited => leader = "reaped"
  /\ \A c \in Callers : sent[c] = "SIGKILL" => leader # "alive"

\* A cancel that returned had found nothing, or has settled the run.
ReturnIsSettled ==
  /\ \A c \in Cancels : stage[c] = "idle" => sent[c] = "none"
  /\ \A c \in Cancels : stage[c] = "returned" /\ sent[c] # "none" =>
       leader # "alive" /\ adapter.completion # "none"

\* The number of the group is another's only when the runner is gone, and a
\* cancel that may still signal it was verified before.
NumberIsTheRuns ==
  /\ reused => leader = "reaped"
  /\ ~reused => stray = {}
  /\ reused => \A c \in Callers : stage[c] = "verified" => c \in late

\* The journal names the process before anybody talks to it.
NamedFirst ==
  /\ reader \in {"reading", "tool", "cancelling"} => row.identity
  /\ start.pc \in {"registered", "session"} => row.identity
  /\ runner.commanded => row.identity

Safe ==
  /\ NotBegun /\ EndIsReal /\ ReturnIsSettled
  /\ NumberIsTheRuns /\ OnlyVerifiedIsSignalled
  /\ NamedFirst /\ HelperIsTraceable

IInv == Typed /\ Safe

-----------------------------------------------------------------------------
(* Starting a run                                                          *)

LEMMA SpawnPreserves == ASSUME IInv, Spawn PROVE IInv'
<1>1. /\ row' = [row EXCEPT !.status = "intent"] /\ row' \in Rows
      /\ row'.status = "intent" /\ row'.identity = row.identity
  BY RowsAreTyped DEF IInv, Typed, Spawn
<1>2. /\ start.pc = "idle" /\ start' \in Starts /\ start'.pc \in {"probing", "failed"}
  <2>1. /\ start.pc = "idle"
        /\ \/ start' = [start EXCEPT !.pc = "probing"]
           \/ start' = [start EXCEPT !.pc = "failed"]
    BY DEF Spawn
  <2>2. start \in Starts /\ {"probing", "failed"} \subseteq Pcs
    BY DEF IInv, Typed, Pcs
  <2>3. CASE start' = [start EXCEPT !.pc = "probing"]
    BY <2>1, <2>2, <2>3, StartsAreTyped
  <2>4. CASE start' = [start EXCEPT !.pc = "failed"]
    BY <2>1, <2>2, <2>4, StartsAreTyped
  <2> QED BY <2>1, <2>3, <2>4
<1>3. /\ runner' \in Runners /\ runner'.commanded = runner.commanded
      /\ leader' \in Leaders
  BY RunnersAreTyped DEF IInv, Typed, Spawn, Leaders
<1>4. UNCHANGED <<helper, reused, stdout, up, sup, reader, adapter, stage, sent,
                  psFailures, stray, late>>
  BY DEF Spawn, calls, history
<1>5. /\ leader = "none" /\ ~sup.exited /\ reader = "off" /\ ~reused
      /\ \A c \in Callers : stage[c] = "idle" /\ sent[c] = "none"
  BY <1>2 DEF IInv, Safe, NotBegun, NumberIsTheRuns
<1>7. Typed'
  BY <1>1, <1>2, <1>3, <1>4 DEF IInv, Typed
<1>8. Safe'
  <2>1. NotBegun'
    BY <1>1, <1>2, <1>3, <1>4, <1>5 DEF IInv, Typed, Safe, NotBegun, Callers
  <2>2. EndIsReal'
    BY <1>1, <1>2, <1>3, <1>4, <1>5 DEF IInv, Typed, Safe, EndIsReal, Callers
  <2>3. ReturnIsSettled'
    BY <1>1, <1>2, <1>3, <1>4, <1>5 DEF IInv, Typed, Safe, ReturnIsSettled, EndIsReal, Callers
  <2>4. NumberIsTheRuns'
    BY <1>1, <1>2, <1>3, <1>4, <1>5 DEF IInv, Typed, Safe, NumberIsTheRuns, Callers
  <2>5. OnlyVerifiedIsSignalled'
    BY <1>1, <1>2, <1>3, <1>4, <1>5 DEF IInv, Typed, Safe, OnlyVerifiedIsSignalled, NumberIsTheRuns, Callers
  <2>6. NamedFirst'
    BY <1>1, <1>2, <1>3, <1>4, <1>5 DEF IInv, Typed, Safe, NamedFirst, Callers
  <2>7. HelperIsTraceable'
    BY <1>1, <1>2, <1>3, <1>4, <1>5 DEF IInv, Typed, Safe, HelperIsTraceable, NamedFirst, Callers
  <2> QED BY <2>1, <2>2, <2>3, <2>4, <2>5, <2>6, <2>7 DEF Safe
<1> QED BY <1>7, <1>8 DEF IInv

LEMMA ProbeAnswersPreserves == ASSUME IInv, ProbeAnswers PROVE IInv'
<1>1. Typed'
  BY DEF IInv, Typed, ProbeAnswers, Pcs, Starts, os, program, calls, history
<1>2. Safe'
  BY DEF IInv, Typed, Safe, ProbeAnswers, Starts,
     NotBegun, EndIsReal, ReturnIsSettled, NumberIsTheRuns, OnlyVerifiedIsSignalled, NamedFirst, HelperIsTraceable, os, program, calls, history
<1> QED BY <1>1, <1>2 DEF IInv

LEMMA ProbeTimesOutPreserves == ASSUME IInv, ProbeTimesOut PROVE IInv'
<1>1. start' \in Starts /\ start.pc = "probing" /\ start'.pc = "probed"
  BY StartsAreTyped DEF IInv, Typed, ProbeTimesOut, Pcs
<1>2. psFailures' \in 0..MaxPsFailures
  BY DEF IInv, Typed, ProbeTimesOut, PsTimesOut
<1>3. UNCHANGED <<leader, helper, reused, runner, stdout, row, up, sup, reader, adapter,
                  stage, sent, stray, late>>
  BY DEF ProbeTimesOut, os, program, calls
<1>7. Typed'
  BY <1>1, <1>2, <1>3 DEF IInv, Typed
<1>8. Safe'
  <2>1. NotBegun'
    BY <1>1, <1>3 DEF IInv, Typed, Safe, NotBegun
  <2>2. EndIsReal'
    BY <1>1, <1>3 DEF IInv, Typed, Safe, EndIsReal
  <2>3. ReturnIsSettled'
    BY <1>1, <1>3 DEF IInv, Typed, Safe, ReturnIsSettled, EndIsReal
  <2>4. NumberIsTheRuns'
    BY <1>1, <1>3 DEF IInv, Typed, Safe, NumberIsTheRuns
  <2>5. OnlyVerifiedIsSignalled'
    BY <1>1, <1>3 DEF IInv, Typed, Safe, OnlyVerifiedIsSignalled, NumberIsTheRuns
  <2>6. NamedFirst'
    BY <1>1, <1>3 DEF IInv, Typed, Safe, NamedFirst
  <2>7. HelperIsTraceable'
    BY <1>1, <1>3 DEF IInv, Typed, Safe, HelperIsTraceable, NamedFirst
  <2> QED BY <2>1, <2>2, <2>3, <2>4, <2>5, <2>6, <2>7 DEF Safe
<1> QED BY <1>7, <1>8 DEF IInv

LEMMA ProbedPreserves == ASSUME IInv, Probed PROVE IInv'
<1>1. /\ row' \in Rows /\ row'.identity /\ row'.status = row.status
  BY RowsAreTyped DEF IInv, Typed, Probed
<1>2. start' \in Starts /\ start.pc = "probed" /\ start'.pc = "booting"
  BY StartsAreTyped DEF IInv, Typed, Probed, Pcs
<1>3. sup' \in Supervisors /\ ~sup'.exited /\ reader' = "reading"
  BY DEF Probed, Supervisors
<1>4. UNCHANGED <<leader, helper, reused, runner, stdout, up, adapter, stage, sent,
                  psFailures, stray, late>>
  BY DEF Probed, os, program, calls, history
<1>7. Typed'
  BY <1>1, <1>2, <1>3, <1>4 DEF IInv, Typed, Readers
<1>8. Safe'
  <2>1. NotBegun'
    BY <1>1, <1>2, <1>3, <1>4 DEF IInv, Typed, Safe, NotBegun
  <2>2. EndIsReal'
    BY <1>1, <1>2, <1>3, <1>4 DEF IInv, Typed, Safe, EndIsReal
  <2>3. ReturnIsSettled'
    BY <1>1, <1>2, <1>3, <1>4 DEF IInv, Typed, Safe, ReturnIsSettled, EndIsReal
  <2>4. NumberIsTheRuns'
    BY <1>1, <1>2, <1>3, <1>4 DEF IInv, Typed, Safe, NumberIsTheRuns
  <2>5. OnlyVerifiedIsSignalled'
    BY <1>1, <1>2, <1>3, <1>4 DEF IInv, Typed, Safe, OnlyVerifiedIsSignalled, NumberIsTheRuns
  <2>6. NamedFirst'
    BY <1>1, <1>2, <1>3, <1>4 DEF IInv, Typed, Safe, NamedFirst
  <2>7. HelperIsTraceable'
    BY <1>1, <1>2, <1>3, <1>4 DEF IInv, Typed, Safe, HelperIsTraceable, NamedFirst
  <2> QED BY <2>1, <2>2, <2>3, <2>4, <2>5, <2>6, <2>7 DEF Safe
<1> QED BY <1>7, <1>8 DEF IInv

LEMMA UnconfirmedPreserves == ASSUME IInv, Unconfirmed PROVE IInv'
<1>1. Typed'
  BY KilledIsTyped, StartsAreTyped DEF IInv, Typed, Unconfirmed, Pcs, os, program, calls, history
<1>2. Safe'
  BY KilledIsTyped, StartsAreTyped DEF IInv, Typed, Safe, Unconfirmed, Pcs,
     NotBegun, EndIsReal, ReturnIsSettled, NumberIsTheRuns, OnlyVerifiedIsSignalled, NamedFirst, HelperIsTraceable, os, program, calls, history
<1> QED BY <1>1, <1>2 DEF IInv

LEMMA SendCommandPreserves == ASSUME IInv, SendCommand PROVE IInv'
<1>1. /\ start.pc = "registered" /\ start' \in Starts
      /\ start'.pc \in {"started", "session"}
  <2> DEFINE pc == IF start.resume THEN "started" ELSE "session"
  <2>1. start.pc = "registered" /\ start' = [start EXCEPT !.pc = pc]
    BY DEF SendCommand
  <2>2. pc \in {"started", "session"} /\ pc \in Pcs
    BY DEF Pcs
  <2> HIDE DEF pc
  <2> QED BY <2>1, <2>2, StartsAreTyped DEF IInv, Typed
<1>2. runner' \in Runners
  BY RunnersAreTyped DEF IInv, Typed, SendCommand
<1>3. UNCHANGED <<leader, helper, reused, stdout, row, up, sup, reader, adapter, stage,
                  sent, psFailures, stray, late>>
  BY DEF SendCommand, os, calls, history
<1>7. Typed'
  BY <1>1, <1>2, <1>3 DEF IInv, Typed
<1>8. Safe'
  <2>1. NotBegun'
    BY <1>1, <1>3 DEF IInv, Typed, Safe, NotBegun
  <2>2. EndIsReal'
    BY <1>1, <1>3 DEF IInv, Typed, Safe, EndIsReal
  <2>3. ReturnIsSettled'
    BY <1>1, <1>3 DEF IInv, Typed, Safe, ReturnIsSettled, EndIsReal
  <2>4. NumberIsTheRuns'
    BY <1>1, <1>3 DEF IInv, Typed, Safe, NumberIsTheRuns
  <2>5. OnlyVerifiedIsSignalled'
    BY <1>1, <1>3 DEF IInv, Typed, Safe, OnlyVerifiedIsSignalled, NumberIsTheRuns
  <2>6. NamedFirst'
    BY <1>1, <1>3 DEF IInv, Typed, Safe, NamedFirst
  <2>7. HelperIsTraceable'
    BY <1>1, <1>3 DEF IInv, Typed, Safe, HelperIsTraceable, NamedFirst
  <2> QED BY <2>1, <2>2, <2>3, <2>4, <2>5, <2>6, <2>7 DEF Safe
<1> QED BY <1>7, <1>8 DEF IInv

LEMMA SessionBegunPreserves == ASSUME IInv, SessionBegun PROVE IInv'
<1>1. Typed'
  BY StartsAreTyped DEF IInv, Typed, SessionBegun, Pcs, os, program, calls, history
<1>2. Safe'
  BY StartsAreTyped DEF IInv, Typed, Safe, SessionBegun, Pcs,
     NotBegun, EndIsReal, ReturnIsSettled, NumberIsTheRuns, OnlyVerifiedIsSignalled, NamedFirst, HelperIsTraceable, os, program, calls, history
<1> QED BY <1>1, <1>2 DEF IInv

-----------------------------------------------------------------------------
(* The message loop and the runner                                         *)

LEMMA TakeReadyPreserves == ASSUME IInv, TakeReady PROVE IInv'
<1>1. reader = "reading" /\ start' \in Starts /\ start'.pc = "registered"
  BY StartsAreTyped DEF IInv, Typed, TakeReady, TakeMessage, Pcs
<1>2. adapter' \in Adapters /\ adapter'.completion = adapter.completion
  BY AdaptersAreTyped DEF IInv, Typed, TakeReady
<1>3. stdout' \in Seq(Messages)
  BY QueueIsTyped DEF IInv, Typed, TakeReady, TakeMessage
<1>4. UNCHANGED <<leader, helper, reused, runner, row, up, sup, reader, stage, sent,
                  psFailures, stray, late>>
  BY DEF TakeReady, os, calls, history
<1>7. Typed'
  BY <1>1, <1>2, <1>3, <1>4 DEF IInv, Typed
<1>8. Safe'
  <2>1. NotBegun'
    BY <1>1, <1>2, <1>4 DEF IInv, Typed, Safe, NotBegun
  <2>2. EndIsReal'
    BY <1>1, <1>2, <1>4 DEF IInv, Typed, Safe, EndIsReal
  <2>3. ReturnIsSettled'
    BY <1>1, <1>2, <1>4 DEF IInv, Typed, Safe, ReturnIsSettled, EndIsReal
  <2>4. NumberIsTheRuns'
    BY <1>1, <1>2, <1>4 DEF IInv, Typed, Safe, NumberIsTheRuns
  <2>5. OnlyVerifiedIsSignalled'
    BY <1>1, <1>2, <1>4 DEF IInv, Typed, Safe, OnlyVerifiedIsSignalled, NumberIsTheRuns
  <2>6. NamedFirst'
    BY <1>1, <1>2, <1>4 DEF IInv, Typed, Safe, NamedFirst
  <2>7. HelperIsTraceable'
    BY <1>1, <1>2, <1>4 DEF IInv, Typed, Safe, HelperIsTraceable, NamedFirst
  <2> QED BY <2>1, <2>2, <2>3, <2>4, <2>5, <2>6, <2>7 DEF Safe
<1> QED BY <1>7, <1>8 DEF IInv

LEMMA TakeEventPreserves == ASSUME IInv, TakeEvent PROVE IInv'
<1>1. Typed'
  BY SettledIsTyped, AdaptersAreTyped, QueueIsTyped DEF IInv, Typed, TakeEvent, TakeMessage, Results, os, program, calls, history
<1>2. Safe'
  BY SettledIsTyped, AdaptersAreTyped DEF IInv, Typed, Safe, TakeEvent, TakeMessage, Results,
     NotBegun, EndIsReal, ReturnIsSettled, NumberIsTheRuns, OnlyVerifiedIsSignalled, NamedFirst, HelperIsTraceable, os, program, calls, history
<1> QED BY <1>1, <1>2 DEF IInv

LEMMA TakeToolCallPreserves == ASSUME IInv, TakeToolCall PROVE IInv'
<1>1. Typed'
  BY QueueIsTyped DEF IInv, Typed, TakeToolCall, TakeMessage, Readers, os, program, calls, history
<1>2. Safe'
  BY DEF IInv, Typed, Safe, TakeToolCall, TakeMessage,
     NotBegun, EndIsReal, ReturnIsSettled, NumberIsTheRuns, OnlyVerifiedIsSignalled, NamedFirst, HelperIsTraceable, os, program, calls, history
<1> QED BY <1>1, <1>2 DEF IInv

LEMMA AnswerToolPreserves == ASSUME IInv, AnswerTool PROVE IInv'
<1>1. Typed'
  BY DEF IInv, Typed, AnswerTool, Readers, os, program, calls, history
<1>2. Safe'
  BY DEF IInv, Typed, Safe, AnswerTool,
     NotBegun, EndIsReal, ReturnIsSettled, NumberIsTheRuns, OnlyVerifiedIsSignalled, NamedFirst, HelperIsTraceable, os, program, calls, history
<1> QED BY <1>1, <1>2 DEF IInv

LEMMA StreamEndsPreserves == ASSUME IInv, StreamEnds PROVE IInv'
<1>1. start' \in Starts /\ (start' = start \/ start'.pc = "failed")
  <2>1. CASE start.pc = "booting"
    <3>1. start' = [start EXCEPT !.pc = "failed"]
      BY <2>1 DEF StreamEnds
    <3> QED BY <3>1, StartsAreTyped DEF IInv, Typed, Pcs
  <2>2. CASE start.pc # "booting"
    <3>1. start' = [start EXCEPT !.pc = start.pc]
      BY <2>2 DEF StreamEnds
    <3> QED BY <3>1 DEF IInv, Typed, Starts
  <2> QED BY <2>1, <2>2
<1>2. reader = "reading" /\ reader' = "ended"
  BY DEF StreamEnds
<1>3. UNCHANGED <<leader, helper, reused, runner, stdout, row, up, sup, adapter, stage,
                  sent, psFailures, stray, late>>
  BY DEF StreamEnds, os, program, calls, history
<1>7. Typed'
  BY <1>1, <1>2, <1>3 DEF IInv, Typed, Readers
<1>8. Safe'
  <2>1. NotBegun'
    BY <1>1, <1>2, <1>3 DEF IInv, Typed, Safe, NotBegun
  <2>2. EndIsReal'
    BY <1>1, <1>2, <1>3 DEF IInv, Typed, Safe, EndIsReal
  <2>3. ReturnIsSettled'
    BY <1>1, <1>2, <1>3 DEF IInv, Typed, Safe, ReturnIsSettled, EndIsReal
  <2>4. NumberIsTheRuns'
    BY <1>1, <1>2, <1>3 DEF IInv, Typed, Safe, NumberIsTheRuns
  <2>5. OnlyVerifiedIsSignalled'
    BY <1>1, <1>2, <1>3 DEF IInv, Typed, Safe, OnlyVerifiedIsSignalled, NumberIsTheRuns
  <2>6. NamedFirst'
    BY <1>1, <1>2, <1>3 DEF IInv, Typed, Safe, NamedFirst
  <2>7. HelperIsTraceable'
    BY <1>1, <1>2, <1>3 DEF IInv, Typed, Safe, HelperIsTraceable, NamedFirst
  <2> QED BY <2>1, <2>2, <2>3, <2>4, <2>5, <2>6, <2>7 DEF Safe
<1> QED BY <1>7, <1>8 DEF IInv

LEMMA RunnerReadyPreserves == ASSUME IInv, RunnerReady PROVE IInv'
<1>1. Typed'
  BY RunnersAreTyped, QueueIsTyped DEF IInv, Typed, RunnerReady, InRunner, Emit, elsewhere, Messages, os, program, calls, history
<1>2. Safe'
  BY RunnersAreTyped DEF IInv, Typed, Safe, RunnerReady, InRunner, Emit, elsewhere,
     NotBegun, EndIsReal, ReturnIsSettled, NumberIsTheRuns, OnlyVerifiedIsSignalled, NamedFirst, HelperIsTraceable, os, program, calls, history
<1> QED BY <1>1, <1>2 DEF IInv

LEMMA RunnerStartsPreserves == ASSUME IInv, RunnerStarts PROVE IInv'
<1>1. Typed'
  BY RunnersAreTyped DEF IInv, Typed, RunnerStarts, InRunner, Emit, elsewhere, os, program, calls, history
<1>2. Safe'
  BY RunnersAreTyped DEF IInv, Typed, Safe, RunnerStarts, InRunner, Emit, elsewhere,
     NotBegun, EndIsReal, ReturnIsSettled, NumberIsTheRuns, OnlyVerifiedIsSignalled, NamedFirst, HelperIsTraceable, os, program, calls, history
<1> QED BY <1>1, <1>2 DEF IInv

LEMMA RunnerIgnoresCancelPreserves == ASSUME IInv, RunnerIgnoresCancel PROVE IInv'
<1>1. Typed'
  BY RunnersAreTyped DEF IInv, Typed, RunnerIgnoresCancel, InRunner, Emit, elsewhere, os, program, calls, history
<1>2. Safe'
  BY RunnersAreTyped DEF IInv, Typed, Safe, RunnerIgnoresCancel, InRunner, Emit, elsewhere,
     NotBegun, EndIsReal, ReturnIsSettled, NumberIsTheRuns, OnlyVerifiedIsSignalled, NamedFirst, HelperIsTraceable, os, program, calls, history
<1> QED BY <1>1, <1>2 DEF IInv

LEMMA RunnerWorksPreserves == ASSUME IInv, RunnerWorks PROVE IInv'
<1>1. Typed'
  BY RunnersAreTyped, QueueIsTyped DEF IInv, Typed, RunnerWorks, InRunner, Emit, elsewhere, Messages, os, program, calls, history
<1>2. Safe'
  BY RunnersAreTyped DEF IInv, Typed, Safe, RunnerWorks, InRunner, Emit, elsewhere,
     NotBegun, EndIsReal, ReturnIsSettled, NumberIsTheRuns, OnlyVerifiedIsSignalled, NamedFirst, HelperIsTraceable, os, program, calls, history
<1> QED BY <1>1, <1>2 DEF IInv

LEMMA RunnerFinishesPreserves == ASSUME IInv, RunnerFinishes PROVE IInv'
<1>1. Typed'
  BY RunnersAreTyped, QueueIsTyped DEF IInv, Typed, RunnerFinishes, InRunner, Emit, elsewhere, Messages, os, program, calls, history
<1>2. Safe'
  BY RunnersAreTyped DEF IInv, Typed, Safe, RunnerFinishes, InRunner, Emit, elsewhere,
     NotBegun, EndIsReal, ReturnIsSettled, NumberIsTheRuns, OnlyVerifiedIsSignalled, NamedFirst, HelperIsTraceable, os, program, calls, history
<1> QED BY <1>1, <1>2 DEF IInv

-----------------------------------------------------------------------------
(* The operating system and the worker                                     *)

LEMMA RunnerExitsPreserves == ASSUME IInv, RunnerExits PROVE IInv'
<1>1. Typed'
  BY DEF IInv, Typed, RunnerExits, Leaders, os, program, calls, history
<1>2. Safe'
  BY DEF IInv, Typed, Safe, RunnerExits, Living,
     NotBegun, EndIsReal, ReturnIsSettled, NumberIsTheRuns, OnlyVerifiedIsSignalled, NamedFirst, HelperIsTraceable, os, program, calls, history
<1> QED BY <1>1, <1>2 DEF IInv

LEMMA HelperExitsPreserves == ASSUME IInv, HelperExits PROVE IInv'
<1>1. Typed'
  BY DEF IInv, Typed, HelperExits, os, program, calls, history
<1>2. Safe'
  BY DEF IInv, Typed, Safe, HelperExits,
     NotBegun, EndIsReal, ReturnIsSettled, NumberIsTheRuns, OnlyVerifiedIsSignalled, NamedFirst, HelperIsTraceable, os, program, calls, history
<1> QED BY <1>1, <1>2 DEF IInv

LEMMA ReusePreserves == ASSUME IInv, Reuse PROVE IInv'
<1>1. Typed'
  BY DEF IInv, Typed, Reuse, os, program, calls, history
<1>2. Safe'
  BY DEF IInv, Typed, Safe, Reuse,
     NotBegun, EndIsReal, ReturnIsSettled, NumberIsTheRuns, OnlyVerifiedIsSignalled, NamedFirst, HelperIsTraceable, os, program, calls, history
<1> QED BY <1>1, <1>2 DEF IInv

LEMMA ResolvePreserves == ASSUME IInv, Resolve PROVE IInv'
<1>1. Typed'
  BY RowsAreTyped DEF IInv, Typed, Resolve, Rows, os, program, calls, history
<1>2. Safe'
  BY RowsAreTyped DEF IInv, Typed, Safe, Resolve, Rows,
     NotBegun, EndIsReal, ReturnIsSettled, NumberIsTheRuns, OnlyVerifiedIsSignalled, NamedFirst, HelperIsTraceable, os, program, calls, history
<1> QED BY <1>1, <1>2 DEF IInv

LEMMA ReapPreserves == ASSUME IInv, Reap PROVE IInv'
<1>1. Typed'
  BY RowsAreTyped DEF IInv, Typed, Reap, Leaders, Supervisors, os, program, calls, history
<1>2. Safe'
  BY RowsAreTyped DEF IInv, Typed, Safe, Reap, Supervisors,
     NotBegun, EndIsReal, ReturnIsSettled, NumberIsTheRuns, OnlyVerifiedIsSignalled, NamedFirst, HelperIsTraceable, os, program, calls, history
<1> QED BY <1>1, <1>2 DEF IInv

LEMMA CrashPreserves == ASSUME IInv, Crash PROVE IInv'
<1>1. start' \in Starts /\ start'.pc = "lost" /\ start.pc # "idle"
  BY StartsAreTyped DEF IInv, Typed, Crash, Pcs
<1>2. sup' \in Supervisors /\ ~sup'.exited /\ reader' = "ended" /\ up' = "down"
  BY DEF Crash, Supervisors
<1>3. adapter' \in Adapters /\ adapter'.completion = adapter.completion
  BY AdaptersAreTyped DEF IInv, Typed, Crash
<1>4. /\ stage' \in [Callers -> Stages]
      /\ \A c \in Callers : stage'[c] = stage[c] \/ stage'[c] = "lost"
  BY DEF IInv, Typed, Crash, Stages, Waiting, Over
<1>5. stdout' \in Seq(Messages)
  BY QueueIsTyped DEF IInv, Typed, Crash
<1>6. UNCHANGED <<leader, helper, reused, runner, row, sent, psFailures, stray, late>>
  BY DEF Crash, os, history
<1>7. Typed'
  BY <1>1, <1>2, <1>3, <1>4, <1>5, <1>6 DEF IInv, Typed, Readers
<1>8. Safe'
  <2>1. NotBegun'
    BY <1>1, <1>2, <1>3, <1>4, <1>6 DEF IInv, Typed, Safe, NotBegun, Callers
  <2>2. EndIsReal'
    BY <1>1, <1>2, <1>3, <1>4, <1>6 DEF IInv, Typed, Safe, EndIsReal, Callers
  <2>3. ReturnIsSettled'
    BY <1>1, <1>2, <1>3, <1>4, <1>6 DEF IInv, Typed, Safe, ReturnIsSettled, EndIsReal, Callers
  <2>4. NumberIsTheRuns'
    BY <1>1, <1>2, <1>3, <1>4, <1>6 DEF IInv, Typed, Safe, NumberIsTheRuns, Callers
  <2>5. OnlyVerifiedIsSignalled'
    BY <1>1, <1>2, <1>3, <1>4, <1>6 DEF IInv, Typed, Safe, OnlyVerifiedIsSignalled, NumberIsTheRuns, Callers
  <2>6. NamedFirst'
    BY <1>1, <1>2, <1>3, <1>4, <1>6 DEF IInv, Typed, Safe, NamedFirst, Callers
  <2>7. HelperIsTraceable'
    BY <1>1, <1>2, <1>3, <1>4, <1>6 DEF IInv, Typed, Safe, HelperIsTraceable, NamedFirst, Callers
  <2> QED BY <2>1, <2>2, <2>3, <2>4, <2>5, <2>6, <2>7 DEF Safe
<1> QED BY <1>7, <1>8 DEF IInv

-----------------------------------------------------------------------------
(* Cancelling                                                              *)

\* What becomes of start, of the message loop and of the run's result when a call
\* begins or ends: a loop that talks has been talking, a result is kept.
Talking == {"reading", "tool", "cancelling"}
Ends ==
  /\ start' \in Starts /\ (start' = start \/ start'.pc \in {"unwinding", "failed"})
  /\ reader' \in Readers /\ (reader' \in Talking => reader \in Talking)
  /\ adapter' \in Adapters /\ (adapter.completion # "none" => adapter'.completion # "none")

LEMMA ReturnsEnds ==
  ASSUME Typed, NEW c \in Callers, Returns(c)
  PROVE  Ends /\ (c \in Cancels => adapter'.completion # "none")
<1>1. start \in Starts /\ reader \in Readers /\ adapter \in Adapters /\ "failed" \in Pcs
  BY DEF Typed, Pcs
<1>2. CASE c \in Cancels
  BY <1>1, <1>2, SettledIsTyped DEF Returns, Ends, Results
<1>3. CASE c = Starter
  <2>1. /\ adapter' = Settled("failed") /\ start' = [start EXCEPT !.pc = "failed"]
        /\ reader' = reader /\ c \notin Cancels
    BY <1>3 DEF Returns
  <2> QED BY <1>1, <2>1, SettledIsTyped, StartsAreTyped DEF Ends, Results
<1>4. CASE c = Reader
  BY <1>1, <1>4 DEF Returns, Ends, Readers, Talking
<1> QED BY <1>2, <1>3, <1>4 DEF Callers

LEMMA ThrowsEnds ==
  ASSUME Typed, NEW c \in Callers, Throws(c) PROVE Ends
<1>1. CASE c \in Cancels
  BY <1>1 DEF Throws, Ends, Typed
<1>2. CASE c \notin Cancels
  BY <1>2, ReturnsEnds DEF Throws
<1> QED BY <1>1, <1>2

LEMMA UnchangedEnds ==
  ASSUME Typed, UNCHANGED <<start, reader, adapter>> PROVE Ends
BY DEF Typed, Ends

LEMMA StageIsTyped ==
  ASSUME Typed, NEW c \in Callers, NEW s \in Stages
  PROVE  /\ [stage EXCEPT ![c] = s] \in [Callers -> Stages]
         /\ \A d \in Callers : [stage EXCEPT ![c] = s][d] = IF d = c THEN s ELSE stage[d]
BY DEF Typed

LEMMA SentIsTyped ==
  ASSUME Typed, NEW c \in Callers, NEW w \in Words
  PROVE  /\ [sent EXCEPT ![c] = w] \in [Callers -> Words]
         /\ \A d \in Callers : [sent EXCEPT ![c] = w][d] = IF d = c THEN w ELSE sent[d]
BY DEF Typed

\* The first step of a cancel, of any caller.
Begun(c) ==
  /\ stage' \in [Callers -> Stages] /\ sent' \in [Callers -> Words]
  /\ \A d \in Callers : d # c => stage'[d] = stage[d] /\ sent'[d] = sent[d]
  /\ stage'[c] \in {"waiting", "thrown", "hung"} /\ sent'[c] \in {sent[c], "abort"}
  /\ runner' \in Runners /\ runner'.commanded = runner.commanded

LEMMA BeginBegins ==
  ASSUME Typed, NEW c \in Callers, Begin(c) PROVE Begun(c) /\ row' = row
<1>1. FirstStage \in {"waiting", "thrown", "hung"}
  BY DEF FirstStage
<1>2. FirstStage \in Stages /\ "abort" \in Words
  BY <1>1 DEF Stages, Waiting, Over, Words
<1>3. /\ stage' \in [Callers -> Stages] /\ stage'[c] = FirstStage
      /\ \A d \in Callers : d # c => stage'[d] = stage[d]
  BY <1>2, StageIsTyped DEF Begin
<1>4. CASE FirstStage = "waiting"
  <2>1. sent' = [sent EXCEPT ![c] = "abort"] /\ runner' = [runner EXCEPT !.asked = TRUE]
    BY <1>4 DEF Begin
  <2>2. runner' \in Runners /\ runner'.commanded = runner.commanded
    BY <2>1, RunnersAreTyped DEF Typed
  <2>3. /\ sent' \in [Callers -> Words] /\ sent'[c] = "abort"
        /\ \A d \in Callers : d # c => sent'[d] = sent[d]
    <3> DEFINE word == "abort"
    <3>1. word \in Words /\ sent' = [sent EXCEPT ![c] = word]
      BY <1>2, <2>1
    <3> HIDE DEF word
    <3>2. /\ sent' \in [Callers -> Words] /\ sent'[c] = word
          /\ \A d \in Callers : d # c => sent'[d] = sent[d]
      BY <3>1, SentIsTyped
    <3>3. word = "abort"
      BY DEF word
    <3> QED BY <3>2, <3>3
  <2>4. row' = row
    BY DEF Begin
  <2>5. stage'[c] \in {"waiting", "thrown", "hung"} /\ sent'[c] \in {sent[c], "abort"}
    BY <1>1, <1>3, <2>3
  <2>6. \A d \in Callers : d # c => stage'[d] = stage[d] /\ sent'[d] = sent[d]
    BY <1>3, <2>3
  <2>7. stage' \in [Callers -> Stages] /\ sent' \in [Callers -> Words]
    BY <1>3, <2>3
  <2> QED BY <2>2, <2>4, <2>5, <2>6, <2>7 DEF Begun
<1>5. CASE FirstStage # "waiting"
  BY <1>1, <1>3, <1>5 DEF Begin, Begun, Typed
<1> QED BY <1>4, <1>5 DEF Begin

\* complete writes the end of the process, and nothing else.
LEMMA CompleteIsTyped ==
  ASSUME Typed, Complete
  PROVE  /\ sup' \in Supervisors /\ sup'.exited = sup.exited
         /\ row' \in Rows /\ row'.identity = row.identity
BY RowsAreTyped DEF Typed, Complete, Supervisors

LEMMA FailEnds ==
  ASSUME Typed, NEW c \in Callers, NEW l \in Leaders, Fail(c, l)
  PROVE  /\ stage' \in [Callers -> Stages] /\ stage'[c] = "thrown"
         /\ \A d \in Callers : d # c => stage'[d] = stage[d]
         /\ leader' \in Leaders /\ (l # "alive" => leader' = l)
         /\ Ends
<1>1. "thrown" \in Stages
  BY DEF Stages, Over
<1> QED BY <1>1, StageIsTyped, KilledIsTyped, ThrowsEnds DEF Fail

\* What a step of the call c may do: a cancel that returns has settled a run whose
\* runner has ended, one that sends SIGKILL has ended it, none is verified for a
\* number that is another's, and only a verified one signals.
CallMoves(c) ==
  /\ start.pc # "idle"
  /\ stage' \in [Callers -> Stages] /\ sent' \in [Callers -> Words]
  /\ \A d \in Callers : d # c => stage'[d] = stage[d] /\ sent'[d] = sent[d]
  /\ stage'[c] # "idle"
  /\ c \in Cancels /\ stage'[c] = "returned" /\ sent'[c] # "none" =>
       leader' # "alive" /\ adapter'.completion # "none"
  /\ sent'[c] = "SIGKILL" => leader' # "alive"
  /\ stage'[c] = "verified" => ~reused
  /\ leader' \in Leaders /\ (leader # "alive" => leader' = leader)
  /\ helper' \in BOOLEAN /\ (helper' => helper)
  /\ row' \in Rows /\ row'.identity = row.identity
  /\ row'.status = "completed" => row.status = "completed" \/ leader' # "alive"
  /\ sup' \in Supervisors /\ sup'.exited = sup.exited
  /\ runner' \in Runners /\ runner'.commanded = runner.commanded
  /\ stdout' \in Seq(Messages)
  /\ \/ stray' = stray
     \/ reused /\ stage[c] = "verified" /\ stray' = stray \cup {c}
  /\ psFailures' \in 0..MaxPsFailures
  /\ Ends
  /\ UNCHANGED <<reused, up, late>>

LEMMA CallMovesPreserves == ASSUME IInv, NEW c \in Callers, CallMoves(c) PROVE IInv'
<1>1. Typed'
  BY DEF IInv, Typed, CallMoves, Ends
<1>2. start'.pc # "idle"
  BY DEF CallMoves, Ends
<1>3. NotBegun'
  BY <1>2 DEF NotBegun
<1>4. EndIsReal'
  BY DEF IInv, Safe, EndIsReal, CallMoves
<1>5. ReturnIsSettled'
  <2> SUFFICES ASSUME NEW d \in Cancels
               PROVE  /\ stage'[d] = "idle" => sent'[d] = "none"
                      /\ stage'[d] = "returned" /\ sent'[d] # "none" =>
                           leader' # "alive" /\ adapter'.completion # "none"
    BY DEF ReturnIsSettled
  <2>1. CASE d = c
    BY <2>1 DEF CallMoves
  <2>2. CASE d # c
    <3>1. stage'[d] = stage[d] /\ sent'[d] = sent[d]
      BY <2>2 DEF CallMoves, Callers
    <3> QED BY <3>1 DEF IInv, Safe, ReturnIsSettled, CallMoves, Ends
  <2> QED BY <2>1, <2>2
<1>6. NumberIsTheRuns'
  BY DEF IInv, Safe, NumberIsTheRuns, CallMoves
<1>7. OnlyVerifiedIsSignalled'
  BY DEF IInv, Safe, NumberIsTheRuns, OnlyVerifiedIsSignalled, CallMoves
<1>8. NamedFirst' /\ HelperIsTraceable'
  BY DEF IInv, Safe, NamedFirst, HelperIsTraceable, CallMoves, Ends, Talking
<1> QED BY <1>1, <1>3, <1>4, <1>5, <1>6, <1>7, <1>8 DEF IInv, Safe

LEMMA WaitingHasBegun ==
  ASSUME IInv, NEW c \in Callers, stage[c] # "idle" PROVE start.pc # "idle"
BY DEF IInv, Safe, NotBegun

LEMMA ExitAwaitedMoves == ASSUME IInv, NEW c \in Callers, ExitAwaited(c) PROVE CallMoves(c)
<1>1. Typed /\ stage[c] = "waiting" /\ sup.exited /\ start.pc # "idle"
  BY WaitingHasBegun DEF IInv, ExitAwaited
<1>2. leader = "reaped"
  BY <1>1 DEF IInv, Safe, EndIsReal
<1>3. /\ stage' \in [Callers -> Stages] /\ stage'[c] = "returned"
      /\ \A d \in Callers : d # c => stage'[d] = stage[d]
  BY <1>1, StageIsTyped DEF ExitAwaited, Stages, Over
<1>4. Ends /\ (c \in Cancels => adapter'.completion # "none")
  BY <1>1, ReturnsEnds DEF ExitAwaited
<1>5. /\ sup' \in Supervisors /\ sup'.exited = sup.exited
      /\ row' \in Rows /\ row'.identity = row.identity
  BY <1>1, CompleteIsTyped DEF ExitAwaited
<1>6. UNCHANGED <<leader, helper, reused, runner, stdout, up, sent, psFailures, stray, late>>
  BY DEF ExitAwaited, os, program, history
<1> QED BY <1>1, <1>2, <1>3, <1>4, <1>5, <1>6 DEF CallMoves, Typed

LEMMA GraceEndsMoves == ASSUME IInv, NEW c \in Callers, GraceEnds(c) PROVE CallMoves(c)
<1>1. Typed /\ stage[c] = "waiting" /\ start.pc # "idle"
  BY WaitingHasBegun DEF IInv, GraceEnds
<1>2. UNCHANGED <<leader, helper, reused, runner, stdout, up, sent, psFailures, stray, late>>
  BY DEF GraceEnds, os, program, history
<1>3. sent[c] = "SIGKILL" => leader # "alive"
  BY DEF IInv, Safe, EndIsReal
<1>4. CASE sent[c] = "SIGKILL"
  <2>1. stage' = [stage EXCEPT ![c] = "returned"] /\ Complete /\ Returns(c)
    BY <1>4 DEF GraceEnds, TriedLast
  <2>2. /\ stage' \in [Callers -> Stages] /\ stage'[c] = "returned"
        /\ \A d \in Callers : d # c => stage'[d] = stage[d]
    BY <1>1, <2>1, StageIsTyped DEF Stages, Over
  <2>3. Ends /\ (c \in Cancels => adapter'.completion # "none")
    BY <1>1, <2>1, ReturnsEnds
  <2>4. /\ sup' \in Supervisors /\ sup'.exited = sup.exited
        /\ row' \in Rows /\ row'.identity = row.identity
    BY <1>1, <2>1, CompleteIsTyped
  <2> QED BY <1>1, <1>2, <1>3, <1>4, <2>2, <2>3, <2>4 DEF CallMoves, Typed
<1>5. CASE sent[c] # "SIGKILL"
  <2>1. stage' = [stage EXCEPT ![c] = "verifying"] /\ UNCHANGED <<row, sup, start, reader, adapter>>
    BY <1>5 DEF GraceEnds, TriedLast
  <2>2. /\ stage' \in [Callers -> Stages] /\ stage'[c] = "verifying"
        /\ \A d \in Callers : d # c => stage'[d] = stage[d]
    BY <1>1, <2>1, StageIsTyped DEF Stages, Waiting
  <2>3. Ends
    BY <1>1, <2>1, UnchangedEnds
  <2> QED BY <1>1, <1>2, <1>5, <2>1, <2>2, <2>3 DEF CallMoves, Typed
<1> QED BY <1>4, <1>5

LEMMA VerifyMoves == ASSUME IInv, NEW c \in Callers, Verify(c) PROVE CallMoves(c)
<1>1. Typed /\ stage[c] = "verifying" /\ start.pc # "idle"
  BY WaitingHasBegun DEF IInv, Verify
<1>2. UNCHANGED <<helper, reused, runner, stdout, row, up, sup, sent, psFailures, stray, late>>
  BY DEF Verify, program, history
<1>3. sent[c] = "SIGKILL" => leader # "alive"
  BY DEF IInv, Safe, EndIsReal
<1>4. CASE IdentityMatches
  <2>1. stage' = [stage EXCEPT ![c] = "verified"] /\ UNCHANGED <<leader, start, reader, adapter>>
    BY <1>4 DEF Verify
  <2>2. /\ stage' \in [Callers -> Stages] /\ stage'[c] = "verified"
        /\ \A d \in Callers : d # c => stage'[d] = stage[d]
    BY <1>1, <2>1, StageIsTyped DEF Stages, Waiting
  <2>3. ~reused
    BY <1>4 DEF IInv, Safe, NumberIsTheRuns, IdentityMatches, Living
  <2>4. Ends
    BY <1>1, <2>1, UnchangedEnds
  <2> QED BY <1>1, <1>2, <1>3, <2>1, <2>2, <2>3, <2>4 DEF CallMoves, Typed
<1>5. CASE ~IdentityMatches
  <2>1. Fail(c, leader) /\ leader \in Leaders
    BY <1>1, <1>5 DEF Verify, Typed
  <2> QED BY <1>1, <1>2, <1>3, <2>1, FailEnds DEF CallMoves, Typed
<1> QED BY <1>4, <1>5

LEMMA VerifyTimesOutMoves ==
  ASSUME IInv, NEW c \in Callers, VerifyTimesOut(c) PROVE CallMoves(c)
<1>1. Typed /\ stage[c] = "verifying" /\ start.pc # "idle"
  BY WaitingHasBegun DEF IInv, VerifyTimesOut
<1>2. UNCHANGED <<helper, reused, runner, stdout, row, up, sup, sent, stray, late>>
  BY DEF VerifyTimesOut, program
<1>3. sent[c] = "SIGKILL" => leader # "alive"
  BY DEF IInv, Safe, EndIsReal
<1>4. psFailures' \in 0..MaxPsFailures
  BY <1>1 DEF VerifyTimesOut, PsTimesOut, Typed
<1>5. Fail(c, leader) /\ leader \in Leaders
  BY <1>1 DEF VerifyTimesOut, Typed
<1> QED BY <1>1, <1>2, <1>3, <1>4, <1>5, FailEnds DEF CallMoves, Typed

LEMMA SignalMoves == ASSUME IInv, NEW c \in Callers, Signal(c) PROVE CallMoves(c)
<1>1. Typed /\ stage[c] = "verified" /\ start.pc # "idle"
  BY WaitingHasBegun DEF IInv, Signal
<1>2. UNCHANGED <<reused, runner, stdout, row, up, sup, psFailures, late>>
  BY DEF Signal, program
<1>3. PICK l, h :
        /\ l \in IF Escalated(c) = "SIGKILL" THEN {Killed(leader)} ELSE TermOutcomes(leader)
        /\ h \in IF Escalated(c) = "SIGKILL" THEN {FALSE} ELSE {helper, FALSE}
        /\ helper' = h
        /\ IF (GroupExists \/ reused) /\ row.status # "completed"
             THEN /\ sent' = [sent EXCEPT ![c] = Escalated(c)]
                  /\ stage' = [stage EXCEPT ![c] = "waiting"]
                  /\ leader' = l /\ UNCHANGED <<start, reader, adapter>>
             ELSE Fail(c, l) /\ UNCHANGED sent
  BY DEF Signal
<1>4. /\ l \in Leaders /\ (leader # "alive" => l = leader)
      /\ Escalated(c) = "SIGKILL" => l # "alive"
  BY <1>1, <1>3, KilledIsTyped DEF TermOutcomes, Typed, Leaders
<1>5. helper' \in BOOLEAN /\ (helper' => helper)
  BY <1>1, <1>3 DEF Typed
<1>6. \/ stray' = stray
      \/ reused /\ stage[c] = "verified" /\ stray' = stray \cup {c}
  BY <1>1 DEF Signal
<1>7. sent[c] = "SIGKILL" => leader # "alive"
  BY DEF IInv, Safe, EndIsReal
<1>8. CASE (GroupExists \/ reused) /\ row.status # "completed"
  <2>1. /\ sent' = [sent EXCEPT ![c] = Escalated(c)]
        /\ stage' = [stage EXCEPT ![c] = "waiting"]
        /\ leader' = l /\ UNCHANGED <<start, reader, adapter>>
    BY <1>3, <1>8
  <2>2. /\ stage' \in [Callers -> Stages] /\ stage'[c] = "waiting"
        /\ \A d \in Callers : d # c => stage'[d] = stage[d]
    BY <1>1, <2>1, StageIsTyped DEF Stages, Waiting
  <2>3. Escalated(c) \in Words
    BY DEF Escalated, Words, Signals
  <2>4. /\ sent' \in [Callers -> Words] /\ sent'[c] = Escalated(c)
        /\ \A d \in Callers : d # c => sent'[d] = sent[d]
    BY <1>1, <2>1, <2>3, SentIsTyped
  <2>5. Ends
    BY <1>1, <2>1, UnchangedEnds
  <2> QED BY <1>1, <1>2, <1>4, <1>5, <1>6, <2>1, <2>2, <2>4, <2>5 DEF CallMoves, Typed
<1>9. CASE ~((GroupExists \/ reused) /\ row.status # "completed")
  <2>1. Fail(c, l) /\ sent' = sent
    BY <1>3, <1>9
  <2>2. /\ stage' \in [Callers -> Stages] /\ stage'[c] = "thrown"
        /\ \A d \in Callers : d # c => stage'[d] = stage[d]
        /\ leader' \in Leaders /\ (l # "alive" => leader' = l)
        /\ Ends
    BY <1>1, <1>4, <2>1, FailEnds
  <2> QED BY <1>1, <1>2, <1>4, <1>5, <1>6, <1>7, <2>1, <2>2 DEF CallMoves, Typed
<1> QED BY <1>8, <1>9

LEMMA CancelRunMoves == ASSUME IInv, NEW c \in Cancels, CancelRun(c) PROVE CallMoves(c)
<1>1. Typed /\ stage[c] = "idle" /\ start.pc # "idle" /\ c \in Callers
  BY DEF IInv, CancelRun, Callers
<1>2. sent[c] = "none"
  BY <1>1 DEF IInv, Safe, ReturnIsSettled
<1>3. UNCHANGED <<leader, helper, reused, stdout, up, start, sup, reader, adapter,
                  psFailures, stray, late>>
  BY DEF CancelRun, os, history
<1>4. Ends
  BY <1>1, <1>3, UnchangedEnds
<1>5. CASE adapter.registered
  <2>1. Begun(c) /\ row' = row
    BY <1>1, <1>5, BeginBegins DEF CancelRun
  <2> QED BY <1>1, <1>2, <1>3, <1>4, <2>1 DEF CallMoves, Typed, Begun
<1>6. CASE ~adapter.registered
  <2>1. stage' = [stage EXCEPT ![c] = "returned"] /\ UNCHANGED <<row, sent, runner>>
    BY <1>6 DEF CancelRun
  <2>2. /\ stage' \in [Callers -> Stages] /\ stage'[c] = "returned"
        /\ \A d \in Callers : d # c => stage'[d] = stage[d]
    BY <1>1, <2>1, StageIsTyped DEF Stages, Over
  <2> QED BY <1>1, <1>2, <1>3, <1>4, <2>1, <2>2 DEF CallMoves, Typed
<1> QED BY <1>5, <1>6

LEMMA NoSessionMoves == ASSUME IInv, NoSession PROVE CallMoves(Starter)
<1>1. /\ Typed /\ start.pc \in {"session", "registered"} /\ Starter \in Callers
      /\ Starter \notin Cancels
  BY DEF IInv, NoSession, Callers
<1>2. Begun(Starter) /\ row' = row
  BY <1>1, BeginBegins DEF NoSession
<1>3. UNCHANGED <<leader, helper, reused, stdout, up, sup, psFailures, stray, late>>
  BY DEF NoSession, os, history
<1>4. sent[Starter] = "SIGKILL" => leader # "alive"
  BY <1>1 DEF IInv, Safe, EndIsReal
<1>5. Ends
  <2>1. CASE FirstStage = "thrown"
    BY <1>1, <2>1, ThrowsEnds DEF NoSession
  <2>2. CASE FirstStage # "thrown"
    <3>1. start' = [start EXCEPT !.pc = "unwinding"] /\ UNCHANGED <<adapter, reader>>
      BY <2>2 DEF NoSession
    <3> QED BY <1>1, <3>1, StartsAreTyped DEF Ends, Typed, Pcs
  <2> QED BY <2>1, <2>2
<1> QED BY <1>1, <1>2, <1>3, <1>4, <1>5 DEF CallMoves, Typed, Begun

LEMMA RefuseMoves == ASSUME IInv, Refuse PROVE CallMoves(Reader)
<1>1. /\ Typed /\ reader \in {"reading", "tool"} /\ Reader \in Callers
      /\ Reader \notin Cancels
  BY DEF IInv, Refuse, TakeMessage, Callers
<1>2. start.pc # "idle"
  BY <1>1 DEF IInv, Safe, NotBegun
<1>3. Begun(Reader) /\ row' = row
  BY <1>1, BeginBegins DEF Refuse
<1>4. UNCHANGED <<helper, reused, up, start, sup, adapter, psFailures, stray, late>>
  BY DEF Refuse, history
<1>5. stdout' \in Seq(Messages)
  BY <1>1, QueueIsTyped DEF Refuse, TakeMessage, Typed
<1>6. leader' \in Leaders /\ (leader # "alive" => leader' = leader)
  BY <1>1, KilledIsTyped DEF Refuse, Typed
<1>7. sent[Reader] = "SIGKILL" => leader # "alive"
  BY <1>1 DEF IInv, Safe, EndIsReal
<1>8. Ends
  BY <1>1, <1>4 DEF Refuse, Ends, Typed, Readers, Talking
<1> QED BY <1>1, <1>2, <1>3, <1>4, <1>5, <1>6, <1>7, <1>8 DEF CallMoves, Typed, Begun

-----------------------------------------------------------------------------
(* The theorems                                                            *)

LEMMA InitIInv == Init => IInv
<1> SUFFICES ASSUME Init PROVE IInv
  OBVIOUS
<1>1. <<>> \in Seq(Messages)
  OBVIOUS
<1>2. Typed
  <2>1. runner \in Runners /\ row \in Rows /\ sup \in Supervisors /\ adapter \in Adapters
    BY DEF Init, Runners, Rows, Supervisors, Adapters
  <2>2. start \in Starts
    BY DEF Init, Starts, Pcs
  <2>3. stage \in [Callers -> Stages] /\ sent \in [Callers -> Words]
    <3>1. "idle" \in Stages /\ "none" \in Words
      BY DEF Stages, Over, Words
    <3>2. stage = [c \in Callers |-> "idle"] /\ sent = [c \in Callers |-> "none"]
      BY DEF Init
    <3> QED BY <3>1, <3>2
  <2>4. leader \in Leaders /\ helper \in BOOLEAN /\ reused \in BOOLEAN /\ reader \in Readers
    BY DEF Init, Leaders, Readers
  <2>5. stdout \in Seq(Messages) /\ up \in {"up", "down", "later"}
    BY <1>1 DEF Init
  <2>6. psFailures \in 0..MaxPsFailures /\ stray \subseteq Callers /\ late \subseteq Callers
    <3>1. psFailures = 0 /\ stray = {} /\ late = {}
      BY DEF Init
    <3> QED BY <3>1, ProviderAssumption
  <2> QED BY <2>1, <2>2, <2>3, <2>4, <2>5, <2>6 DEF Typed
<1>3. Safe
  BY DEF Init, Safe, NotBegun, EndIsReal, ReturnIsSettled, NumberIsTheRuns,
     OnlyVerifiedIsSignalled, NamedFirst, HelperIsTraceable, Callers
<1> QED BY <1>2, <1>3 DEF IInv

LEMMA StepIInv == IInv /\ [Next]_vars => IInv'
<1> SUFFICES ASSUME IInv, [Next]_vars PROVE IInv'
  OBVIOUS
<1>1. CASE Worker
  <2>1. Starter \in Callers /\ Reader \in Callers
    BY DEF Callers
  <2>2. ASSUME NoSession \/ Refuse PROVE IInv'
    BY <2>1, <2>2, NoSessionMoves, RefuseMoves, CallMovesPreserves
  <2> QED BY <1>1, <2>2, SpawnPreserves, ProbeAnswersPreserves, ProbedPreserves,
         UnconfirmedPreserves, SendCommandPreserves, SessionBegunPreserves,
         TakeReadyPreserves, TakeEventPreserves, TakeToolCallPreserves,
         AnswerToolPreserves, StreamEndsPreserves DEF Worker
<1>2. CASE Environment
  BY <1>2, RunnerReadyPreserves, RunnerStartsPreserves, RunnerIgnoresCancelPreserves,
     RunnerWorksPreserves, RunnerFinishesPreserves, RunnerExitsPreserves,
     HelperExitsPreserves, ReusePreserves, CrashPreserves, ResolvePreserves,
     ProbeTimesOutPreserves DEF Environment
<1>3. CASE Reap
  BY <1>3, ReapPreserves
<1>4. ASSUME NEW c \in Callers, Cancelling(c) \/ VerifyTimesOut(c) PROVE IInv'
  <2>1. CallMoves(c)
    BY <1>4, ExitAwaitedMoves, GraceEndsMoves, VerifyMoves, SignalMoves,
       VerifyTimesOutMoves DEF Cancelling
  <2> QED BY <2>1, CallMovesPreserves
<1>5. ASSUME NEW c \in Cancels, CancelRun(c) PROVE IInv'
  BY <1>5, CancelRunMoves, CallMovesPreserves DEF Callers
<1>6. CASE UNCHANGED vars
  BY <1>6 DEF vars, os, program, calls, history, IInv, Typed, Safe, NotBegun, EndIsReal,
     ReturnIsSettled, NumberIsTheRuns, OnlyVerifiedIsSignalled, NamedFirst,
     HelperIsTraceable
<1> QED BY <1>1, <1>2, <1>3, <1>4, <1>5, <1>6 DEF Next

\* Along every run of the process, its supervisor and its cancellations, the
\* variables keep their types and the parts above hold.
THEOREM ProcessInvariant == Spec => []IInv
BY InitIInv, StepIInv, PTL DEF Spec

\* The records of the supervisor, the journal and the adapter keep their types.
THEOREM TypeCorrect == Spec => []TypeOK
<1>1. IInv => TypeOK
  BY TypedIsTypeOK DEF IInv
<1> QED BY <1>1, ProcessInvariant, PTL

\* However exits, timers and cancels race, a run that the journal calls completed
\* or that a cancel reports as cancelled has a runner that has ended.
THEOREM OverMeansGoneHolds == Spec => []OverMeansGone
<1>1. IInv => OverMeansGone
  BY DEF IInv, Safe, EndIsReal, ReturnIsSettled, OverMeansGone
<1> QED BY <1>1, ProcessInvariant, PTL

\* However many cancels run and whenever the system gives the number away, a
\* process of somebody else's is only signalled by a cancel that ps had answered
\* while the number was the run's.
THEOREM OnlyVerifiedIsSignalledHolds == Spec => []OnlyVerifiedIsSignalled
<1>1. IInv => OnlyVerifiedIsSignalled
  BY DEF IInv, Safe
<1> QED BY <1>1, ProcessInvariant, PTL

\* A provider's executable never works before the journal names its group, so that
\* a worker that dies leaves no process the next one could not find.
THEOREM HelperIsTraceableHolds == Spec => []HelperIsTraceable
<1>1. IInv => HelperIsTraceable
  BY DEF IInv, Safe
<1> QED BY <1>1, ProcessInvariant, PTL
=============================================================================
