---------------------------- MODULE ProviderProcess ----------------------------
(***************************************************************************)
(* The process of one provider run: RunnerBackedAdapter                    *)
(* (runner-backed-adapter.ts) launches it with SupervisedProviderRunner,   *)
(* ProviderProcessSupervisor spawns it in a process group of its own,      *)
(* names it in the operation journal, and cancels it in three steps: abort *)
(* on its stdin, SIGTERM, SIGKILL, each signal after ps has confirmed that *)
(* the group's leader is still the run's runner.                           *)
(*                                                                         *)
(* TaskRun looks at the same run from the task engine and takes the        *)
(* process as one Boolean; this module takes the engine as the calls of    *)
(* cancelRun.  A step is the code between two awaits that really wait.     *)
(***************************************************************************)
EXTENDS Sequences, FiniteSets, Naturals

CONSTANTS
  Cancels,      \* calls of the adapter's cancelRun
  Reader,       \* the cancel of launch's message loop, when a message is refused
  Starter,      \* the cancel of start, when no session begins
  MaxMessages,  \* bound: messages a runner sends while it works
  MaxPsFailures \* bound: ps runs that time out

Callers == Cancels \cup {Reader, Starter}
ASSUME ProviderAssumption ==
  /\ Reader \notin Cancels /\ Starter \notin Cancels /\ Reader # Starter
  /\ MaxMessages \in Nat /\ MaxPsFailures \in Nat

VARIABLES
  leader,     \* the runner's process, which leads the group
  helper,     \* does the provider's executable, in the same group, run?
  reused,     \* does another process have the group's number?
  runner,     \* what the runner's program is doing, and what it has been told
  stdout,     \* the runner's messages that are not read yet
  row,        \* operation_journal: status, and whether it names the process
  up,         \* the worker: up, down, or a later generation
  start,      \* RunnerBackedAdapter.start
  sup,        \* ProviderProcessSupervisor: in the map, exit awaited, exit seen
  reader,     \* the message loop of launch
  adapter,    \* RunnerBackedAdapter: in the map, completion, session seen
  stage,      \* where each cancel is
  sent,       \* the last thing each cancel sent, and wrote down as last_signal
  psFailures, \* ps runs that timed out
  stray,      \* cancels that signalled another process
  late        \* cancels that ps had answered when the number was reused

os == <<leader, helper, reused>>
program == <<runner, stdout>>
calls == <<stage, sent>>
history == <<psFailures, stray, late>>
vars == <<os, program, row, up, start, sup, reader, adapter, calls, history>>

Signals == {"SIGTERM", "SIGKILL"}
Waiting == {"waiting", "verifying", "verified", "hung"}
Over == {"idle", "returned", "thrown", "lost"}

TypeOK ==
  /\ leader \in {"none", "alive", "killed", "zombie", "reaped"}
  /\ helper \in BOOLEAN /\ reused \in BOOLEAN
  /\ runner \in [ phase : {"none", "boot", "idle", "running", "ended"},
                  commanded : BOOLEAN, asked : BOOLEAN, left : 0..MaxMessages ]
  /\ stdout \in Seq({"ready", "session", "tool", "bad", "result", "cancelled"})
  /\ row \in [ status : {"none", "intent", "completed", "needs_attention"},
               identity : BOOLEAN ]
  /\ up \in {"up", "down", "later"}
  /\ start \in [ pc : {"idle", "probing", "probed", "booting", "registered", "session",
                       "unwinding", "started", "failed", "lost"},
                 seen : BOOLEAN, resume : BOOLEAN ]
  /\ sup \in [active : BOOLEAN, listening : BOOLEAN, exited : BOOLEAN]
  /\ reader \in {"off", "reading", "tool", "cancelling", "ended"}
  /\ adapter \in [ registered : BOOLEAN, session : BOOLEAN,
                   completion : {"none", "completed", "failed", "cancelled"} ]
  /\ stage \in [Callers -> Waiting \cup Over]
  /\ sent \in [Callers -> {"none", "abort"} \cup Signals]
  /\ psFailures \in 0..MaxPsFailures
  /\ stray \subseteq Callers /\ late \subseteq Callers

Init ==
  /\ leader = "none" /\ helper = FALSE /\ reused = FALSE
  /\ runner = [phase |-> "none", commanded |-> FALSE, asked |-> FALSE, left |-> MaxMessages]
  /\ stdout = <<>>
  /\ row = [status |-> "none", identity |-> FALSE]
  /\ up = "up"
  /\ \E resume \in BOOLEAN : start = [pc |-> "idle", seen |-> FALSE, resume |-> resume]
  /\ sup = [active |-> FALSE, listening |-> FALSE, exited |-> FALSE]
  /\ reader = "off"
  /\ adapter = [registered |-> FALSE, session |-> FALSE, completion |-> "none"]
  /\ stage = [c \in Callers |-> "idle"] /\ sent = [c \in Callers |-> "none"]
  /\ psFailures = 0 /\ stray = {} /\ late = {}

-----------------------------------------------------------------------------
(* The supervisor's record of the process *)

Living == {"alive", "killed"}
\* kill(-pgid) reaches somebody of the run's group.
GroupExists == leader \in Living \cup {"zombie"} \/ helper

\* ProcessIdentityProbe.read: ps shows the runner with the run's arguments.  A
\* zombie or another process is refused, and a run of ps may time out.
PsAnswers(ok) == ok = (leader \in Living)
PsTimesOut == psFailures < MaxPsFailures

\* Mutant: another status is written.
RowObserved == [row EXCEPT !.status = IF row.identity THEN "observed" ELSE @]

\* completeProviderProcess changes a row that names its run and is not completed.
RowCompleted == [row EXCEPT !.status = IF row.identity THEN "completed" ELSE @]
\* complete: the process is taken off the map once.
Complete ==
  IF sup.active THEN sup' = [sup EXCEPT !.active = FALSE] /\ row' = RowCompleted
                ELSE UNCHANGED <<sup, row>>

\* SIGKILL ends a process that is still there; SIGTERM may be handled or ignored.
Killed(process) == IF process = "alive" THEN "killed" ELSE process
TermOutcomes(process) == IF process = "alive" THEN {"alive", "zombie"} ELSE {process}

\* settle: the first result counts and takes the run off the adapter's map.
Settled(result) ==
  [adapter EXCEPT !.registered = FALSE, !.completion = IF @ = "none" THEN result ELSE @]

-----------------------------------------------------------------------------
(* Starting a run *)

\* launch: the intent is recorded, then the child is spawned.
Spawn ==
  /\ up = "up" /\ start.pc = "idle"
  /\ row' = [row EXCEPT !.status = "intent"]
  /\ \/ /\ leader' = "alive" /\ runner' = [runner EXCEPT !.phase = "boot"]
        /\ start' = [start EXCEPT !.pc = "probing"]
     \/ /\ start' = [start EXCEPT !.pc = "failed"]   \* a child without a pid
        /\ UNCHANGED <<leader, runner>>
  /\ UNCHANGED <<helper, reused, stdout, up, sup, reader, adapter, calls, history>>

ProbeAnswers ==
  /\ start.pc = "probing"
  /\ \E ok \in BOOLEAN : PsAnswers(ok) /\ start' = [start EXCEPT !.pc = "probed", !.seen = ok]
  /\ UNCHANGED <<os, program, row, up, sup, reader, adapter, calls, history>>
ProbeTimesOut ==
  /\ start.pc = "probing" /\ PsTimesOut
  /\ start' = [start EXCEPT !.pc = "probed", !.seen = FALSE]
  /\ psFailures' = psFailures + 1
  /\ UNCHANGED <<os, program, row, up, sup, reader, adapter, calls, stray, late>>

\* recordProviderIdentity, which follows active.set without a wait.
RowNamed == [row EXCEPT !.identity = TRUE]

\* spawn after ps: only an exit from here on is heard.
Probed ==
  /\ start.pc = "probed" /\ start.seen
  /\ sup' = [active |-> TRUE, listening |-> leader # "reaped", exited |-> FALSE]
  /\ row' = RowNamed
  /\ start' = [start EXCEPT !.pc = "booting", !.seen = FALSE]
  /\ reader' = "reading"
  /\ UNCHANGED <<os, program, up, adapter, calls, history>>
\* A process that ps does not confirm is killed, by its own number.
Unconfirmed ==
  /\ start.pc = "probed" /\ ~start.seen
  /\ leader' = Killed(leader)
  /\ start' = [start EXCEPT !.pc = "failed"]
  /\ UNCHANGED <<helper, reused, program, row, up, sup, reader, adapter, calls, history>>

\* The command is written; on a resumed run nothing more is awaited.
SendCommand ==
  /\ start.pc = "registered" /\ leader \in Living
  /\ runner' = [runner EXCEPT !.commanded = TRUE]
  /\ start' = [start EXCEPT !.pc = IF start.resume THEN "started" ELSE "session"]
  /\ UNCHANGED <<os, stdout, row, up, sup, reader, adapter, calls, history>>
SessionBegun ==
  /\ start.pc = "session" /\ adapter.session
  /\ start' = [start EXCEPT !.pc = "started"]
  /\ UNCHANGED <<os, program, row, up, sup, reader, adapter, calls, history>>

-----------------------------------------------------------------------------
(* ProviderProcessSupervisor.cancel *)

\* Where cancel's first step leaves a call.  A pipe whose reader is gone refuses
\* the write; a stream that is destroyed neither drains nor fails.
FirstStage ==
  CASE ~sup.active        -> "thrown"
    [] leader \in Living  -> "waiting"
    [] leader = "zombie"  -> "thrown"
    [] OTHER              -> "hung"
\* To the abort, and to the timer that follows it.
Begin(c) ==
  /\ stage' = [stage EXCEPT ![c] = FirstStage]
  /\ IF FirstStage = "waiting"
       THEN /\ sent' = [sent EXCEPT ![c] = "abort"]
            /\ runner' = [runner EXCEPT !.asked = TRUE]
       ELSE UNCHANGED <<sent, runner>>
  /\ UNCHANGED row

\* What follows the end of the supervisor's cancel: cancelRun settles the run,
\* start fails, launch's loop kills a process that could not be cancelled.
Returns(c) ==
  CASE c \in Cancels -> adapter' = Settled("cancelled") /\ UNCHANGED <<start, reader>>
    [] c = Starter -> /\ adapter' = Settled("failed")
                      /\ start' = [start EXCEPT !.pc = "failed"] /\ UNCHANGED reader
    [] c = Reader -> reader' = "ended" /\ UNCHANGED <<adapter, start>>
Throws(c) ==
  CASE c \in Cancels -> UNCHANGED <<adapter, start, reader>>
    [] OTHER -> Returns(c)

\* Mutant: a cancel whose timer fires is over, whatever it has tried.
TriedAll(c) == "SIGKILL"

\* What a cancel has tried when its timer fires.
TriedLast(c) == sent[c]

\* waitForExit saw the exit.
ExitAwaited(c) ==
  /\ stage[c] = "waiting" /\ sup.exited
  /\ stage' = [stage EXCEPT ![c] = "returned"]
  /\ Complete /\ Returns(c)
  /\ UNCHANGED <<os, program, up, sent, history>>
\* The timer came first: on to the next signal, or after SIGKILL to the end.
GraceEnds(c) ==
  /\ stage[c] = "waiting" /\ ~sup.exited
  /\ IF TriedLast(c) = "SIGKILL"
       THEN stage' = [stage EXCEPT ![c] = "returned"] /\ Complete /\ Returns(c)
       ELSE /\ stage' = [stage EXCEPT ![c] = "verifying"]
            /\ UNCHANGED <<row, sup, start, reader, adapter>>
  /\ UNCHANGED <<os, program, up, sent, history>>

\* Mutant: a process is signalled whatever ps says.
AnyProcessIsTheRuns == TRUE

\* verify: the identity ps shows is the recorded one.
IdentityMatches == leader \in Living

\* The call fails: nothing it has done is undone.
Fail(c, nextLeader) ==
  /\ stage' = [stage EXCEPT ![c] = "thrown"]
  /\ leader' = IF c = Reader THEN Killed(nextLeader) ELSE nextLeader
  /\ Throws(c)

Verify(c) ==
  /\ stage[c] = "verifying"
  /\ IF IdentityMatches
       THEN /\ stage' = [stage EXCEPT ![c] = "verified"]
            /\ UNCHANGED <<leader, start, reader, adapter>>
       ELSE Fail(c, leader)
  /\ UNCHANGED <<helper, reused, program, row, up, sup, sent, history>>
VerifyTimesOut(c) ==
  /\ stage[c] = "verifying" /\ PsTimesOut
  /\ Fail(c, leader)
  /\ psFailures' = psFailures + 1
  /\ UNCHANGED <<helper, reused, program, row, up, sup, sent, stray, late>>

\* Mutant: SIGKILL is never sent.
NeverKill(c) == "SIGTERM"

\* After the abort SIGTERM, after SIGTERM SIGKILL.
Escalated(c) == IF sent[c] = "abort" THEN "SIGTERM" ELSE "SIGKILL"
\* kill(-pgid), then recordProviderSignal, which refuses a completed row.
Signal(c) ==
  /\ stage[c] = "verified"
  /\ \E l \in IF Escalated(c) = "SIGKILL" THEN {Killed(leader)} ELSE TermOutcomes(leader),
        h \in IF Escalated(c) = "SIGKILL" THEN {FALSE} ELSE {helper, FALSE} :
       /\ helper' = h
       /\ IF (GroupExists \/ reused) /\ row.status # "completed"
            THEN /\ sent' = [sent EXCEPT ![c] = Escalated(c)]
                 /\ stage' = [stage EXCEPT ![c] = "waiting"]
                 /\ leader' = l /\ UNCHANGED <<start, reader, adapter>>
            ELSE Fail(c, l) /\ UNCHANGED sent
  /\ stray' = IF reused THEN stray \cup {c} ELSE stray
  /\ UNCHANGED <<reused, program, row, up, sup, psFailures, late>>

-----------------------------------------------------------------------------
(* Who cancels *)

\* cancelRun: a run that is not on the adapter's map is left alone.
CancelRun(c) ==
  /\ c \in Cancels /\ up = "up" /\ stage[c] = "idle" /\ start.pc # "idle"
  /\ IF adapter.registered THEN Begin(c)
     ELSE stage' = [stage EXCEPT ![c] = "returned"] /\ UNCHANGED <<row, sent, runner>>
  /\ UNCHANGED <<os, stdout, up, start, sup, reader, adapter, history>>

\* The timer of start's race, of 30 s or less, runs while a session is awaited.
SessionOverdue == start.pc = "session"

\* No session: the timer, or a run that is over.  A command that cannot be written.
NoSession ==
  /\ \/ start.pc = "session" /\ ~adapter.session
        /\ (adapter.completion # "none" \/ SessionOverdue)
     \/ start.pc = "registered" /\ leader = "zombie"
  /\ Begin(Starter)
  /\ IF FirstStage = "thrown"
       THEN Throws(Starter)
       ELSE start' = [start EXCEPT !.pc = "unwinding"] /\ UNCHANGED <<adapter, reader>>
  /\ UNCHANGED <<os, stdout, up, sup, history>>

-----------------------------------------------------------------------------
(* launch's message loop *)

Next1 == Head(stdout)
TakeMessage == reader = "reading" /\ stdout # <<>> /\ stdout' = Tail(stdout)

\* runner.ready answers launch: the run is put on the adapter's map.
TakeReady ==
  /\ TakeMessage /\ Next1 = "ready"
  /\ start' = [start EXCEPT !.pc = "registered"]
  /\ adapter' = [adapter EXCEPT !.registered = TRUE]
  /\ UNCHANGED <<os, runner, row, up, sup, reader, calls, history>>
TakeEvent ==
  /\ TakeMessage /\ Next1 \in {"session", "result", "cancelled"}
  /\ adapter' = CASE Next1 = "session" -> [adapter EXCEPT !.session = TRUE]
                  [] Next1 = "result" -> Settled("completed")
                  [] Next1 = "cancelled" -> Settled("cancelled")
  /\ UNCHANGED <<os, runner, row, up, start, sup, reader, calls, history>>
TakeToolCall ==
  /\ TakeMessage /\ Next1 = "tool"
  /\ reader' = "tool"
  /\ UNCHANGED <<os, runner, row, up, start, sup, adapter, calls, history>>
AnswerTool ==
  /\ reader = "tool" /\ leader \in Living
  /\ reader' = "reading"
  /\ UNCHANGED <<os, program, row, up, start, sup, adapter, calls, history>>

\* A message that accept refuses, an answer that cannot be written: the run is
\* cancelled, and a process that cannot be cancelled is killed.
Refuse ==
  /\ \/ TakeMessage /\ Next1 = "bad"
     \/ reader = "tool" /\ leader = "zombie" /\ UNCHANGED stdout
  /\ Begin(Reader)
  /\ reader' = IF FirstStage = "thrown" THEN "ended" ELSE "cancelling"
  /\ leader' = IF FirstStage = "thrown" THEN Killed(leader) ELSE leader
  /\ UNCHANGED <<helper, reused, up, start, sup, adapter, history>>

\* The stream ends with the runner: only launch, while it waits, is told.
StreamEnds ==
  /\ reader = "reading" /\ stdout = <<>> /\ leader \in {"zombie", "reaped"}
  /\ reader' = "ended"
  /\ start' = [start EXCEPT !.pc = IF @ = "booting" THEN "failed" ELSE @]
  /\ UNCHANGED <<os, program, row, up, sup, adapter, calls, history>>

-----------------------------------------------------------------------------
(* The runner's program (provider-runner/index.ts, claude-runtime.ts).     *)
(* What it does when the worker is gone, nobody reads.                     *)

Emit(message) == stdout' = Append(stdout, message)
InRunner(phase) == leader = "alive" /\ up = "up" /\ runner.phase = phase
elsewhere == <<leader, reused, row, up, start, sup, reader, adapter, calls, history>>

RunnerReady ==
  /\ InRunner("boot") /\ runner' = [runner EXCEPT !.phase = "idle"]
  /\ Emit("ready")
  /\ UNCHANGED <<helper, elsewhere>>
\* The command is read and the provider's executable started.
RunnerStarts ==
  /\ InRunner("idle") /\ runner.commanded
  /\ runner' = [runner EXCEPT !.phase = "running", !.asked = FALSE]
  /\ helper' = TRUE
  /\ UNCHANGED <<stdout, elsewhere>>
\* A cancel that arrives before the command finds no runtime to stop.
RunnerIgnoresCancel ==
  /\ InRunner("idle") /\ runner.asked /\ ~runner.commanded
  /\ runner' = [runner EXCEPT !.asked = FALSE]
  /\ UNCHANGED <<helper, stdout, elsewhere>>
RunnerWorks ==
  /\ InRunner("running") /\ runner.left > 0
  /\ runner' = [runner EXCEPT !.left = @ - 1]
  /\ \E message \in {"session", "tool", "bad"} : Emit(message)
  /\ UNCHANGED <<helper, elsewhere>>
RunnerFinishes ==
  /\ InRunner("running") /\ runner' = [runner EXCEPT !.phase = "ended"]
  /\ \E message \in {"result"} \cup (IF runner.asked THEN {"cancelled"} ELSE {}) : Emit(message)
  /\ UNCHANGED <<helper, elsewhere>>

-----------------------------------------------------------------------------
(* The operating system and the worker *)

\* The runner may end at any time, of itself or of a SIGKILL; so may the executable.
RunnerExits ==
  /\ leader \in Living /\ leader' = "zombie"
  /\ UNCHANGED <<helper, reused, program, row, up, start, sup, reader, adapter, calls, history>>
HelperExits ==
  /\ helper /\ helper' = FALSE
  /\ UNCHANGED <<leader, reused, program, row, up, start, sup, reader, adapter, calls, history>>
\* The worker takes note of the exit: exited resolves, if it waits for it.
Reap ==
  /\ leader = "zombie" /\ leader' = "reaped"
  /\ IF up = "up" /\ sup.listening
       THEN /\ sup' = [sup EXCEPT !.active = FALSE, !.exited = TRUE]
            /\ row' = IF sup.active THEN RowCompleted ELSE row
       ELSE UNCHANGED <<sup, row>>
  /\ UNCHANGED <<helper, reused, program, up, start, reader, adapter, calls, history>>
Reuse ==
  /\ leader = "reaped" /\ ~helper /\ ~reused /\ reused' = TRUE
  /\ late' = {c \in Callers : stage[c] = "verified"}
  /\ UNCHANGED <<leader, helper, program, row, up, start, sup, reader, adapter, calls, psFailures, stray>>

\* The worker dies: what it knew is gone, the detached group goes on.
Crash ==
  /\ up = "up" /\ start.pc # "idle" /\ up' = "down"
  /\ start' = [start EXCEPT !.pc = "lost"] /\ reader' = "ended"
  /\ sup' = [active |-> FALSE, listening |-> FALSE, exited |-> FALSE]
  /\ adapter' = [adapter EXCEPT !.registered = FALSE]
  /\ stage' = [c \in Callers |-> IF stage[c] \in Waiting THEN "lost" ELSE stage[c]]
  /\ stdout' = <<>>
  /\ UNCHANGED <<os, runner, row, sent, history>>
\* A later worker resolves the interrupted task; the reconciler knows nothing of a
\* provider process and calls it uncertain.
Resolve ==
  /\ up = "down" /\ up' = "later"
  /\ row' = [row EXCEPT !.status = IF @ = "completed" THEN @ ELSE "needs_attention"]
  /\ UNCHANGED <<os, program, start, sup, reader, adapter, calls, history>>

-----------------------------------------------------------------------------
Worker ==
  \/ Spawn \/ ProbeAnswers \/ Probed \/ Unconfirmed \/ SendCommand \/ SessionBegun \/ NoSession
  \/ TakeReady \/ TakeEvent \/ TakeToolCall \/ AnswerTool \/ Refuse \/ StreamEnds
Cancelling(c) == ExitAwaited(c) \/ GraceEnds(c) \/ Verify(c) \/ Signal(c)
Environment ==
  \/ RunnerReady \/ RunnerStarts \/ RunnerIgnoresCancel \/ RunnerWorks \/ RunnerFinishes
  \/ RunnerExits \/ HelperExits \/ Reuse \/ Crash \/ Resolve \/ ProbeTimesOut
Next ==
  \/ Worker \/ Environment \/ Reap
  \/ \E c \in Callers : Cancelling(c) \/ VerifyTimesOut(c)
  \/ \E c \in Cancels : CancelRun(c)

\* The worker's promises and timers, and the system's SIGKILL, get their turn;
\* neither the runner, the provider nor the user has to do anything.
Fairness ==
  /\ WF_vars(Worker) /\ WF_vars(Reap)
  /\ WF_vars(leader = "killed" /\ RunnerExits)
  /\ \A c \in Callers : WF_vars(Cancelling(c))
Spec == Init /\ [][Next]_vars
FairSpec == Spec /\ Fairness

-----------------------------------------------------------------------------
(* Properties *)

\* A run is called over only when its runner has ended or has been sent SIGKILL,
\* whichever of the exit, the timers and the cancels is first: by the journal, and
\* by a cancel that reached it and returned (the task engine reads cancelRun so).
OverMeansGone ==
  /\ row.status = "completed" => leader # "alive"
  /\ \A c \in Cancels : stage[c] = "returned" /\ sent[c] # "none" =>
       leader # "alive" /\ adapter.completion # "none"

\* A process of somebody else's is signalled only if it got the number after ps
\* had confirmed the run's: never on the word of an old number.
OnlyVerifiedIsSignalled == stray \subseteq late

\* An executable that works, and could outlive a crash of the worker, belongs to a
\* group that the journal names.
HelperIsTraceable == helper => row.identity

\* A cancel that could reach the process has its end as a consequence, as long as
\* the worker lives and ps answers: no race of exits, timers and other cancels
\* leaves the runner at work.
CancelEndsRunner == \A c \in Callers :
  sent[c] = "abort" ~> leader \notin Living \/ up # "up" \/ psFailures > 0

-----------------------------------------------------------------------------
\* What the documents say and the code does not do: TLC refutes it (see the README).

\* A cancellation that had to signal leaves no member of the group (the design:
\* the supervisor ends the whole process group, not only the provider's child).
WholeGroupEnds == \A c \in Callers :
  stage[c] = "returned" /\ sent[c] \in Signals => ~helper
=============================================================================
