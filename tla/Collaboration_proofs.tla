------------------------- MODULE Collaboration_proofs -------------------------
(***************************************************************************)
(* Proofs about Collaboration for every number of calls, keys, checkpoints *)
(* and crashes and every length of a selection: a reserved task stays open,*)
(* a failure left nothing behind, an integration is what was selected, and *)
(* the lead's record is explained.                                         *)
(*                                                                         *)
(* A pending command belongs to at most one call (Owns), and a call that   *)
(* picks is the one in the lock, with a row of the journal of its own.  So *)
(* what it has picked so far (Progressed) is only ever extended: by its own *)
(* pick or by a commit of the user.                                        *)
(***************************************************************************)
EXTENDS Collaboration, SequenceTheorems, TLAPS

-----------------------------------------------------------------------------
(* The inductive invariant                                                 *)

Open == {"Review1", "Review2", "Revision"}
Kinds == {"round", "integrate", "continue"}
RoundLabels == {"worktree", "begin"}
PickLabels == {"pick", "cherryPick", "picked", "stopped", "observe"}
IntegrateLabels == {"status", "intend"} \cup PickLabels
ContinueRowLabels == {"continue", "continued", "check", "continueFailed"}
ContinueLabels == {"resume"} \cup ContinueRowLabels
Labels == {"idle", "lock"} \cup RoundLabels \cup IntegrateLabels \cup ContinueLabels

Tasks == [state : TaskStates, interruptedFromState : TaskStates \cup {NoPhase},
          collaborationRoundsUsed : Nat, collaborationRoundBudget : {Budget},
          revisionKind : {"null", "agent_review"},
          activeCandidateId : {"null", "candidate"}, version : Nat]
Rounds == [state : {"started", "completed"}, checkpoint : Commits]
CallRecords == [kind : Kinds \cup {Null}, key : Keys \cup {Null}, selection : Seq(Picks),
                before : Commits \cup {Null}, at : Nat, result : Results \cup {Null}]

TypeInv ==
  /\ task \in Tasks /\ rounds \in Seq(Rounds)
  /\ Len(rounds) = task.collaborationRoundsUsed /\ Len(rounds) <= Budget
  /\ engine \subseteq Keys
  /\ commands \in [Keys -> Commands \cup {Null}] /\ journal \in [Keys -> Rows \cup {Null}]
  /\ head \in Commits /\ head # <<>> /\ row \in Commits
  /\ picking \in Picks \cup {Null} /\ dirty \in BOOLEAN
  /\ up \in BOOLEAN /\ lock \in Calls \cup {Null}
  /\ pc \in [Calls -> Labels] /\ call \in [Calls -> CallRecords]
  /\ crashes \in Nat /\ drift \in Nat

\* A command that is closed says what the journal says.
CommandInv(k) ==
  LET command == commands[k]
      entry == journal[k]
  IN  command # Null =>
        /\ command.selection \in Selections
        /\ command.type = "review" => command.status = "completed"
        /\ command.type = "integrate" =>
             (command.status = "completed" <=> command.result # Null)
        /\ command.status = "failed" => entry = Null \/ entry.expected.op = "continue"
        /\ command.type = "integrate" /\ command.status = "completed" =>
             /\ entry # Null /\ entry.status = "completed" /\ entry.result = command.result
             /\ entry.expected.selection = command.selection
             /\ IsResultOf(command.result, entry.expected)

\* An integration that runs has a pending command of its own.
Integrating(c) == pc[c] # "idle" /\ call[c].kind = "integrate"
Owns(c) ==
  /\ commands[Key(c)] # Null /\ commands[Key(c)].type = "integrate"
  /\ commands[Key(c)].status = "pending" /\ commands[Key(c)].selection = call[c].selection
  /\ commands[Key(c)].result = Null
  /\ \A d \in Calls : Integrating(d) /\ Key(d) = Key(c) => d = c

\* A row of the journal is being executed, with the arguments of the call.
Runs(c, op) ==
  /\ journal[Key(c)] # Null /\ journal[Key(c)].status = "executing"
  /\ journal[Key(c)].expected.op = op
  /\ journal[Key(c)].expected.selection = call[c].selection

\* What an integration has picked so far.
Progressed(c) ==
  LET k == call[c]
      begun == journal[Key(c)].expected.before
      picked(commit, n) == PicksOnTop(begun, commit, k.selection, n)
  IN  /\ k.before \in Commits
      /\ pc[c] # "observe" =>
           /\ pc[c] = "pick" => k.at \in 1 .. Len(k.selection) + 1
           /\ pc[c] # "pick" => k.at \in 1 .. Len(k.selection)
      /\ pc[c] \in {"pick", "cherryPick"} => picked(head, k.at - 1)
      /\ pc[c] = "pick" /\ k.selection = <<>> => k.before = begun
      /\ pc[c] \in {"cherryPick", "stopped"} => picked(k.before, k.at - 1)
      /\ pc[c] = "picked" => picked(head, k.at)
      /\ pc[c] = "observe" /\ k.result # Null => IsResultOf(k.result, journal[Key(c)].expected)

CallInv(c) ==
  /\ pc[c] # "idle" => up /\ call[c].kind \in Kinds /\ call[c].key \in Keys
  /\ pc[c] \in RoundLabels => call[c].kind = "round" /\ call[c].before \in Commits
  /\ pc[c] = "lock" => call[c].kind \in {"integrate", "continue"}
  /\ pc[c] \in IntegrateLabels => call[c].kind = "integrate"
  /\ pc[c] \in ContinueLabels => call[c].kind = "continue" /\ Len(call[c].selection) = 1
  /\ pc[c] = "lock" /\ call[c].kind = "continue" => Len(call[c].selection) = 1
  /\ pc[c] \in IntegrateLabels \cup ContinueLabels => lock = c
  /\ Integrating(c) => Owns(c)
  /\ pc[c] \in {"lock", "status", "intend"} => call[c].at = 1
  /\ pc[c] = "intend" => journal[Key(c)] = Null
  /\ pc[c] \in PickLabels => Runs(c, "integrate") /\ Progressed(c)
  /\ pc[c] \in ContinueRowLabels => Runs(c, "continue")
  /\ pc[c] = "check" => call[c].result # Null /\ (drift = 0 => call[c].result.head = head)

IInv ==
  /\ TypeInv
  /\ \A k \in Keys : CommandInv(k)
  /\ \A c \in Calls : CallInv(c)
  /\ ReservedTaskStaysOpen /\ LeadRecordFollowsHead

LEMMA NullIsApart ==
  /\ Null \notin Calls /\ Null \notin Picks /\ Null \notin Results /\ Null \notin Commands
  /\ Null \notin Rows /\ "own" \notin Picks /\ "user" \notin Picks /\ Budget \in Nat
BY ConstantsAssumption DEF ConstantsAssumption

-----------------------------------------------------------------------------
(* The operators of the model                                              *)

LEMMA PrefixPointwise ==
  ASSUME NEW s \in Commits, NEW t \in Commits
  PROVE  IsPrefix(s, t) <=> Len(s) <= Len(t) /\ \A i \in 1 .. Len(s) : s[i] = t[i]
<1> DEFINE P == Picks \cup {"own", "user"}
           n == Len(s)
<1>1. /\ n \in Nat /\ Len(t) \in Nat /\ s \in Seq(P) /\ t \in Seq(P)
      /\ (\A i \in 1 .. n : s[i] \in P) /\ (\A i \in 1 .. Len(t) : t[i] \in P)
  BY LenProperties, ElementOfSeq DEF Commits
<1> HIDE DEF P
<1>2. /\ SubSeq(s, 1, n) \in Seq(P) /\ Len(SubSeq(s, 1, n)) = n
      /\ \A i \in 1 .. n : SubSeq(s, 1, n)[i] = s[i]
  <2>1. \A i \in 1 .. n : s[i] \in P
    BY <1>1, ElementOfSeq
  <2> QED BY <1>1, <2>1, SubSeqProperties
<1>3. ASSUME n <= Len(t)
      PROVE  /\ SubSeq(t, 1, n) \in Seq(P) /\ Len(SubSeq(t, 1, n)) = n
             /\ \A i \in 1 .. n : SubSeq(t, 1, n)[i] = t[i]
  <2>1. \A i \in 1 .. n : t[i] \in P
    BY <1>1, <1>3, ElementOfSeq
  <2> QED BY <1>1, <2>1, SubSeqProperties
<1>4. ASSUME n <= Len(t), \A i \in 1 .. n : s[i] = t[i]
      PROVE  SubSeq(s, 1, n) = SubSeq(t, 1, n)
  <2>1. \A i \in 1 .. n : SubSeq(s, 1, n)[i] = SubSeq(t, 1, n)[i]
    BY <1>2, <1>3, <1>4
  <2> QED BY <1>2, <1>3, <1>4, <2>1, SeqEqual
<1> QED BY <1>2, <1>3, <1>4 DEF IsPrefix

LEMMA AppendCommit ==
  ASSUME NEW commit \in Commits, NEW e \in Picks \cup {"own", "user"}
  PROVE  /\ Append(commit, e) \in Commits /\ Append(commit, e) # <<>>
         /\ Len(commit) \in Nat /\ Len(Append(commit, e)) = Len(commit) + 1
         /\ \A i \in 1 .. Len(commit) : Append(commit, e)[i] = commit[i]
         /\ Append(commit, e)[Len(commit) + 1] = e
BY AppendProperties, LenProperties DEF Commits

\* Where an integration begins, nothing of the selection is picked.
LEMMA NothingPicked ==
  ASSUME NEW before \in Commits, NEW selection
  PROVE  PicksOnTop(before, before, selection, 0)
<1> DEFINE at == [i \in 1 .. 0 |-> 0]
<1>1. Len(before) \in Nat /\ IsPrefix(before, before)
  BY PrefixPointwise, LenProperties DEF Commits
<1>2. 1 .. 0 = {} /\ Len(before) + 1 .. Len(before) = {}
  BY <1>1
<1>3. at \in [1 .. 0 -> Len(before) + 1 .. Len(before)]
  BY <1>2
<1> HIDE DEF at
<1>4. /\ \A i \in 1 .. 0 : before[at[i]] = selection[i]
      /\ \A i, j \in 1 .. 0 : i < j => at[i] < at[j]
      /\ \A p \in Len(before) + 1 .. Len(before) :
           before[p] = "user" \/ \E i \in 1 .. 0 : at[i] = p
  BY <1>2
<1> QED BY <1>1, <1>3, <1>4 DEF PicksOnTop

\* A commit of the user leaves the picks where they are.
LEMMA UserOnTop ==
  ASSUME NEW before \in Commits, NEW commit \in Commits, NEW selection, NEW n \in Nat,
         PicksOnTop(before, commit, selection, n)
  PROVE  PicksOnTop(before, Append(commit, "user"), selection, n)
<1> DEFINE next == Append(commit, "user")
<1>1. /\ next \in Commits /\ Len(commit) \in Nat /\ Len(next) = Len(commit) + 1
      /\ \A i \in 1 .. Len(commit) : next[i] = commit[i]
      /\ next[Len(commit) + 1] = "user" /\ Len(before) \in Nat
  BY AppendCommit, LenProperties DEF Commits
<1>2. PICK at \in [1 .. n -> Len(before) + 1 .. Len(commit)] :
        /\ \A i \in 1 .. n : commit[at[i]] = selection[i]
        /\ \A i, j \in 1 .. n : i < j => at[i] < at[j]
        /\ \A p \in Len(before) + 1 .. Len(commit) :
             commit[p] = "user" \/ \E i \in 1 .. n : at[i] = p
  BY DEF PicksOnTop
<1>3. Len(before) <= Len(commit) /\ \A i \in 1 .. Len(before) : before[i] = commit[i]
  BY PrefixPointwise DEF PicksOnTop
<1> HIDE DEF next
<1>4. IsPrefix(before, next)
  <2>1. Len(before) <= Len(next)
    BY <1>1, <1>3
  <2>2. ASSUME NEW i \in 1 .. Len(before) PROVE before[i] = next[i]
    <3>1. i \in 1 .. Len(commit)
      BY <1>1, <1>3
    <3> QED BY <1>1, <1>3, <3>1
  <2> QED BY <1>1, <2>1, <2>2, PrefixPointwise
<1>5. at \in [1 .. n -> Len(before) + 1 .. Len(next)] /\ \A i \in 1 .. n : at[i] \in 1 .. Len(commit)
  BY <1>1, <1>2
<1>6. \A i \in 1 .. n : next[at[i]] = selection[i]
  BY <1>1, <1>2, <1>5
<1>7. \A p \in Len(before) + 1 .. Len(next) : next[p] = "user" \/ \E i \in 1 .. n : at[i] = p
  BY <1>1, <1>2
<1> QED BY <1>2, <1>4, <1>5, <1>6, <1>7 DEF PicksOnTop, next

\* A pick is the next of the selection.
LEMMA PickOnTop ==
  ASSUME NEW before \in Commits, NEW commit \in Commits, NEW selection \in Seq(Picks),
         NEW n \in Nat, n + 1 \in 1 .. Len(selection),
         PicksOnTop(before, commit, selection, n)
  PROVE  PicksOnTop(before, Append(commit, selection[n + 1]), selection, n + 1)
<1> DEFINE next == Append(commit, selection[n + 1])
<1>1. /\ next \in Commits /\ Len(commit) \in Nat /\ Len(next) = Len(commit) + 1
      /\ \A i \in 1 .. Len(commit) : next[i] = commit[i]
      /\ next[Len(commit) + 1] = selection[n + 1] /\ Len(before) \in Nat
  <2>1. selection[n + 1] \in Picks
    BY ElementOfSeq
  <2> QED BY <2>1, AppendCommit, LenProperties DEF Commits
<1>2. PICK at \in [1 .. n -> Len(before) + 1 .. Len(commit)] :
        /\ \A i \in 1 .. n : commit[at[i]] = selection[i]
        /\ \A i, j \in 1 .. n : i < j => at[i] < at[j]
        /\ \A p \in Len(before) + 1 .. Len(commit) :
             commit[p] = "user" \/ \E i \in 1 .. n : at[i] = p
  BY DEF PicksOnTop
<1>3. Len(before) <= Len(commit) /\ \A i \in 1 .. Len(before) : before[i] = commit[i]
  BY PrefixPointwise DEF PicksOnTop
<1> HIDE DEF next
<1>4. IsPrefix(before, next)
  <2>1. Len(before) <= Len(next)
    BY <1>1, <1>3
  <2>2. ASSUME NEW i \in 1 .. Len(before) PROVE before[i] = next[i]
    <3>1. i \in 1 .. Len(commit)
      BY <1>1, <1>3
    <3> QED BY <1>1, <1>3, <3>1
  <2> QED BY <1>1, <2>1, <2>2, PrefixPointwise
<1> DEFINE more == [i \in 1 .. n + 1 |-> IF i = n + 1 THEN Len(commit) + 1 ELSE at[i]]
<1>5. /\ \A i \in 1 .. n : more[i] = at[i] /\ more[i] \in Len(before) + 1 .. Len(commit)
      /\ more[n + 1] = Len(commit) + 1 /\ 1 .. n + 1 = 1 .. n \cup {n + 1}
  BY <1>2
<1>6. more \in [1 .. n + 1 -> Len(before) + 1 .. Len(next)]
  BY <1>1, <1>2, <1>3
<1> HIDE DEF more
<1>7. \A i \in 1 .. n + 1 : next[more[i]] = selection[i]
  <2>1. ASSUME NEW i \in 1 .. n PROVE next[more[i]] = selection[i]
    <3>1. more[i] = at[i] /\ at[i] \in 1 .. Len(commit)
      BY <1>1, <1>5
    <3> QED BY <1>1, <1>2, <3>1
  <2> QED BY <1>1, <1>5, <2>1
<1>8. \A i, j \in 1 .. n + 1 : i < j => more[i] < more[j]
  <2>1. ASSUME NEW i \in 1 .. n, NEW j \in 1 .. n, i < j PROVE more[i] < more[j]
    BY <1>2, <1>5, <2>1
  <2>2. ASSUME NEW i \in 1 .. n PROVE more[i] < more[n + 1] /\ i < n + 1
    BY <1>1, <1>5
  <2>3. ~(n + 1 < n + 1) /\ \A i \in 1 .. n : ~(n + 1 < i)
    OBVIOUS
  <2> QED BY <1>5, <2>1, <2>2, <2>3
<1>9. \A p \in Len(before) + 1 .. Len(next) : next[p] = "user" \/ \E i \in 1 .. n + 1 : more[i] = p
  <2>1. ASSUME NEW p \in Len(before) + 1 .. Len(commit), next[p] # "user"
        PROVE  \E i \in 1 .. n + 1 : more[i] = p
    <3>1. next[p] = commit[p]
      BY <1>1, <2>1
    <3> QED BY <1>2, <1>5, <2>1, <3>1
  <2>2. Len(before) + 1 .. Len(next) = (Len(before) + 1 .. Len(commit)) \cup {Len(commit) + 1}
    BY <1>1, <1>3
  <2>3. n + 1 \in 1 .. n + 1 /\ more[n + 1] = Len(commit) + 1
    BY <1>5
  <2> QED BY <2>1, <2>2, <2>3
<1> QED BY <1>4, <1>6, <1>7, <1>8, <1>9 DEF PicksOnTop, next

-----------------------------------------------------------------------------
(* The transitions of the task                                             *)

LEMMA MovedIsATask ==
  ASSUME NEW t \in Tasks, NEW state \in TaskStates
  PROVE  /\ Moved(t, state) \in Tasks /\ Moved(t, state).state = state
         /\ Moved(t, state).collaborationRoundsUsed = t.collaborationRoundsUsed
         /\ Moved(t, state).collaborationRoundBudget = t.collaborationRoundBudget
         /\ Moved(t, state).interruptedFromState = t.interruptedFromState
<1> DEFINE n == t.version + 1
           next == [t EXCEPT !.state = state, !.version = n]
<1>1. n \in Nat /\ Moved(t, state) = next
  BY DEF Moved, Tasks
<1> HIDE DEF n
<1>2. next \in Tasks
  BY <1>1 DEF Tasks
<1>3. /\ next.state = state
      /\ next.collaborationRoundsUsed = t.collaborationRoundsUsed
      /\ next.collaborationRoundBudget = t.collaborationRoundBudget
      /\ next.interruptedFromState = t.interruptedFromState
  BY DEF Tasks
<1> QED BY <1>1, <1>2, <1>3

LEMMA Reviewing ==
  ASSUME NEW t \in Tasks, Legal(t, [type |-> "beginReview"])
  PROVE  LET next == After(t, [type |-> "beginReview"])
         IN  /\ next \in Tasks /\ next.state \in Open
             /\ next.collaborationRoundsUsed = t.collaborationRoundsUsed + 1
             /\ next.collaborationRoundsUsed <= Budget
<1> DEFINE state == ReviewPhase(t)
           moved == Moved(t, state)
           n == moved.collaborationRoundsUsed + 1
           next == [moved EXCEPT !.collaborationRoundsUsed = n, !.revisionKind = "null"]
<1>1. state \in Open /\ state \in TaskStates
  BY DEF ReviewPhase, Open, TaskStates, NonTerminalStates
<1>2. t.collaborationRoundsUsed < Budget /\ t.collaborationRoundsUsed \in Nat /\ Budget \in Nat
  BY NullIsApart DEF Legal, BudgetLeft, PlainMoves, Tasks
<1>3. moved \in Tasks /\ moved.state = state /\ moved.collaborationRoundsUsed = t.collaborationRoundsUsed
  BY <1>1, MovedIsATask
<1>4. After(t, [type |-> "beginReview"]) = next
  BY DEF After
<1>5. n \in Nat /\ n = t.collaborationRoundsUsed + 1 /\ n <= Budget
  BY <1>2, <1>3
<1> HIDE DEF state, moved, n
<1>6. next \in Tasks
  BY <1>3, <1>5 DEF Tasks
<1>7. next.state = moved.state /\ next.collaborationRoundsUsed = n
  BY <1>3 DEF Tasks
<1> HIDE DEF next
<1> QED BY <1>1, <1>3, <1>4, <1>5, <1>6, <1>7

LEMMA Revising ==
  ASSUME NEW t \in Tasks
  PROVE  LET next == After(t, [type |-> "requestAgentRevision"])
         IN  /\ next \in Tasks /\ next.state = "Revision"
             /\ next.collaborationRoundsUsed = t.collaborationRoundsUsed
<1> DEFINE moved == Moved(t, "Revision")
<1>1. moved \in Tasks /\ moved.state = "Revision" /\ moved.collaborationRoundsUsed = t.collaborationRoundsUsed
  BY MovedIsATask DEF TaskStates, NonTerminalStates
<1>2. After(t, [type |-> "requestAgentRevision"]) = [moved EXCEPT !.revisionKind = "agent_review"]
  BY DEF After
<1> HIDE DEF moved
<1> QED BY <1>1, <1>2 DEF Tasks

LEMMA Interrupting ==
  ASSUME NEW t \in Tasks
  PROVE  LET next == After(t, [type |-> "processLoss"])
         IN  next \in Tasks /\ next.collaborationRoundsUsed = t.collaborationRoundsUsed
<1> DEFINE moved == Moved(t, "Interrupted")
<1>1. moved \in Tasks /\ moved.collaborationRoundsUsed = t.collaborationRoundsUsed
  BY MovedIsATask DEF TaskStates, NonTerminalStates
<1>2. After(t, [type |-> "processLoss"]) = [moved EXCEPT !.interruptedFromState = LostPhase(t)]
  BY DEF After
<1>3. LostPhase(t) \in TaskStates \cup {NoPhase}
  BY DEF LostPhase, Tasks
<1> HIDE DEF moved
<1> QED BY <1>1, <1>2, <1>3 DEF Tasks

LEMMA Cancelling ==
  ASSUME NEW t \in Tasks
  PROVE  LET next == After(t, [type |-> "cancel"])
         IN  next \in Tasks /\ next.collaborationRoundsUsed = t.collaborationRoundsUsed
<1>1. CancelTarget(t) \in TaskStates
  BY DEF CancelTarget, TaskStates, NonTerminalStates, TerminalStates
<1>2. After(t, [type |-> "cancel"]) = Moved(t, CancelTarget(t))
  BY DEF After
<1> QED BY <1>1, <1>2, MovedIsATask

LEMMA Reconciles ==
  ASSUME NEW t \in Tasks, Legal(t, [type |-> "beginReconciliation"])
  PROVE  LET next == After(t, [type |-> "beginReconciliation"])
         IN  next \in Tasks /\ next.collaborationRoundsUsed = t.collaborationRoundsUsed
<1> DEFINE chosen == CHOOSE x \in PlainMoves : x[1] = t.state /\ x[2] = "beginReconciliation"
<1>1. \E m \in PlainMoves : m[1] = t.state /\ m[2] = "beginReconciliation"
  BY DEF Legal
<1>2. chosen \in PlainMoves
  BY <1>1
<1> HIDE DEF chosen
<1>3. chosen[3] \in TaskStates
  BY <1>2 DEF PlainMoves, TaskStates, NonTerminalStates, TerminalStates
<1>4. After(t, [type |-> "beginReconciliation"]) = Moved(t, chosen[3])
  BY DEF After, chosen
<1> QED BY <1>3, <1>4, MovedIsATask

LEMMA Resuming ==
  ASSUME NEW t \in Tasks,
         Legal(t, [type |-> "resumeRecordedPhase", target |-> t.interruptedFromState])
  PROVE  LET next == After(t, [type |-> "resumeRecordedPhase", target |-> t.interruptedFromState])
         IN  next \in Tasks /\ next.collaborationRoundsUsed = t.collaborationRoundsUsed
<1> DEFINE moved == Moved(t, t.interruptedFromState)
<1>1. t.interruptedFromState # NoPhase
  BY DEF Legal, PlainMoves
<1>2. t.interruptedFromState \in TaskStates
  BY <1>1 DEF Tasks
<1>3. moved \in Tasks /\ moved.collaborationRoundsUsed = t.collaborationRoundsUsed
  BY <1>2, MovedIsATask
<1>4. After(t, [type |-> "resumeRecordedPhase", target |-> t.interruptedFromState]) =
        [moved EXCEPT !.interruptedFromState = NoPhase]
  BY DEF After
<1> HIDE DEF moved
<1> QED BY <1>3, <1>4 DEF Tasks

LEMMA BuildingCandidate ==
  ASSUME NEW t \in Tasks, Legal(t, CandidateReady)
  PROVE  LET next == After(After(t, CandidateReady), [type |-> "requestHumanApproval"])
         IN  next \in Tasks /\ next.collaborationRoundsUsed = t.collaborationRoundsUsed
<1> DEFINE moved == Moved(t, "Candidate")
           built == [moved EXCEPT !.activeCandidateId = "candidate"]
           chosen == CHOOSE x \in PlainMoves : x[1] = "Candidate" /\ x[2] = "requestHumanApproval"
<1>1. moved \in Tasks /\ moved.state = "Candidate"
      /\ moved.collaborationRoundsUsed = t.collaborationRoundsUsed
  BY MovedIsATask DEF TaskStates, NonTerminalStates
<1>2. After(t, CandidateReady) = built
  BY DEF After, CandidateReady
<1> HIDE DEF moved
<1>3. /\ built \in Tasks /\ built.state = "Candidate"
      /\ built.collaborationRoundsUsed = t.collaborationRoundsUsed
  BY <1>1 DEF Tasks
<1> HIDE DEF built
<1>4. chosen \in PlainMoves
  <2>1. <<"Candidate", "requestHumanApproval", "HumanApproval">> \in PlainMoves
    BY DEF PlainMoves
  <2> QED BY <2>1
<1>5. After(built, [type |-> "requestHumanApproval"]) = Moved(built, chosen[3])
  BY <1>3 DEF After
<1> HIDE DEF chosen
<1>6. chosen[3] \in TaskStates
  BY <1>4 DEF PlainMoves, TaskStates, NonTerminalStates, TerminalStates
<1> QED BY <1>2, <1>3, <1>5, <1>6, MovedIsATask

-----------------------------------------------------------------------------
(* What a step leaves alone                                                *)

Pending == \E k \in Keys : Reserved(k)
Others(c) == \A d \in Calls \ {c} : pc'[d] = pc[d] /\ call'[d] = call[d]

\* A call keeps what it knows, if no other takes its command, its row or the
\* worktree from it.
LEMMA CallKeeps ==
  ASSUME TypeInv, NEW d \in Calls, CallInv(d), pc'[d] = pc[d], call'[d] = call[d],
         pc[d] # "idle" => up', lock = d => lock' = d,
         Integrating(d) => commands'[Key(d)] = commands[Key(d)],
         Integrating(d) => \A e \in Calls : Integrating(e)' /\ call'[e].key = Key(d) =>
                             Integrating(e) /\ Key(e) = Key(d),
         lock = d => journal'[Key(d)] = journal[Key(d)],
         lock = d => head' = head \/ (head' = Append(head, "user") /\ drift' # 0),
         drift' = 0 => drift = 0
  PROVE  CallInv(d)'
<1>1. Integrating(d)' <=> Integrating(d)
  BY DEF Integrating
<1>2. Integrating(d) => Owns(d)'
  <2> SUFFICES ASSUME Integrating(d) PROVE Owns(d)'
    OBVIOUS
  <2>1. Owns(d) /\ commands'[Key(d)] = commands[Key(d)] /\ Key(d)' = Key(d)
    BY DEF CallInv, Key
  <2>2. \A e \in Calls : Integrating(e)' /\ Key(e)' = Key(d)' => e = d
    BY <2>1 DEF Owns, Key
  <2> QED BY <2>1, <2>2 DEF Owns, Key
<1>3. pc[d] \in PickLabels => lock = d /\ Runs(d, "integrate") /\ Progressed(d)
  BY DEF CallInv, IntegrateLabels
<1>4. pc[d] \in PickLabels => Runs(d, "integrate")'
  BY <1>3 DEF Runs, Key
<1>5. ASSUME pc[d] \in PickLabels
      PROVE  Progressed(d)'
  <2> DEFINE begun == journal[Key(d)].expected.before
             s == call[d].selection
  <2>1. /\ Progressed(d) /\ journal'[Key(d)] = journal[Key(d)] /\ head \in Commits
        /\ head' = head \/ head' = Append(head, "user")
        /\ call[d] \in CallRecords /\ journal[Key(d)] # Null /\ Key(d) \in Keys
    BY <1>3, <1>5 DEF TypeInv, Runs, CallInv, PickLabels, Key
  <2>2. begun \in Commits
    BY <2>1 DEF TypeInv, Rows
  <2>3. \A n \in Nat : PicksOnTop(begun, head, s, n) => PicksOnTop(begun, head', s, n)
    BY <2>1, <2>2, UserOnTop
  <2>4. call[d].at \in Nat /\ (pc[d] # "observe" => call[d].at - 1 \in Nat)
    <3>1. call[d].at \in Nat
      BY <2>1 DEF CallRecords
    <3>2. pc[d] # "observe" => call[d].at >= 1
      BY <2>1, <3>1 DEF Progressed
    <3> QED BY <3>1, <3>2
  <2>5. Key(d)' = Key(d)
    BY DEF Key
  <2> HIDE DEF s
  <2> QED BY <2>1, <2>3, <2>4, <2>5 DEF Progressed, PickLabels, s
<1>6. pc[d] \in ContinueRowLabels => Runs(d, "continue")'
  BY DEF CallInv, Runs, Key, ContinueLabels, IntegrateLabels
<1>7. pc[d] = "intend" => journal'[Key(d)'] = Null
  BY DEF CallInv, IntegrateLabels, Key
<1>8. pc[d] \in IntegrateLabels \cup ContinueLabels => lock' = d
  BY DEF CallInv
<1>9. pc[d] = "check" => call'[d].result # Null /\ (drift' = 0 => call'[d].result.head = head')
  BY DEF CallInv, ContinueLabels, ContinueRowLabels
<1> QED BY <1>1, <1>2, <1>4, <1>5, <1>6, <1>7, <1>8, <1>9 DEF CallInv

LEMMA Going ==
  ASSUME TypeInv, NEW c \in Calls, NEW label \in Labels, Goto(c, label)
  PROVE  /\ pc' \in [Calls -> Labels] /\ pc'[c] = label
         /\ \A d \in Calls \ {c} : pc'[d] = pc[d]
BY DEF TypeInv, Goto

LEMMA NoCallIsTyped == NoCall \in CallRecords
<1>1. <<>> \in Seq(Picks)
  BY EmptySeq
<1> QED BY <1>1 DEF NoCall, CallRecords

LEMMA Leaving ==
  ASSUME TypeInv, NEW c \in Calls, Leave(c)
  PROVE  /\ pc' \in [Calls -> Labels] /\ call' \in [Calls -> CallRecords]
         /\ lock' \in Calls \cup {Null} /\ (lock' = lock \/ lock = c)
         /\ pc'[c] = "idle" /\ Others(c)
         /\ up' = up /\ crashes' = crashes /\ drift' = drift
BY NoCallIsTyped DEF TypeInv, Leave, Goto, Others, bounds, Labels

LEMMA IdleCall == ASSUME NEW c, pc'[c] = "idle" PROVE CallInv(c)'
BY DEF CallInv, Integrating, IntegrateLabels, ContinueLabels, RoundLabels, PickLabels,
       ContinueRowLabels

LEMMA OthersStay ==
  ASSUME IInv, NEW c \in Calls, Others(c), up' = up, drift' = drift,
         lock' = lock \/ lock \in {c, Null},
         lock = c \/ (journal' = journal /\ head' = head),
         \A d \in Calls \ {c} : Integrating(d) =>
           /\ commands'[Key(d)] = commands[Key(d)]
           /\ ~(Integrating(c)' /\ call'[c].key = Key(d))
  PROVE  \A d \in Calls \ {c} : CallInv(d)'
<1> SUFFICES ASSUME NEW d \in Calls \ {c} PROVE CallInv(d)'
  OBVIOUS
<1>1. TypeInv /\ CallInv(d) /\ d # Null
  BY NullIsApart DEF IInv
<1>2. pc'[d] = pc[d] /\ call'[d] = call[d]
  BY DEF Others
<1>3. pc[d] # "idle" => up'
  BY <1>1 DEF CallInv
<1>4. /\ lock = d => lock' = d
      /\ lock = d => journal'[Key(d)] = journal[Key(d)]
      /\ lock = d => head' = head
  BY <1>1
<1>5. Integrating(d) => \A e \in Calls : Integrating(e)' /\ call'[e].key = Key(d) =>
                             Integrating(e) /\ Key(e) = Key(d)
  BY DEF Others, Integrating, Key
<1> QED BY <1>1, <1>2, <1>3, <1>4, <1>5, CallKeeps

\* A pending command is of one call.
LEMMA MineAlone ==
  ASSUME IInv, NEW c \in Calls, Integrating(c)' => Integrating(c) /\ call'[c].key = Key(c),
         \A k \in Keys : commands'[k] = commands[k] \/ (Integrating(c) /\ k = Key(c))
  PROVE  \A d \in Calls \ {c} : Integrating(d) =>
           /\ commands'[Key(d)] = commands[Key(d)]
           /\ ~(Integrating(c)' /\ call'[c].key = Key(d))
<1> SUFFICES ASSUME NEW d \in Calls \ {c}, Integrating(d)
             PROVE  /\ commands'[Key(d)] = commands[Key(d)]
                    /\ ~(Integrating(c)' /\ call'[c].key = Key(d))
  OBVIOUS
<1>1. Owns(d) /\ Key(d) \in Keys
  BY DEF IInv, CallInv, Integrating, Key
<1>2. Integrating(c) => Key(c) # Key(d)
  BY <1>1 DEF Owns
<1> QED BY <1>1, <1>2

\* A step of a call: what it changes is looked at, the rest keeps.
LEMMA Assemble ==
  ASSUME IInv, NEW c \in Calls, TypeInv', Others(c), up' = up, drift' = drift,
         lock' = lock \/ lock \in {c, Null},
         lock = c \/ (journal' = journal /\ head' = head),
         Integrating(c)' => Integrating(c) /\ call'[c].key = Key(c),
         \A k \in Keys : commands'[k] = commands[k] \/ (Integrating(c) /\ k = Key(c)),
         \A k \in Keys :
           (commands'[k] = commands[k] /\ journal'[k] = journal[k]) \/ CommandInv(k)',
         CallInv(c)', ReservedTaskStaysOpen', LeadRecordFollowsHead'
  PROVE  IInv'
<1>1. \A d \in Calls \ {c} : CallInv(d)'
  BY MineAlone, OthersStay
<1>2. ASSUME NEW k \in Keys, commands'[k] = commands[k], journal'[k] = journal[k]
      PROVE  CommandInv(k)'
  BY <1>2 DEF IInv, CommandInv
<1> QED BY <1>1, <1>2 DEF IInv

LEMMA ReservedStays ==
  ASSUME IInv, \A k \in Keys : Reserved(k)' => Reserved(k) \/ InReview,
         task' = task \/ task'.state \in Open
  PROVE  ReservedTaskStaysOpen'
BY DEF IInv, ReservedTaskStaysOpen, InReview, Open

LEMMA RecordStays ==
  ASSUME IInv, row' = row, head' = head, drift' = drift, crashes > 0 => crashes' > 0,
         \A k \in Keys : \/ journal'[k] = journal[k]
                         \/ journal'[k] # Null /\ journal'[k].status # "completed"
  PROVE  LeadRecordFollowsHead'
BY DEF IInv, LeadRecordFollowsHead

\* A step that only moves a call on.
LEMMA Walk ==
  ASSUME IInv, NEW c \in Calls, UNCHANGED <<database, worktree, up, crashes, drift>>, Others(c),
         pc' \in [Calls -> Labels], call' \in [Calls -> CallRecords],
         lock' \in Calls \cup {Null}, lock' = lock \/ lock \in {c, Null},
         Integrating(c)' => Integrating(c) /\ call'[c].key = Key(c),
         CallInv(c)'
  PROVE  IInv'
<1>1. UNCHANGED <<task, rounds, engine, commands, journal, row, head, picking, dirty>>
  BY DEF database, worktree
<1>2. TypeInv'
  BY <1>1 DEF IInv, TypeInv
<1>3. ReservedTaskStaysOpen'
  BY <1>1, ReservedStays DEF Reserved
<1>4. LeadRecordFollowsHead'
  BY <1>1, RecordStays
<1> QED BY <1>1, <1>2, <1>3, <1>4, Assemble

LEMMA EndStep == ASSUME IInv, NEW c \in Calls, End(c) PROVE IInv'
<1>1. Leave(c) /\ UNCHANGED <<database, worktree>>
  BY DEF End
<1>2. TypeInv
  BY DEF IInv
<1>3. ~Integrating(c)' /\ CallInv(c)'
  BY <1>1, <1>2, Leaving, IdleCall DEF Integrating
<1>4. UNCHANGED <<database, worktree, up, crashes, drift>>
  BY <1>1, <1>2, Leaving
<1> QED BY <1>1, <1>2, <1>3, <1>4, Leaving, Walk

LEMMA Beginning ==
  ASSUME TypeInv, NEW c \in Calls, NEW label \in Labels, NEW new \in CallRecords,
         Goto(c, label), call' = [call EXCEPT ![c] = new]
  PROVE  /\ pc' \in [Calls -> Labels] /\ call' \in [Calls -> CallRecords]
         /\ pc'[c] = label /\ call'[c] = new /\ Others(c)
<1>1. call' \in [Calls -> CallRecords] /\ call'[c] = new /\ \A d \in Calls \ {c} : call'[d] = call[d]
  BY DEF TypeInv
<1> QED BY <1>1, Going DEF Others

-----------------------------------------------------------------------------
(* Rounds                                                                  *)

LEMMA StartRoundStep == ASSUME IInv, NEW c \in Calls, StartRound(c) PROVE IInv'
<1>1. PICK key \in Keys : Begin(c, "round", key, <<>>, row, "worktree")
  BY DEF StartRound
<1>2. PICK before \in Commits : before = row
  BY DEF IInv, TypeInv
<1> DEFINE new == [kind |-> "round", key |-> key, selection |-> <<>>, before |-> before,
                   at |-> 1, result |-> Null]
<1>3. TypeInv /\ "worktree" \in Labels
  BY DEF IInv, Labels, RoundLabels
<1>4. new \in CallRecords
  BY EmptySeq DEF CallRecords, Kinds
<1>5. /\ call' = [call EXCEPT ![c] = new] /\ Goto(c, "worktree") /\ up
      /\ UNCHANGED <<database, worktree, up, crashes, drift>> /\ lock' = lock
  BY <1>1, <1>2 DEF StartRound, Begin, At
<1> HIDE DEF new
<1>6. /\ pc' \in [Calls -> Labels] /\ call' \in [Calls -> CallRecords]
      /\ pc'[c] = "worktree" /\ call'[c] = new /\ Others(c)
  BY <1>3, <1>4, <1>5, Beginning
<1>7. new.kind = "round" /\ new.key \in Keys /\ new.before \in Commits
  BY DEF new
<1>8. CallInv(c)' /\ ~Integrating(c)'
  BY <1>5, <1>6, <1>7 DEF CallInv, Integrating, RoundLabels, IntegrateLabels, ContinueLabels,
                          PickLabels, ContinueRowLabels, Kinds
<1>9. lock' \in Calls \cup {Null} /\ lock' = lock
  BY <1>3, <1>5 DEF TypeInv
<1> QED BY <1>5, <1>6, <1>8, <1>9, Walk

LEMMA EnsureCollaboratorStep == ASSUME IInv, NEW c \in Calls, EnsureCollaborator(c) PROVE IInv'
<1>1. CASE End(c)
  BY <1>1, EndStep
<1>2. CASE Goto(c, "begin") /\ UNCHANGED <<database, worktree, up, lock, call, bounds>>
  <2>1. TypeInv /\ CallInv(c) /\ pc[c] = "worktree" /\ "begin" \in Labels
    BY DEF IInv, EnsureCollaborator, At, Labels, RoundLabels
  <2>2. pc' \in [Calls -> Labels] /\ pc'[c] = "begin" /\ \A d \in Calls \ {c} : pc'[d] = pc[d]
    BY <1>2, <2>1, Going
  <2>3. call' = call /\ lock' = lock /\ UNCHANGED <<database, worktree, up, crashes, drift>>
    BY <1>2 DEF bounds
  <2>4. CallInv(c)' /\ ~Integrating(c)'
    BY <2>1, <2>2, <2>3 DEF CallInv, Integrating, RoundLabels, IntegrateLabels, ContinueLabels,
                            PickLabels, ContinueRowLabels
  <2>5. Others(c) /\ call' \in [Calls -> CallRecords] /\ lock' \in Calls \cup {Null}
    BY <2>1, <2>2, <2>3 DEF Others, TypeInv
  <2> QED BY <2>2, <2>3, <2>4, <2>5, Walk
<1> QED BY <1>1, <1>2 DEF EnsureCollaborator

LEMMA BeginRoundStep == ASSUME IInv, NEW c \in Calls, BeginRound(c) PROVE IInv'
<1>1. CASE End(c)
  BY <1>1, EndStep
<1>2. CASE /\ Legal(task, [type |-> "beginReview"])
           /\ engine' = engine \cup {Key(c)}
           /\ task' = After(task, [type |-> "beginReview"])
           /\ rounds' = RecordedRound(c)
           /\ Leave(c) /\ UNCHANGED <<commands, journal, row, worktree>>
  <2>1. TypeInv /\ CallInv(c) /\ pc[c] = "begin"
    BY DEF IInv, BeginRound, At
  <2>2. call[c].before \in Commits /\ Key(c) \in Keys
    BY <2>1 DEF CallInv, RoundLabels, Key
  <2>3. /\ pc' \in [Calls -> Labels] /\ call' \in [Calls -> CallRecords]
        /\ lock' \in Calls \cup {Null} /\ (lock' = lock \/ lock = c)
        /\ pc'[c] = "idle" /\ Others(c) /\ up' = up /\ crashes' = crashes /\ drift' = drift
        /\ CallInv(c)' /\ ~Integrating(c)'
    BY <1>2, <2>1, Leaving, IdleCall DEF Integrating
  <2>4. UNCHANGED <<commands, journal, row, head, picking, dirty>>
    BY <1>2 DEF worktree
  <2>5. task \in Tasks /\ rounds \in Seq(Rounds) /\ Len(rounds) = task.collaborationRoundsUsed
    BY <2>1 DEF TypeInv
  <2>6. /\ task' \in Tasks /\ task'.state \in Open
        /\ task'.collaborationRoundsUsed = task.collaborationRoundsUsed + 1
        /\ task'.collaborationRoundsUsed <= Budget
    BY <1>2, <2>5, Reviewing
  <2>7. rounds' \in Seq(Rounds) /\ Len(rounds') = Len(rounds) + 1
    <3> DEFINE round == [state |-> "started", checkpoint |-> call[c].before]
    <3>1. round \in Rounds /\ rounds' = Append(rounds, round)
      BY <1>2, <2>2 DEF Rounds, RecordedRound
    <3> HIDE DEF round
    <3> QED BY <2>5, <3>1, AppendProperties
  <2>8. engine' \subseteq Keys
    BY <1>2, <2>1, <2>2 DEF TypeInv
  <2>9. TypeInv'
    <3>1. Len(rounds') = task'.collaborationRoundsUsed /\ Len(rounds') <= Budget
      BY <2>5, <2>6, <2>7
    <3> QED BY <3>1, <2>1, <2>3, <2>4, <2>5, <2>6, <2>7, <2>8 DEF TypeInv
  <2>10. ReservedTaskStaysOpen'
    BY <2>4, <2>6, ReservedStays DEF Reserved
  <2>11. LeadRecordFollowsHead'
    BY <2>3, <2>4, RecordStays
  <2> QED BY <2>3, <2>4, <2>9, <2>10, <2>11, Assemble
<1> QED BY <1>1, <1>2 DEF BeginRound

LEMMA CompleteReviewStep == ASSUME IInv, CompleteReview PROVE IInv'
<1>1. PICK key \in Keys :
        /\ commands[key] = Null
        /\ commands' = [commands EXCEPT ![key] = CommandDone(Command("review", <<>>), Null)]
  BY DEF CompleteReview
<1> DEFINE new == CommandDone(Command("review", <<>>), Null)
           last == [rounds[Len(rounds)] EXCEPT !.state = "completed"]
<1>2. /\ InReview /\ rounds # <<>> /\ task' = Reviewed(task)
      /\ rounds' = [rounds EXCEPT ![Len(rounds)].state = "completed"]
      /\ UNCHANGED <<engine, journal, row, head, picking, dirty, up, lock, pc, call>>
      /\ crashes' = crashes /\ drift' = drift
  BY DEF CompleteReview, worktree, worker, bounds
<1>3. TypeInv
  BY DEF IInv
<1>4. /\ new.type = "review" /\ new.status = "completed" /\ new.selection = <<>>
      /\ new \in Commands
  <2>1. <<>> \in Seq(Picks) /\ task.version \in Nat
    BY <1>3, EmptySeq DEF TypeInv, Tasks
  <2>2. new = [type |-> "review", selection |-> <<>>, version |-> task.version,
               status |-> "completed", result |-> Null]
    <3> DEFINE old == Command("review", <<>>)
    <3>1. old = [type |-> "review", selection |-> <<>>, version |-> task.version,
                 status |-> "pending", result |-> Null]
      BY DEF Command
    <3>2. new = [old EXCEPT !.status = "completed", !.result = Null]
      BY DEF CommandDone
    <3> HIDE DEF old, new
    <3> QED BY <3>1, <3>2
  <2> HIDE DEF new
  <2> QED BY <2>1, <2>2 DEF Commands
<1>5. task' \in Tasks /\ task'.collaborationRoundsUsed = task.collaborationRoundsUsed
      /\ (task' = task \/ task'.state \in Open)
  BY <1>2, <1>3, Revising DEF Reviewed, TypeInv, Open
<1>6. rounds' \in Seq(Rounds) /\ Len(rounds') = Len(rounds)
  <2>1. rounds \in Seq(Rounds) /\ Len(rounds) \in 1 .. Len(rounds)
    BY <1>2, <1>3, EmptySeq DEF TypeInv
  <2>2. rounds[Len(rounds)] \in Rounds
    BY <2>1, ElementOfSeq
  <2>3. last \in Rounds
    BY <2>2 DEF Rounds
  <2>4. rounds' = [rounds EXCEPT ![Len(rounds)] = last]
    BY <1>2
  <2> HIDE DEF last
  <2> QED BY <2>1, <2>3, <2>4, ExceptSeq
<1> HIDE DEF new, last
<1>7. /\ commands' \in [Keys -> Commands \cup {Null}] /\ commands'[key] = new
      /\ \A k \in Keys \ {key} : commands'[k] = commands[k]
  BY <1>1, <1>3, <1>4 DEF TypeInv, new
<1>8. TypeInv'
  BY <1>2, <1>3, <1>5, <1>6, <1>7 DEF TypeInv
<1>9. ASSUME NEW k \in Keys PROVE CommandInv(k)'
  <2>1. CASE k = key
    <3>1. <<>> \in Selections
      BY ConstantsAssumption DEF ConstantsAssumption, Selections
    <3> QED BY <1>4, <1>7, <2>1, <3>1 DEF CommandInv
  <2>2. CASE k # key
    BY <1>2, <1>7, <2>2 DEF IInv, CommandInv
  <2> QED BY <2>1, <2>2
<1>10. ASSUME NEW d \in Calls PROVE CallInv(d)'
  <2>1. CallInv(d)
    BY DEF IInv
  <2>2. Integrating(d) => commands'[Key(d)] = commands[Key(d)]
    BY <1>1, <1>7, <2>1 DEF CallInv, Owns, Key, Integrating
  <2>3. Integrating(d) => \A e \in Calls : Integrating(e)' /\ call'[e].key = Key(d) =>
                              Integrating(e) /\ Key(e) = Key(d)
    BY <1>2 DEF Integrating, Key
  <2>4. pc[d] # "idle" => up'
    BY <1>2, <2>1 DEF CallInv
  <2> QED BY <1>2, <1>3, <2>1, <2>2, <2>3, <2>4, CallKeeps
<1>11. ReservedTaskStaysOpen'
  <2>1. \A k \in Keys : Reserved(k)' => Reserved(k)
    BY <1>4, <1>7 DEF Reserved
  <2> QED BY <1>5, <2>1, ReservedStays
<1>12. LeadRecordFollowsHead'
  BY <1>2, RecordStays
<1> QED BY <1>8, <1>9, <1>10, <1>11, <1>12 DEF IInv

-----------------------------------------------------------------------------
(* Integrations                                                            *)

LEMMA SelectionsAreSequences == Selections \subseteq Seq(Picks)
<1> SUFFICES ASSUME NEW s \in Selections PROVE s \in Seq(Picks)
  OBVIOUS
<1>1. PICK n \in 0 .. MaxPicks : s \in [1 .. n -> Picks]
  BY DEF Selections
<1>2. n \in Nat
  BY ConstantsAssumption DEF ConstantsAssumption
<1> QED BY <1>1, <1>2, SeqDef

LEMMA StartIntegrateStep == ASSUME IInv, NEW c \in Calls, StartIntegrate(c) PROVE IInv'
<1>1. PICK key \in Keys, selection \in Selections :
        /\ commands[key] = Null
        /\ commands' = [commands EXCEPT ![key] = Command("integrate", selection)]
        /\ Begin(c, "integrate", key, selection, Null, "lock")
  BY DEF StartIntegrate
<1> DEFINE new == [kind |-> "integrate", key |-> key, selection |-> selection,
                   before |-> Null, at |-> 1, result |-> Null]
           command == Command("integrate", selection)
<1>2. /\ call' = [call EXCEPT ![c] = new] /\ Goto(c, "lock") /\ up /\ InReview
      /\ UNCHANGED <<task, rounds, engine, journal, row, head, picking, dirty, up, lock>>
      /\ crashes' = crashes /\ drift' = drift
  BY <1>1 DEF StartIntegrate, Begin, At, worktree
<1>3. TypeInv /\ "lock" \in Labels
  BY DEF IInv, Labels
<1>4. selection \in Seq(Picks) /\ new \in CallRecords
  BY SelectionsAreSequences DEF CallRecords, Kinds
<1>5. /\ command \in Commands /\ command.type = "integrate" /\ command.status = "pending"
      /\ command.selection = selection /\ command.result = Null
  <2>1. task.version \in Nat
    BY <1>3 DEF TypeInv, Tasks
  <2> QED BY <1>4, <2>1 DEF Command, Commands
<1>6. /\ new.kind = "integrate" /\ new.key = key /\ new.selection = selection /\ new.at = 1
  OBVIOUS
<1> HIDE DEF new, command
<1>7. /\ pc' \in [Calls -> Labels] /\ call' \in [Calls -> CallRecords]
      /\ pc'[c] = "lock" /\ call'[c] = new /\ Others(c)
  BY <1>2, <1>3, <1>4, Beginning
<1>8. /\ commands' \in [Keys -> Commands \cup {Null}] /\ commands'[key] = command
      /\ \A k \in Keys \ {key} : commands'[k] = commands[k]
  BY <1>1, <1>3, <1>5 DEF TypeInv, command
<1>9. \A d \in Calls : Integrating(d) => commands[Key(d)] # Null /\ Key(d) # key /\ Key(d) \in Keys
  BY <1>1 DEF IInv, CallInv, Owns, Integrating, Key
<1>10. TypeInv'
  BY <1>2, <1>3, <1>7, <1>8 DEF TypeInv
<1>11. ASSUME NEW k \in Keys PROVE CommandInv(k)'
  <2>1. CASE k = key
    BY <1>5, <1>8, <2>1 DEF CommandInv
  <2>2. CASE k # key
    BY <1>2, <1>8, <2>2 DEF IInv, CommandInv
  <2> QED BY <2>1, <2>2
<1>12. \A d \in Calls \ {c} : CallInv(d)'
  <2>1. \A d \in Calls \ {c} : Integrating(d) =>
          /\ commands'[Key(d)] = commands[Key(d)] /\ ~(Integrating(c)' /\ call'[c].key = Key(d))
    BY <1>6, <1>7, <1>8, <1>9
  <2> QED BY <1>2, <1>7, <2>1, OthersStay
<1>13. CallInv(c)'
  <2>1. Owns(c)'
    <3>1. \A d \in Calls : Integrating(d)' /\ Key(d)' = Key(c)' => d = c
      BY <1>6, <1>7, <1>9 DEF Integrating, Key, Others
    <3>2. commands'[Key(c)'] = command /\ command # Null
      BY <1>5, <1>6, <1>7, <1>8, NullIsApart DEF Key
    <3> QED BY <1>5, <1>6, <1>7, <3>1, <3>2 DEF Owns, Key
  <2> QED BY <1>2, <1>6, <1>7, <2>1
          DEF CallInv, Integrating, RoundLabels, IntegrateLabels, ContinueLabels, PickLabels,
              ContinueRowLabels, Kinds
<1>14. ReservedTaskStaysOpen'
  BY <1>2, ReservedStays
<1>15. LeadRecordFollowsHead'
  BY <1>2, RecordStays
<1> QED BY <1>10, <1>11, <1>12, <1>13, <1>14, <1>15 DEF IInv

LEMMA EnterLockStep == ASSUME IInv, NEW c \in Calls, EnterLock(c) PROVE IInv'
<1> DEFINE label == IF call[c].kind = "integrate" THEN "status" ELSE "resume"
<1>1. /\ pc[c] = "lock" /\ lock = Null /\ lock' = c /\ call' = call /\ up
      /\ UNCHANGED <<database, worktree, up, crashes, drift>>
  BY DEF EnterLock, At, bounds
<1>2. TypeInv /\ CallInv(c) /\ label \in Labels
  BY DEF IInv, Labels, IntegrateLabels, ContinueLabels
<1>3. pc' \in [Calls -> Labels] /\ pc'[c] = label /\ \A d \in Calls \ {c} : pc'[d] = pc[d]
  <2>1. \E l \in Labels : l = label /\ Goto(c, l)
    BY <1>2 DEF EnterLock, Goto
  <2> QED BY <1>2, <2>1, Going
<1>4. /\ call[c].kind \in {"integrate", "continue"} /\ call[c].key \in Keys /\ call[c].at = 1
      /\ (call[c].kind = "integrate" => Owns(c))
      /\ (call[c].kind = "continue" => Len(call[c].selection) = 1)
  BY <1>1, <1>2 DEF CallInv, Integrating
<1>5. Integrating(c)' <=> Integrating(c)
  BY <1>1, <1>3 DEF Integrating
<1>6. Others(c) /\ call' \in [Calls -> CallRecords] /\ lock' \in Calls \cup {Null}
  BY <1>1, <1>2, <1>3 DEF Others, TypeInv
<1>7. Integrating(c) => Owns(c)'
  <2> SUFFICES ASSUME Integrating(c) PROVE Owns(c)'
    OBVIOUS
  <2>1. Owns(c) /\ commands' = commands
    BY <1>1, <1>4 DEF Integrating, database
  <2>2. \A d \in Calls : Integrating(d)' <=> Integrating(d)
    BY <1>1, <1>5, <1>6 DEF Others, Integrating
  <2> QED BY <1>1, <2>1, <2>2 DEF Owns, Key
<1> HIDE DEF label
<1>8. CallInv(c)'
  BY <1>1, <1>3, <1>4, <1>5, <1>7 DEF CallInv, label, Kinds, RoundLabels, IntegrateLabels,
     ContinueLabels, PickLabels, ContinueRowLabels
<1>9. Integrating(c)' => Integrating(c) /\ call'[c].key = Key(c)
  BY <1>1, <1>5 DEF Key
<1> QED BY <1>1, <1>3, <1>6, <1>8, <1>9, Walk

\* An integration fails, and leaves the row it may have of the journal open.
LEMMA ThrowStep ==
  ASSUME IInv, NEW c \in Calls, pc[c] \in IntegrateLabels, Throw(c),
         journal' \in [Keys -> Rows \cup {Null}],
         \A k \in Keys \ {Key(c)} : journal'[k] = journal[k],
         \/ journal'[Key(c)] = journal[Key(c)]
         \/ journal'[Key(c)] # Null /\ journal'[Key(c)].status # "completed"
  PROVE  IInv'
<1>1. TypeInv /\ CallInv(c) /\ CommandInv(Key(c)) /\ Key(c) \in Keys
  BY DEF IInv, CallInv, Key, IntegrateLabels, PickLabels
<1>2. Integrating(c) /\ Owns(c) /\ lock = c
  BY <1>1 DEF CallInv, Integrating, IntegrateLabels, PickLabels
<1>3. /\ Leave(c) /\ UNCHANGED <<task, rounds, engine, row, head, picking, dirty>>
      /\ commands' = IF journal'[Key(c)] = Null
                       THEN [commands EXCEPT ![Key(c)].status = "failed"] ELSE commands
  BY DEF Throw, SafeToFail, worktree
<1>4. /\ pc' \in [Calls -> Labels] /\ call' \in [Calls -> CallRecords]
      /\ lock' \in Calls \cup {Null} /\ (lock' = lock \/ lock = c)
      /\ pc'[c] = "idle" /\ Others(c) /\ up' = up /\ crashes' = crashes /\ drift' = drift
      /\ CallInv(c)' /\ ~Integrating(c)'
  BY <1>1, <1>3, Leaving, IdleCall DEF Integrating
<1> DEFINE failed == [commands[Key(c)] EXCEPT !.status = "failed"]
<1>5. commands \in [Keys -> Commands \cup {Null}] /\ commands[Key(c)] \in Commands
  BY <1>1, <1>2 DEF TypeInv, Owns
<1>6. /\ failed \in Commands /\ failed.status = "failed" /\ failed.type = "integrate"
      /\ failed.selection = commands[Key(c)].selection /\ failed.result = Null
  BY <1>2, <1>5 DEF Owns, Commands
<1>7. journal'[Key(c)] = Null =>
        /\ commands' \in [Keys -> Commands \cup {Null}] /\ commands'[Key(c)] = failed
        /\ \A k \in Keys \ {Key(c)} : commands'[k] = commands[k]
  BY <1>1, <1>3, <1>5, <1>6
<1> HIDE DEF failed
<1>8. TypeInv'
  BY <1>1, <1>3, <1>4, <1>5, <1>7 DEF TypeInv
<1>9. \A k : k = Key(c) => CommandInv(k)'
  <2>1. CASE journal'[Key(c)] = Null
    BY <1>1, <1>2, <1>6, <1>7, <2>1 DEF CommandInv, Owns
  <2>2. CASE journal'[Key(c)] # Null
    BY <1>1, <1>2, <1>3, <2>2 DEF CommandInv, Owns
  <2> QED BY <2>1, <2>2
<1>10. \A k \in Keys : commands'[k] = commands[k] \/ k = Key(c)
  BY <1>3, <1>7
<1>11. ReservedTaskStaysOpen'
  <2>1. \A k \in Keys : Reserved(k)' => Reserved(k)
    BY <1>3, <1>6, <1>7, <1>10 DEF Reserved
  <2> QED BY <1>3, <2>1, ReservedStays
<1>12. LeadRecordFollowsHead'
  <2>1. \A k \in Keys : \/ journal'[k] = journal[k]
                        \/ journal'[k] # Null /\ journal'[k].status # "completed"
    OBVIOUS
  <2> QED BY <1>3, <1>4, <2>1, RecordStays
<1>13. \A k \in Keys : (commands'[k] = commands[k] /\ journal'[k] = journal[k]) \/ CommandInv(k)'
  BY <1>9, <1>10
<1> QED BY <1>2, <1>4, <1>8, <1>10, <1>11, <1>12, <1>13, Assemble

LEMMA CheckStatusStep == ASSUME IInv, NEW c \in Calls, CheckStatus(c) PROVE IInv'
<1>1. TypeInv /\ CallInv(c) /\ pc[c] = "status" /\ pc[c] \in IntegrateLabels
  BY DEF IInv, CheckStatus, At, IntegrateLabels
<1>2. CASE UNCHANGED journal /\ Throw(c)
  <2>1. journal' = journal /\ journal' \in [Keys -> Rows \cup {Null}]
    BY <1>1, <1>2 DEF TypeInv
  <2> QED BY <1>1, <1>2, <2>1, ThrowStep
<1>3. CASE /\ journal[Key(c)] = Null /\ Goto(c, "intend")
           /\ UNCHANGED <<database, worktree, up, lock, call, bounds>>
  <2>1. pc' \in [Calls -> Labels] /\ pc'[c] = "intend" /\ \A d \in Calls \ {c} : pc'[d] = pc[d]
    BY <1>1, <1>3, Going DEF Labels, IntegrateLabels
  <2>2. /\ call' = call /\ lock' = lock /\ UNCHANGED <<database, worktree, up, crashes, drift>>
        /\ journal' = journal /\ commands' = commands
    BY <1>3 DEF bounds, database
  <2>3. \A d \in Calls : Integrating(d)' <=> Integrating(d)
    BY <1>1, <2>1, <2>2 DEF Integrating
  <2>4. CallInv(c)'
    <3>1. Owns(c)'
      BY <1>1, <2>2, <2>3 DEF CallInv, Owns, Key, Integrating
    <3> QED BY <1>1, <1>3, <2>1, <2>2, <3>1
            DEF CallInv, Integrating, RoundLabels, IntegrateLabels, ContinueLabels, PickLabels,
                ContinueRowLabels, Key
  <2>5. Others(c) /\ call' \in [Calls -> CallRecords] /\ lock' \in Calls \cup {Null}
    BY <1>1, <2>1, <2>2 DEF Others, TypeInv
  <2>6. Integrating(c)' => Integrating(c) /\ call'[c].key = Key(c)
    BY <2>2, <2>3 DEF Key
  <2> QED BY <2>1, <2>2, <2>4, <2>5, <2>6, Walk
<1> QED BY <1>2, <1>3 DEF CheckStatus

\* What holds while an integration picks.
LEMMA PickFacts ==
  ASSUME IInv, NEW c \in Calls, pc[c] \in PickLabels
  PROVE  /\ TypeInv /\ CallInv(c) /\ up /\ lock = c /\ Integrating(c) /\ Owns(c)
         /\ Runs(c, "integrate") /\ Progressed(c)
         /\ call[c] \in CallRecords /\ call[c].kind = "integrate" /\ Key(c) \in Keys
         /\ call[c].selection \in Seq(Picks) /\ Len(call[c].selection) \in Nat
         /\ call[c].at \in Nat
         /\ journal[Key(c)] \in Rows /\ journal[Key(c)].expected.before \in Commits
<1>1. TypeInv /\ CallInv(c) /\ pc[c] # "idle" /\ pc[c] \in IntegrateLabels
  BY DEF IInv, PickLabels, IntegrateLabels
<1>2. /\ up /\ lock = c /\ Integrating(c) /\ Owns(c) /\ Runs(c, "integrate") /\ Progressed(c)
      /\ call[c].kind = "integrate" /\ Key(c) \in Keys
  BY <1>1 DEF CallInv, Integrating, Key
<1>3. call[c] \in CallRecords /\ journal[Key(c)] \in Rows
  BY <1>1, <1>2 DEF TypeInv, Runs
<1>4. call[c].selection \in Seq(Picks) /\ call[c].at \in Nat
  BY <1>3 DEF CallRecords
<1>5. journal[Key(c)].expected.before \in Commits
  BY <1>3 DEF Rows
<1> QED BY <1>1, <1>2, <1>3, <1>4, <1>5, LenProperties

\* A step of an integration that picks: its row of the journal stays open.
LEMMA PickOn ==
  ASSUME IInv, NEW c \in Calls, pc[c] \in PickLabels,
         pc' \in [Calls -> Labels], pc'[c] \in PickLabels,
         call' \in [Calls -> CallRecords], Others(c),
         call'[c].kind = call[c].kind, call'[c].key = call[c].key,
         call'[c].selection = call[c].selection,
         UNCHANGED <<database, up, lock, crashes, drift>>,
         head' \in Commits, head' # <<>>, picking' \in Picks \cup {Null}, dirty' \in BOOLEAN,
         Progressed(c)'
  PROVE  IInv'
<1>1. /\ TypeInv /\ CallInv(c) /\ up /\ lock = c /\ Integrating(c) /\ Owns(c)
      /\ Runs(c, "integrate") /\ call[c].kind = "integrate" /\ Key(c) \in Keys
  BY PickFacts
<1>2. UNCHANGED <<task, rounds, engine, commands, journal, row, up, lock, crashes, drift>>
  BY DEF database
<1>3. TypeInv'
  BY <1>1, <1>2 DEF TypeInv
<1>4. Key(c)' = Key(c) /\ Integrating(c)'
  BY <1>1 DEF Key, Integrating, PickLabels
<1>5. Owns(c)'
  <2>1. \A d \in Calls : Integrating(d)' => Integrating(d)
    BY <1>1 DEF Others, Integrating
  <2>2. \A d \in Calls : Key(d)' = Key(d)
    BY <1>4 DEF Others, Key
  <2> QED BY <1>1, <1>2, <1>4, <2>1, <2>2 DEF Owns
<1>6. Runs(c, "integrate")'
  BY <1>1, <1>2, <1>4 DEF Runs
<1>7. CallInv(c)'
  BY <1>1, <1>2, <1>4, <1>5, <1>6
     DEF CallInv, Integrating, RoundLabels, IntegrateLabels, ContinueLabels, PickLabels,
         ContinueRowLabels, Kinds, Key
<1>8. ReservedTaskStaysOpen'
  BY <1>2, ReservedStays DEF Reserved
<1>9. LeadRecordFollowsHead'
  BY <1>1, <1>2 DEF LeadRecordFollowsHead, Runs
<1> QED BY <1>1, <1>2, <1>3, <1>4, <1>7, <1>8, <1>9, Assemble DEF Key

LEMMA IntendStep == ASSUME IInv, NEW c \in Calls, Intend(c) PROVE IInv'
<1> DEFINE key == Key(c)
           new == Executing([op |-> "integrate", selection |-> call[c].selection, before |-> head])
           later == [call[c] EXCEPT !.before = head]
<1>1. TypeInv /\ CallInv(c) /\ pc[c] = "intend"
  BY DEF IInv, Intend, At
<1>2. /\ up /\ lock = c /\ Integrating(c) /\ Owns(c) /\ call[c].kind = "integrate"
      /\ key \in Keys /\ call[c].at = 1 /\ journal[key] = Null
  BY <1>1 DEF CallInv, IntegrateLabels, PickLabels, Integrating, Key
<1>3. /\ Goto(c, "pick") /\ journal' = [journal EXCEPT ![key] = new]
      /\ call' = [call EXCEPT ![c].before = head]
      /\ UNCHANGED <<task, rounds, engine, commands, row, head, picking, dirty, up, lock>>
      /\ crashes' = crashes /\ drift' = drift
  BY DEF Intend, worktree, bounds
<1>4. call[c] \in CallRecords /\ head \in Commits /\ head # <<>> /\ "pick" \in Labels
  BY <1>1 DEF TypeInv, Labels, IntegrateLabels, PickLabels
<1>5. /\ later \in CallRecords /\ later.kind = "integrate" /\ later.key = key
      /\ later.selection = call[c].selection /\ later.at = 1 /\ later.before = head
  BY <1>2, <1>4 DEF CallRecords, Key
<1>6. call[c].selection \in Seq(Picks) /\ Len(call[c].selection) \in Nat
  BY <1>4, LenProperties DEF CallRecords
<1>7. /\ new \in Rows /\ new.status = "executing" /\ new.expected.op = "integrate"
      /\ new.expected.selection = call[c].selection /\ new.expected.before = head
  BY <1>4, <1>6 DEF Executing, Rows
<1>8. call' = [call EXCEPT ![c] = later]
  BY <1>3
<1> HIDE DEF new, later
<1>9. /\ pc' \in [Calls -> Labels] /\ call' \in [Calls -> CallRecords]
      /\ pc'[c] = "pick" /\ call'[c] = later /\ Others(c)
  BY <1>1, <1>3, <1>4, <1>5, <1>8, Beginning
<1>10. /\ journal' \in [Keys -> Rows \cup {Null}] /\ journal'[key] = new
       /\ \A k \in Keys \ {key} : journal'[k] = journal[k]
  BY <1>1, <1>2, <1>3, <1>7 DEF TypeInv
<1>11. TypeInv'
  BY <1>1, <1>3, <1>9, <1>10 DEF TypeInv
<1>12. Key(c)' = key /\ Integrating(c)'
  BY <1>5, <1>9 DEF Key, Integrating
<1>13. new # Null
  BY <1>7, NullIsApart
<1>14. CallInv(c)'
  <2>1. Owns(c)'
    <3>1. \A d \in Calls : (Integrating(d)' => Integrating(d)) /\ Key(d)' = Key(d)
      BY <1>2, <1>9, <1>12 DEF Others, Integrating, Key
    <3> QED BY <1>2, <1>3, <1>5, <1>9, <1>12, <3>1 DEF Owns
  <2>2. Runs(c, "integrate")'
    BY <1>5, <1>7, <1>9, <1>10, <1>12, <1>13 DEF Runs
  <2>3. Progressed(c)'
    <3>1. PicksOnTop(head, head, call[c].selection, 0)
      BY <1>4, NothingPicked
    <3>2. /\ journal'[Key(c)'].expected.before = head /\ head' = head
          /\ call'[c].selection = call[c].selection /\ call'[c].at = 1
          /\ call'[c].before = head
      BY <1>3, <1>5, <1>7, <1>9, <1>10, <1>12
    <3>3. 1 - 1 = 0 /\ 1 \in 1 .. Len(call[c].selection) + 1
      BY <1>6
    <3> QED BY <1>4, <1>9, <3>1, <3>2, <3>3 DEF Progressed
  <2> QED BY <1>2, <1>3, <1>5, <1>9, <1>12, <2>1, <2>2, <2>3
          DEF CallInv, RoundLabels, IntegrateLabels, ContinueLabels, PickLabels,
              ContinueRowLabels, Kinds, Key
<1>15. \A k \in Keys : (commands'[k] = commands[k] /\ journal'[k] = journal[k]) \/ CommandInv(k)'
  <2>1. \A k : k = key => CommandInv(k)'
    <3>1. CommandInv(key)
      BY <1>2 DEF IInv
    <3> QED BY <1>2, <1>3, <3>1 DEF CommandInv, Owns
  <2> QED BY <1>3, <1>10, <2>1
<1>16. ReservedTaskStaysOpen'
  BY <1>3, ReservedStays DEF Reserved
<1>17. LeadRecordFollowsHead'
  BY <1>2, <1>7, <1>10, <1>13 DEF LeadRecordFollowsHead
<1> QED BY <1>2, <1>3, <1>5, <1>9, <1>11, <1>12, <1>14, <1>15, <1>16, <1>17, Assemble DEF Key

\* What a step writes into the record of the call.
LEMMA CallWritten ==
  ASSUME NEW k \in CallRecords
  PROVE  /\ \A result \in Results \cup {Null} :
              LET next == [k EXCEPT !.result = result]
              IN  /\ next \in CallRecords /\ next.kind = k.kind /\ next.key = k.key
                  /\ next.selection = k.selection /\ next.before = k.before /\ next.at = k.at
                  /\ next.result = result
         /\ \A commit \in Commits :
              LET next == [k EXCEPT !.before = commit]
              IN  /\ next \in CallRecords /\ next.kind = k.kind /\ next.key = k.key
                  /\ next.selection = k.selection /\ next.before = commit /\ next.at = k.at
         /\ LET next == [k EXCEPT !.at = @ + 1]
            IN  /\ next \in CallRecords /\ next.kind = k.kind /\ next.key = k.key
                /\ next.selection = k.selection /\ next.before = k.before /\ next.at = k.at + 1
BY DEF CallRecords

\* An execution ends with a result that is one, or with none.
LEMMA ExecutedStep ==
  ASSUME IInv, NEW c \in Calls, pc[c] \in PickLabels, NEW result \in Results \cup {Null},
         Executed(c, result), UNCHANGED <<database, worktree, up, lock, bounds>>,
         result # Null => IsResultOf(result, journal[Key(c)].expected)
  PROVE  IInv'
<1> DEFINE next == [call[c] EXCEPT !.result = result]
<1>1. TypeInv /\ call[c] \in CallRecords /\ Progressed(c) /\ "observe" \in Labels
  BY PickFacts DEF Labels, IntegrateLabels, PickLabels
<1>2. /\ next \in CallRecords /\ next.kind = call[c].kind /\ next.key = call[c].key
      /\ next.selection = call[c].selection /\ next.before = call[c].before
      /\ next.result = result
  BY <1>1, CallWritten
<1>3. call' = [call EXCEPT ![c] = next] /\ Goto(c, "observe")
  BY DEF Executed
<1>4. /\ UNCHANGED <<database, up, lock, crashes, drift>>
      /\ head' = head /\ picking' = picking /\ dirty' = dirty /\ journal' = journal
  BY DEF database, worktree, bounds
<1> HIDE DEF next
<1>5. /\ pc' \in [Calls -> Labels] /\ call' \in [Calls -> CallRecords]
      /\ pc'[c] = "observe" /\ call'[c] = next /\ Others(c)
  BY <1>1, <1>2, <1>3, Beginning
<1>6. Progressed(c)'
  <2>1. Key(c)' = Key(c)
    BY <1>2, <1>5 DEF Key
  <2> QED BY <1>1, <1>2, <1>4, <1>5, <2>1 DEF Progressed
<1>7. head' \in Commits /\ head' # <<>> /\ picking' \in Picks \cup {Null} /\ dirty' \in BOOLEAN
  BY <1>1, <1>4 DEF TypeInv
<1>8. pc'[c] \in PickLabels
  BY <1>5 DEF PickLabels
<1> QED BY <1>2, <1>4, <1>5, <1>6, <1>7, <1>8, PickOn

LEMMA ResultsAreTyped ==
  ASSUME NEW commit \in Commits
  PROVE  /\ Integrated(commit) \in Results /\ Integrated(commit).outcome = "integrated"
         /\ Integrated(commit).head = commit
         /\ Conflict(commit) \in Results /\ Conflict(commit).outcome = "conflict"
         /\ Conflict(commit).head = commit
BY DEF Integrated, Conflict, Results

LEMMA NextPickStep == ASSUME IInv, NEW c \in Calls, NextPick(c) PROVE IInv'
<1> DEFINE s == call[c].selection
           entry == journal[Key(c)]
<1>1. /\ TypeInv /\ Progressed(c) /\ Runs(c, "integrate") /\ call[c] \in CallRecords
      /\ s \in Seq(Picks) /\ Len(s) \in Nat /\ entry.expected.before \in Commits
      /\ pc[c] = "pick" /\ pc[c] \in PickLabels
  <2>1. pc[c] = "pick" /\ pc[c] \in PickLabels
    BY DEF NextPick, At, PickLabels
  <2> QED BY <2>1, PickFacts
<1>2. /\ UNCHANGED <<database, worktree, up, lock, bounds>>
      /\ head \in Commits /\ head # <<>> /\ call[c].before \in Commits
      /\ call[c].at \in 1 .. Len(s) + 1 /\ entry.expected.selection = s
      /\ PicksOnTop(entry.expected.before, head, s, call[c].at - 1)
      /\ (s = <<>> => call[c].before = entry.expected.before)
  BY <1>1 DEF NextPick, Progressed, Runs, TypeInv
<1> HIDE DEF s, entry
<1>3. CASE s = <<>> /\ Executed(c, Integrated(call[c].before))
  <2>1. PICK result \in Results \cup {Null} : result = Integrated(call[c].before)
    BY <1>2, ResultsAreTyped
  <2>2. Executed(c, result)
    BY <1>3, <2>1 DEF Executed
  <2>3. Len(s) = 0
    BY <1>3
  <2>4. PicksOnTop(entry.expected.before, entry.expected.before, s, 0)
    BY <1>1, NothingPicked
  <2>5. IsResultOf(result, entry.expected)
    BY <1>2, <1>3, <2>1, <2>3, <2>4, ResultsAreTyped DEF IsResultOf
  <2> QED BY <1>1, <1>2, <2>2, <2>5, ExecutedStep DEF entry
<1>4. CASE Executed(c, Null)
  BY <1>1, <1>2, <1>4, ExecutedStep
<1>5. CASE s # <<>> /\ AllPicked(c) /\ Executed(c, Integrated(head))
  <2>1. PICK result \in Results \cup {Null} : result = Integrated(head)
    BY <1>2, ResultsAreTyped
  <2>2. Executed(c, result)
    BY <1>5, <2>1 DEF Executed
  <2>3. call[c].at - 1 = Len(s)
    BY <1>1, <1>2, <1>5 DEF AllPicked, s
  <2>4. IsResultOf(result, entry.expected)
    BY <1>2, <2>1, <2>3, ResultsAreTyped DEF IsResultOf
  <2> QED BY <1>1, <1>2, <2>2, <2>4, ExecutedStep DEF entry
<1>6. CASE /\ s # <<>> /\ ~AllPicked(c)
           /\ call' = [call EXCEPT ![c].before = head] /\ Goto(c, "cherryPick")
  <2>1. PICK commit \in Commits : commit = head
    BY <1>2
  <2> DEFINE next == [call[c] EXCEPT !.before = commit]
  <2>2. /\ next \in CallRecords /\ next.kind = call[c].kind /\ next.key = call[c].key
        /\ next.selection = call[c].selection /\ next.before = commit /\ next.at = call[c].at
    BY <1>1, CallWritten
  <2>3. call' = [call EXCEPT ![c] = next] /\ "cherryPick" \in Labels
    BY <1>6, <2>1 DEF Labels, IntegrateLabels, PickLabels
  <2>4. /\ UNCHANGED <<database, up, lock, crashes, drift>> /\ journal' = journal
        /\ head' = head /\ picking' = picking /\ dirty' = dirty
    BY <1>2 DEF database, worktree, bounds
  <2> HIDE DEF next
  <2>5. /\ pc' \in [Calls -> Labels] /\ call' \in [Calls -> CallRecords]
        /\ pc'[c] = "cherryPick" /\ call'[c] = next /\ Others(c)
    BY <1>1, <1>6, <2>2, <2>3, Beginning
  <2>6. Progressed(c)'
    <3>1. call[c].at \in 1 .. Len(call[c].selection)
      BY <1>1, <1>2, <1>6 DEF AllPicked, s
    <3>2. Key(c)' = Key(c)
      BY <2>2, <2>5 DEF Key
    <3> QED BY <1>2, <2>1, <2>2, <2>4, <2>5, <3>1, <3>2 DEF Progressed, entry, s
  <2>7. /\ head' \in Commits /\ head' # <<>> /\ picking' \in Picks \cup {Null} /\ dirty' \in BOOLEAN
        /\ pc'[c] \in PickLabels
    BY <1>1, <2>4, <2>5 DEF TypeInv, PickLabels
  <2> QED BY <1>1, <2>2, <2>4, <2>5, <2>6, <2>7, PickOn
<1> QED BY <1>3, <1>4, <1>5, <1>6 DEF NextPick, s

LEMMA CherryPickStep == ASSUME IInv, NEW c \in Calls, CherryPick(c) PROVE IInv'
<1> DEFINE s == call[c].selection
           begun == journal[Key(c)].expected.before
<1>1. /\ TypeInv /\ Progressed(c) /\ call[c] \in CallRecords
      /\ s \in Seq(Picks) /\ begun \in Commits
      /\ pc[c] = "cherryPick" /\ pc[c] \in PickLabels
  <2>1. pc[c] = "cherryPick" /\ pc[c] \in PickLabels
    BY DEF CherryPick, At, PickLabels
  <2> QED BY <2>1, PickFacts
<1>2. /\ head \in Commits /\ head # <<>> /\ call[c].before \in Commits
      /\ call[c].at \in 1 .. Len(s) /\ call[c].at \in Nat /\ call[c].at - 1 \in Nat
      /\ PicksOnTop(begun, head, s, call[c].at - 1)
      /\ PicksOnTop(begun, call[c].before, s, call[c].at - 1)
  BY <1>1 DEF Progressed, TypeInv, CallRecords
<1>3. PICK label \in {"picked", "stopped"} :
        /\ GitPick(c, label) \/ (label = "stopped" /\ UNCHANGED worktree)
        /\ Goto(c, label)
  BY DEF CherryPick
<1>4. UNCHANGED <<database, up, lock, crashes, drift>> /\ call' = call /\ journal' = journal
  BY DEF CherryPick, bounds, database
<1>5. Picked(c) \in Picks /\ Picked(c) = s[call[c].at]
  BY <1>1, <1>2, ElementOfSeq DEF Picked
<1>6. /\ pc' \in [Calls -> Labels] /\ pc'[c] = label /\ pc'[c] \in PickLabels /\ Others(c)
      /\ Key(c)' = Key(c)
  <2>1. label \in Labels /\ label \in PickLabels
    BY DEF Labels, IntegrateLabels, PickLabels
  <2> QED BY <1>1, <1>3, <1>4, <2>1, Going DEF Others, Key
<1>7. /\ head' = Append(head, Picked(c)) \/ (head' = head /\ label = "stopped")
      /\ picking' \in {picking, Picked(c)} /\ dirty' \in {dirty, TRUE}
  BY <1>3 DEF GitPick, worktree
<1>8. head' \in Commits /\ head' # <<>> /\ picking' \in Picks \cup {Null} /\ dirty' \in BOOLEAN
  <2>1. Picked(c) \in Picks \cup {"own", "user"}
    BY <1>5
  <2>2. Append(head, Picked(c)) \in Commits /\ Append(head, Picked(c)) # <<>>
    BY <1>2, <2>1, AppendCommit
  <2>3. picking \in Picks \cup {Null} /\ dirty \in BOOLEAN
    BY <1>1 DEF TypeInv
  <2> QED BY <1>2, <1>5, <1>7, <2>2, <2>3
<1>9. ASSUME label = "picked" PROVE PicksOnTop(begun, head', s, call[c].at)
  <2>1. PICK n \in Nat : n = call[c].at - 1
    BY <1>2
  <2>2. n + 1 = call[c].at /\ n + 1 \in 1 .. Len(s)
    BY <1>2, <2>1
  <2>3. PicksOnTop(begun, head, s, n)
    BY <1>2, <2>1
  <2> HIDE DEF s, begun
  <2>4. PicksOnTop(begun, Append(head, s[n + 1]), s, n + 1)
    BY <1>1, <1>2, <2>2, <2>3, PickOnTop
  <2> QED BY <1>5, <1>7, <1>9, <2>2, <2>4
<1>10. Progressed(c)'
  BY <1>2, <1>4, <1>6, <1>9 DEF Progressed
<1> QED BY <1>1, <1>4, <1>6, <1>8, <1>10, PickOn DEF TypeInv

LEMMA StoppedStep == ASSUME IInv, NEW c \in Calls, Stopped(c) PROVE IInv'
<1> DEFINE s == call[c].selection
           entry == journal[Key(c)]
<1>1. /\ TypeInv /\ Progressed(c) /\ Runs(c, "integrate") /\ call[c] \in CallRecords
      /\ Len(s) \in Nat
      /\ pc[c] = "stopped" /\ pc[c] \in PickLabels
  <2>1. pc[c] = "stopped" /\ pc[c] \in PickLabels
    BY DEF Stopped, At, PickLabels
  <2> QED BY <2>1, PickFacts
<1>2. /\ UNCHANGED <<database, worktree, up, lock, bounds>>
      /\ call[c].before \in Commits /\ call[c].at \in 1 .. Len(s)
      /\ entry.expected.selection = s
      /\ PicksOnTop(entry.expected.before, call[c].before, s, call[c].at - 1)
  BY <1>1 DEF Stopped, Progressed, Runs
<1> HIDE DEF s, entry
<1>3. CASE Executed(c, Null)
  BY <1>1, <1>2, <1>3, ExecutedStep
<1>4. CASE Executed(c, Conflict(call[c].before))
  <2>1. PICK result \in Results \cup {Null} : result = Conflict(call[c].before)
    BY <1>2, ResultsAreTyped
  <2>2. Executed(c, result)
    BY <1>4, <2>1 DEF Executed
  <2>3. call[c].at - 1 \in 0 .. Len(s) - 1
    BY <1>1, <1>2
  <2>4. result.outcome = "conflict" /\ result.head = call[c].before
    BY <1>2, <2>1, ResultsAreTyped
  <2>5. IsResultOf(result, entry.expected)
    BY <1>2, <2>3, <2>4 DEF IsResultOf
  <2> QED BY <1>1, <1>2, <2>2, <2>5, ExecutedStep DEF entry
<1>5. Executed(c, Null) \/ Executed(c, Conflict(call[c].before))
  BY DEF Stopped, Executed
<1> QED BY <1>3, <1>4, <1>5

LEMMA CheckPickStep == ASSUME IInv, NEW c \in Calls, CheckPick(c) PROVE IInv'
<1> DEFINE s == call[c].selection
<1>1. /\ TypeInv /\ Progressed(c) /\ call[c] \in CallRecords /\ Len(s) \in Nat
      /\ pc[c] = "picked" /\ pc[c] \in PickLabels
      /\ UNCHANGED <<database, worktree, up, lock, bounds>>
  <2>1. pc[c] = "picked" /\ pc[c] \in PickLabels
    BY DEF CheckPick, At, PickLabels
  <2> QED BY <2>1, PickFacts DEF CheckPick
<1>2. CASE Executed(c, Null)
  BY <1>1, <1>2, ExecutedStep
<1>3. CASE call' = [call EXCEPT ![c].at = @ + 1] /\ Goto(c, "pick")
  <2> DEFINE next == [call[c] EXCEPT !.at = @ + 1]
  <2>1. /\ next \in CallRecords /\ next.kind = call[c].kind /\ next.key = call[c].key
        /\ next.selection = call[c].selection /\ next.before = call[c].before
        /\ next.at = call[c].at + 1
    BY <1>1, CallWritten
  <2>2. call' = [call EXCEPT ![c] = next] /\ "pick" \in Labels
    BY <1>3 DEF Labels, IntegrateLabels, PickLabels
  <2>3. /\ UNCHANGED <<database, up, lock, crashes, drift>> /\ journal' = journal
        /\ head' = head /\ picking' = picking /\ dirty' = dirty
    BY <1>1 DEF database, worktree, bounds
  <2> HIDE DEF next
  <2>4. /\ pc' \in [Calls -> Labels] /\ call' \in [Calls -> CallRecords]
        /\ pc'[c] = "pick" /\ call'[c] = next /\ Others(c)
    BY <1>1, <1>3, <2>1, <2>2, Beginning
  <2>5. Progressed(c)'
    <3>1. call[c].at \in 1 .. Len(call[c].selection) /\ call[c].selection # <<>>
      BY <1>1 DEF Progressed
    <3>2. /\ call[c].at + 1 \in 1 .. Len(call[c].selection) + 1
          /\ (call[c].at + 1) - 1 = call[c].at
      BY <1>1, <3>1
    <3>3. Key(c)' = Key(c)
      BY <2>1, <2>4 DEF Key
    <3> QED BY <1>1, <2>1, <2>3, <2>4, <3>1, <3>2, <3>3 DEF Progressed
  <2>6. /\ head' \in Commits /\ head' # <<>> /\ picking' \in Picks \cup {Null} /\ dirty' \in BOOLEAN
        /\ pc'[c] \in PickLabels
    BY <1>1, <2>3, <2>4 DEF TypeInv, PickLabels
  <2> QED BY <1>1, <2>1, <2>3, <2>4, <2>5, <2>6, PickOn
<1> QED BY <1>2, <1>3 DEF CheckPick

-----------------------------------------------------------------------------
(* The end of an integration                                               *)

LEMMA SettledRow ==
  ASSUME NEW r \in Rows, NEW outcome \in Outcomes, NEW result \in Results \cup {Null}
  PROVE  /\ Settled(r, outcome, result) \in Rows
         /\ Settled(r, outcome, result).expected = r.expected
         /\ Settled(r, outcome, result).result = result
         /\ Settled(r, outcome, result).status =
              IF outcome = "applied" THEN "completed" ELSE "needs_attention"
<1> DEFINE observed == [r EXCEPT !.status = "observed", !.outcome = outcome, !.result = result]
           status == IF outcome = "applied" THEN "completed" ELSE "needs_attention"
<1>1. observed \in Rows
  BY DEF Rows
<1>2. observed.expected = r.expected /\ observed.result = result
  BY DEF Rows
<1>3. Settled(r, outcome, result) = [observed EXCEPT !.status = status]
  BY DEF Settled, Observed
<1>4. status \in {"executing", "observed", "completed", "needs_attention"}
  OBVIOUS
<1> HIDE DEF observed, status
<1>5. [observed EXCEPT !.status = status] \in Rows
  BY <1>1, <1>4 DEF Rows
<1>6. /\ [observed EXCEPT !.status = status].status = status
      /\ [observed EXCEPT !.status = status].expected = observed.expected
      /\ [observed EXCEPT !.status = status].result = observed.result
  BY <1>1 DEF Rows
<1> QED BY <1>2, <1>3, <1>5, <1>6 DEF status

LEMMA OutcomeFacts ==
  ASSUME NEW c
  PROVE  /\ Outcome(c) \in Outcomes
         /\ Outcome(c) = "applied" => call[c].result # Null /\ head = call[c].result.head
BY DEF Outcome, Outcomes

\* The journal is settled at its end: open for a failure, with the result for a
\* success.
LEMMA SettledByCall ==
  ASSUME IInv, NEW c \in Calls, pc[c] = "observe", JournalSettled(c)
  PROVE  /\ journal' \in [Keys -> Rows \cup {Null}]
         /\ \A k \in Keys \ {Key(c)} : journal'[k] = journal[k]
         /\ journal'[Key(c)] # Null
         /\ Outcome(c) # "applied" => journal'[Key(c)].status # "completed"
         /\ Outcome(c) = "applied" =>
              /\ call[c].result \in Results /\ head = call[c].result.head
              /\ journal'[Key(c)].status = "completed"
              /\ journal'[Key(c)].result = call[c].result
              /\ journal'[Key(c)].expected.selection = call[c].selection
              /\ IsResultOf(call[c].result, journal'[Key(c)].expected)
<1>1. /\ TypeInv /\ Progressed(c) /\ Runs(c, "integrate") /\ call[c] \in CallRecords
      /\ Key(c) \in Keys /\ journal[Key(c)] \in Rows
  BY PickFacts DEF PickLabels
<1> DEFINE entry == journal[Key(c)]
           outcome == Outcome(c)
           result == IF outcome = "applied" THEN call[c].result ELSE Null
           new == Settled(entry, outcome, result)
<1>2. outcome \in Outcomes /\ result \in Results \cup {Null}
  BY <1>1, OutcomeFacts DEF CallRecords
<1>3. journal' = [journal EXCEPT ![Key(c)] = new]
  BY DEF JournalSettled
<1>4. outcome = "applied" =>
        /\ call[c].result \in Results /\ head = call[c].result.head
        /\ IsResultOf(call[c].result, entry.expected)
  BY <1>1, OutcomeFacts DEF CallRecords, Progressed
<1>5. /\ new \in Rows /\ new.expected = entry.expected /\ new.result = result
      /\ new.status = IF outcome = "applied" THEN "completed" ELSE "needs_attention"
  <2> HIDE DEF entry, outcome, result
  <2>1. entry \in Rows
    BY <1>1 DEF entry
  <2> QED BY <1>2, <2>1, SettledRow
<1>6. entry.expected.selection = call[c].selection
  BY <1>1 DEF Runs
<1> HIDE DEF new, entry, outcome
<1>7. /\ journal' \in [Keys -> Rows \cup {Null}] /\ journal'[Key(c)] = new
      /\ \A k \in Keys \ {Key(c)} : journal'[k] = journal[k]
  BY <1>1, <1>3, <1>5 DEF TypeInv
<1> QED BY <1>4, <1>5, <1>6, <1>7, NullIsApart DEF outcome

LEMMA FinishStep == ASSUME IInv, NEW c \in Calls, Finish(c) PROVE IInv'
<1>1. pc[c] = "observe" /\ pc[c] \in PickLabels /\ pc[c] \in IntegrateLabels /\ JournalSettled(c)
  BY DEF Finish, At, PickLabels, IntegrateLabels
<1>2. /\ TypeInv /\ CallInv(c) /\ lock = c /\ Integrating(c) /\ Owns(c)
      /\ call[c] \in CallRecords /\ Key(c) \in Keys
  BY <1>1, PickFacts
<1>3. CASE Outcome(c) # "applied" /\ Throw(c)
  BY <1>1, <1>3, SettledByCall, ThrowStep
<1>4. CASE /\ Outcome(c) = "applied" /\ row' = RecordedHead(c)
           /\ CompleteIntegration(c) /\ Leave(c)
           /\ UNCHANGED <<rounds, engine, worktree>>
  <2> DEFINE result == call[c].result
             key == Key(c)
             done == CommandDone(commands[key], result)
  <2>1. /\ journal' \in [Keys -> Rows \cup {Null}]
        /\ \A k \in Keys \ {key} : journal'[k] = journal[k]
        /\ journal'[key] # Null /\ result \in Results /\ head = result.head
        /\ journal'[key].status = "completed" /\ journal'[key].result = result
        /\ journal'[key].expected.selection = call[c].selection
        /\ IsResultOf(result, journal'[key].expected)
    BY <1>1, <1>4, SettledByCall
  <2>2. /\ pc' \in [Calls -> Labels] /\ call' \in [Calls -> CallRecords]
        /\ lock' \in Calls \cup {Null} /\ (lock' = lock \/ lock = c)
        /\ pc'[c] = "idle" /\ Others(c) /\ up' = up /\ crashes' = crashes /\ drift' = drift
        /\ CallInv(c)' /\ ~Integrating(c)'
    BY <1>2, <1>4, Leaving, IdleCall DEF Integrating
  <2>3. UNCHANGED <<rounds, engine, head, picking, dirty>> /\ row' = head
    BY <1>4, <2>1 DEF worktree, RecordedHead
  <2>4. commands \in [Keys -> Commands \cup {Null}] /\ commands[key] \in Commands
    BY <1>2 DEF TypeInv, Owns
  <2>5. /\ done \in Commands /\ done.status = "completed" /\ done.result = result
        /\ done.type = "integrate" /\ done.selection = call[c].selection
    <3> DEFINE old == commands[key]
    <3>1. done = [old EXCEPT !.status = "completed", !.result = result]
      BY DEF CommandDone
    <3>2. old \in Commands /\ old.type = "integrate" /\ old.selection = call[c].selection
      BY <1>2, <2>4 DEF Owns
    <3> HIDE DEF old, done, result
    <3>3. done \in Commands
      BY <2>1, <3>1, <3>2 DEF Commands
    <3> QED BY <3>1, <3>2, <3>3 DEF Commands
  <2>6. \/ commands' = [commands EXCEPT ![key] = done]
        \/ commands' = commands
    BY <1>4 DEF CompleteIntegration
  <2>7. /\ task' \in Tasks /\ task'.collaborationRoundsUsed = task.collaborationRoundsUsed
        /\ (task' = task \/ task'.state \in Open)
    BY <1>2, <1>4, Revising DEF CompleteIntegration, TypeInv, Open
  <2> HIDE DEF result, key, done
  <2>8. /\ commands' \in [Keys -> Commands \cup {Null}]
        /\ \A k \in Keys \ {key} : commands'[k] = commands[k]
        /\ commands'[key] = done \/ commands'[key] = commands[key]
    BY <1>2, <2>4, <2>5, <2>6 DEF key
  <2>9. TypeInv'
    BY <1>2, <2>1, <2>2, <2>3, <2>7, <2>8 DEF TypeInv
  <2>10. \A k : k = key => CommandInv(k)'
    <3>1. CASE commands'[key] = done
      <4>1. done.selection \in Selections
        BY <1>2, <2>5 DEF IInv, CommandInv, Owns, key
      <4> QED BY <2>1, <2>5, <3>1, <4>1, NullIsApart DEF CommandInv
    <3>2. CASE commands'[key] = commands[key]
      BY <1>2, <3>2 DEF IInv, CommandInv, Owns, key
    <3> QED BY <2>8, <3>1, <3>2
  <2>11. ReservedTaskStaysOpen'
    <3>1. \A k \in Keys : Reserved(k)' => Reserved(k)
      BY <2>5, <2>8 DEF Reserved
    <3> QED BY <2>7, <3>1, ReservedStays
  <2>12. LeadRecordFollowsHead'
    BY <2>3 DEF LeadRecordFollowsHead
  <2>13. /\ \A k \in Keys : commands'[k] = commands[k] \/ (Integrating(c) /\ k = Key(c))
         /\ \A k \in Keys :
              (commands'[k] = commands[k] /\ journal'[k] = journal[k]) \/ CommandInv(k)'
    BY <1>2, <2>1, <2>8, <2>10 DEF key
  <2> QED BY <1>2, <2>2, <2>9, <2>11, <2>12, <2>13, Assemble
<1> QED BY <1>3, <1>4 DEF Finish

\* When the worker dies, no call is left.
LEMMA DieStep ==
  ASSUME IInv, Die, UNCHANGED <<task, rounds, engine, commands>>,
         journal' \in [Keys -> Rows \cup {Null}], row' \in Commits,
         head' \in Commits, head' # <<>>, picking' \in Picks \cup {Null}, dirty' \in BOOLEAN,
         \A k \in Keys : journal'[k] = journal[k] \/ CommandInv(k)',
         LeadRecordFollowsHead'
  PROVE  IInv'
<1>1. /\ TypeInv /\ up' = FALSE /\ lock' = Null /\ crashes' = crashes + 1 /\ drift' = drift
      /\ pc' = [c \in Calls |-> "idle"] /\ call' = [c \in Calls |-> NoCall]
  BY DEF IInv, Die
<1>2. pc' \in [Calls -> Labels] /\ call' \in [Calls -> CallRecords] /\ \A c \in Calls : CallInv(c)'
  BY <1>1, NoCallIsTyped, IdleCall DEF Labels
<1>3. TypeInv'
  <2>1. crashes' \in Nat /\ drift' \in Nat
    BY <1>1 DEF TypeInv
  <2>2. up' \in BOOLEAN /\ lock' \in Calls \cup {Null}
    BY <1>1
  <2> QED BY <1>1, <1>2, <2>1, <2>2 DEF TypeInv
<1>4. \A k \in Keys : CommandInv(k)'
  BY DEF IInv, CommandInv
<1>5. ReservedTaskStaysOpen'
  BY ReservedStays DEF Reserved
<1> QED BY <1>2, <1>3, <1>4, <1>5 DEF IInv

LEMMA CrashWhileIntegratingStep ==
  ASSUME IInv, NEW c \in Calls, At(c, "observe"), Outcome(c) = "applied", JournalSettled(c), Die,
         row' \in {row, RecordedHead(c)}, UNCHANGED <<task, rounds, engine, commands, worktree>>
  PROVE  IInv'
<1>1. /\ pc[c] = "observe" /\ pc[c] \in PickLabels /\ JournalSettled(c) /\ Outcome(c) = "applied"
      /\ row' \in {row, call[c].result.head} /\ Die
      /\ UNCHANGED <<task, rounds, engine, commands, head, picking, dirty>>
  BY DEF At, PickLabels, RecordedHead, worktree
<1>2. TypeInv /\ Owns(c) /\ Key(c) \in Keys
  BY <1>1, PickFacts
<1>3. /\ journal' \in [Keys -> Rows \cup {Null}]
      /\ \A k \in Keys \ {Key(c)} : journal'[k] = journal[k]
      /\ journal'[Key(c)] # Null /\ head = call[c].result.head
      /\ journal'[Key(c)].result = call[c].result
  BY <1>1, SettledByCall
<1>4. /\ head' \in Commits /\ head' # <<>> /\ picking' \in Picks \cup {Null} /\ dirty' \in BOOLEAN
      /\ row' \in Commits
  BY <1>1, <1>2, <1>3 DEF TypeInv
<1>5. \A k : k = Key(c) => CommandInv(k)'
  BY <1>1, <1>2 DEF IInv, CommandInv, Owns
<1>6. LeadRecordFollowsHead'
  <2>1. crashes' > 0
    BY <1>1, <1>2 DEF Die, TypeInv
  <2> QED BY <1>1, <1>2, <1>3, <2>1 DEF LeadRecordFollowsHead
<1> QED BY <1>1, <1>3, <1>4, <1>5, <1>6, DieStep

-----------------------------------------------------------------------------
(* Continuations                                                           *)

LEMMA StartContinueStep == ASSUME IInv, NEW c \in Calls, StartContinue(c) PROVE IInv'
<1>1. PICK key \in Keys, source \in Picks : Begin(c, "continue", key, <<source>>, Null, "lock")
  BY DEF StartContinue
<1> DEFINE new == [kind |-> "continue", key |-> key, selection |-> <<source>>, before |-> Null,
                   at |-> 1, result |-> Null]
<1>2. TypeInv /\ "lock" \in Labels
  BY DEF IInv, Labels
<1>3. new \in CallRecords
  BY DEF CallRecords, Kinds
<1>4. /\ call' = [call EXCEPT ![c] = new] /\ Goto(c, "lock") /\ up
      /\ UNCHANGED <<database, worktree, up, crashes, drift>> /\ lock' = lock
  BY <1>1 DEF StartContinue, Begin, At
<1>5. new.kind = "continue" /\ new.key \in Keys /\ Len(new.selection) = 1 /\ new.at = 1
  OBVIOUS
<1> HIDE DEF new
<1>6. /\ pc' \in [Calls -> Labels] /\ call' \in [Calls -> CallRecords]
      /\ pc'[c] = "lock" /\ call'[c] = new /\ Others(c)
  BY <1>2, <1>3, <1>4, Beginning
<1>7. CallInv(c)' /\ ~Integrating(c)'
  BY <1>4, <1>5, <1>6 DEF CallInv, Integrating, RoundLabels, IntegrateLabels, ContinueLabels,
                          PickLabels, ContinueRowLabels, Kinds
<1>8. lock' \in Calls \cup {Null} /\ lock' = lock
  BY <1>2, <1>4 DEF TypeInv
<1> QED BY <1>4, <1>6, <1>7, <1>8, Walk

LEMMA ContinueFacts ==
  ASSUME IInv, NEW c \in Calls, pc[c] \in ContinueLabels
  PROVE  /\ TypeInv /\ CallInv(c) /\ up /\ lock = c /\ ~Integrating(c)
         /\ call[c] \in CallRecords /\ call[c].kind = "continue" /\ Key(c) \in Keys
         /\ call[c].selection \in Seq(Picks) /\ Len(call[c].selection) = 1
         /\ pc[c] \in ContinueRowLabels => Runs(c, "continue") /\ journal[Key(c)] \in Rows
<1>1. TypeInv /\ CallInv(c) /\ pc[c] # "idle"
  BY DEF IInv, ContinueLabels, ContinueRowLabels
<1>2. /\ up /\ lock = c /\ call[c].kind = "continue" /\ Key(c) \in Keys
      /\ Len(call[c].selection) = 1
      /\ pc[c] \in ContinueRowLabels => Runs(c, "continue")
  BY <1>1 DEF CallInv, Key
<1> QED BY <1>1, <1>2 DEF Integrating, TypeInv, CallRecords, Runs

\* A continuation that runs leaves the commands alone and writes at its row.
LEMMA ContinueOn ==
  ASSUME IInv, NEW c \in Calls, pc[c] \in ContinueLabels, TypeInv', Others(c), up' = up,
         drift' = drift,
         ~Integrating(c)', UNCHANGED <<task, rounds, engine, commands>>,
         \A k \in Keys \ {Key(c)} : journal'[k] = journal[k],
         \/ journal'[Key(c)] = journal[Key(c)]
         \/ journal[Key(c)] = Null /\ journal'[Key(c)].expected.op = "continue"
         \/ /\ journal[Key(c)] # Null /\ journal[Key(c)].status # "completed"
            /\ journal[Key(c)].expected.op = "continue"
            /\ journal'[Key(c)].expected.op = "continue",
         CallInv(c)', LeadRecordFollowsHead'
  PROVE  IInv'
<1>1. lock = c /\ ~Integrating(c) /\ Key(c) \in Keys
  BY ContinueFacts
<1>2. \A k : k = Key(c) => CommandInv(k)'
  <2>1. CommandInv(Key(c))
    BY <1>1 DEF IInv
  <2> QED BY <2>1 DEF CommandInv
<1>3. ReservedTaskStaysOpen'
  BY ReservedStays DEF Reserved
<1>4. \A k \in Keys : (commands'[k] = commands[k] /\ journal'[k] = journal[k]) \/ CommandInv(k)'
  BY <1>2
<1> QED BY <1>1, <1>3, <1>4, Assemble

LEMMA ResumeStep == ASSUME IInv, NEW c \in Calls, Resume(c) PROVE IInv'
<1> DEFINE prior == journal[Key(c)]
           intent == [op |-> "continue", selection |-> call[c].selection,
                      before |-> prior.expected.before]
           again == prior # Null /\ Replays(prior, intent)
<1>1. /\ pc[c] = "resume" /\ pc[c] \in ContinueLabels
  BY DEF Resume, At, ContinueLabels
<1>2. /\ TypeInv /\ CallInv(c) /\ up /\ lock = c /\ ~Integrating(c)
      /\ call[c] \in CallRecords /\ call[c].kind = "continue" /\ Key(c) \in Keys
      /\ call[c].selection \in Seq(Picks) /\ Len(call[c].selection) = 1
  BY <1>1, ContinueFacts
<1>3. CASE End(c)
  BY <1>3, EndStep
<1>4. CASE /\ again /\ row' = prior.result.head /\ Leave(c)
           /\ UNCHANGED <<task, rounds, engine, commands, journal, worktree>>
  <2>1. /\ pc' \in [Calls -> Labels] /\ call' \in [Calls -> CallRecords]
        /\ lock' \in Calls \cup {Null} /\ pc'[c] = "idle" /\ Others(c)
        /\ up' = up /\ crashes' = crashes /\ drift' = drift
        /\ CallInv(c)' /\ ~Integrating(c)'
    BY <1>2, <1>4, Leaving, IdleCall DEF Integrating
  <2>2. prior \in Rows /\ prior.result # Null /\ prior.expected = intent
    BY <1>2, <1>4 DEF TypeInv, Replays
  <2>3. prior.result \in Results /\ prior.result.head \in Commits
    BY <2>2 DEF Rows, Results
  <2>4. UNCHANGED <<head, picking, dirty>>
    BY <1>4 DEF worktree
  <2>5. TypeInv'
    BY <1>2, <1>4, <2>1, <2>3, <2>4 DEF TypeInv
  <2>6. LeadRecordFollowsHead'
    <3>1. prior # Null /\ prior.expected.op = "continue"
      BY <1>4, <2>2
    <3> QED BY <1>2, <1>4, <3>1 DEF LeadRecordFollowsHead
  <2> QED BY <1>1, <1>4, <2>1, <2>5, <2>6, ContinueOn
<1>5. CASE /\ IsNew(prior)
           /\ journal' = [journal EXCEPT ![Key(c)] = Executing(ContinueIntent(c))]
           /\ call' = [call EXCEPT ![c].before = head] /\ Goto(c, "continue")
           /\ UNCHANGED <<task, rounds, engine, commands, row, worktree, up, lock, bounds>>
  <2> DEFINE new == Executing(ContinueIntent(c))
             next == [call[c] EXCEPT !.before = head]
  <2>1. head \in Commits /\ "continue" \in Labels
    BY <1>2 DEF TypeInv, Labels, ContinueLabels, ContinueRowLabels
  <2>2. /\ next \in CallRecords /\ next.kind = call[c].kind /\ next.key = call[c].key
        /\ next.selection = call[c].selection
    BY <1>2, <2>1, CallWritten
  <2>3. /\ new \in Rows /\ new.status = "executing" /\ new.expected.op = "continue"
        /\ new.expected.selection = call[c].selection
    BY <1>2, <2>1 DEF Executing, ContinueIntent, Rows
  <2>4. call' = [call EXCEPT ![c] = next]
    BY <1>5
  <2>5. UNCHANGED <<head, picking, dirty, up, lock, crashes, drift>>
    BY <1>5 DEF worktree, bounds
  <2> HIDE DEF new, next
  <2>6. /\ pc' \in [Calls -> Labels] /\ call' \in [Calls -> CallRecords]
        /\ pc'[c] = "continue" /\ call'[c] = next /\ Others(c)
    BY <1>2, <1>5, <2>1, <2>2, <2>4, Beginning
  <2>7. /\ journal' \in [Keys -> Rows \cup {Null}] /\ journal'[Key(c)] = new /\ new # Null
        /\ \A k \in Keys \ {Key(c)} : journal'[k] = journal[k]
    BY <1>2, <1>5, <2>3, NullIsApart DEF TypeInv, new
  <2>8. TypeInv'
    BY <1>2, <1>5, <2>5, <2>6, <2>7 DEF TypeInv
  <2>9. Key(c)' = Key(c) /\ ~Integrating(c)'
    BY <1>2, <2>2, <2>6 DEF Key, Integrating
  <2>10. CallInv(c)'
    <3>1. Runs(c, "continue")'
      BY <2>2, <2>3, <2>6, <2>7, <2>9 DEF Runs
    <3> QED BY <1>2, <2>2, <2>5, <2>6, <2>9, <3>1
            DEF CallInv, RoundLabels, IntegrateLabels, ContinueLabels, PickLabels,
                ContinueRowLabels, Kinds, Key
  <2>11. LeadRecordFollowsHead'
    BY <1>2, <2>3, <2>7 DEF LeadRecordFollowsHead
  <2>12. prior = Null /\ new.expected.op = "continue"
    BY <1>5, <2>3 DEF IsNew
  <2> QED BY <1>1, <1>5, <2>5, <2>6, <2>7, <2>8, <2>9, <2>10, <2>11, <2>12, ContinueOn
<1> QED BY <1>3, <1>4, <1>5 DEF Resume

LEMMA ContinueStep == ASSUME IInv, NEW c \in Calls, Continue(c) PROVE IInv'
<1>1. pc[c] = "continue" /\ pc[c] \in ContinueLabels /\ pc[c] \in ContinueRowLabels
  BY DEF Continue, At, ContinueLabels, ContinueRowLabels
<1>2. /\ TypeInv /\ CallInv(c) /\ up /\ lock = c /\ ~Integrating(c) /\ Runs(c, "continue")
      /\ call[c].kind = "continue" /\ Key(c) \in Keys /\ Len(call[c].selection) = 1
  BY <1>1, ContinueFacts
<1>3. PICK label \in {"continued", "continueFailed"} :
        /\ GitContinue \/ (label = "continueFailed" /\ UNCHANGED worktree)
        /\ Goto(c, label)
  BY DEF Continue
<1>4. /\ UNCHANGED <<task, rounds, engine, commands, journal, row, up, lock, crashes, drift>>
      /\ call' = call
  BY DEF Continue, database, bounds
<1>5. /\ pc' \in [Calls -> Labels] /\ pc'[c] = label /\ Others(c)
  <2>1. label \in Labels
    BY DEF Labels, ContinueLabels, ContinueRowLabels
  <2> QED BY <1>2, <1>3, <1>4, <2>1, Going DEF Others
<1>6. /\ head' \in Commits /\ head' # <<>> /\ picking' \in Picks \cup {Null} /\ dirty' \in BOOLEAN
  <2>1. /\ head \in Commits /\ head # <<>> /\ picking \in Picks \cup {Null} /\ dirty \in BOOLEAN
    BY <1>2 DEF TypeInv
  <2>2. CASE GitContinue
    <3>1. picking \in Picks \cup {"own", "user"}
      BY <2>1, <2>2 DEF GitContinue
    <3>2. Append(head, picking) \in Commits /\ Append(head, picking) # <<>>
      BY <2>1, <3>1, AppendCommit
    <3> QED BY <2>2, <3>2 DEF GitContinue
  <2>3. CASE UNCHANGED worktree
    BY <2>1, <2>3 DEF worktree
  <2> QED BY <1>3, <2>2, <2>3
<1>7. TypeInv'
  BY <1>2, <1>4, <1>5, <1>6 DEF TypeInv
<1>8. ~Integrating(c)' /\ Key(c)' = Key(c)
  BY <1>2, <1>4 DEF Integrating, Key
<1>9. CallInv(c)'
  <2>1. Runs(c, "continue")'
    BY <1>2, <1>4, <1>8 DEF Runs
  <2> QED BY <1>2, <1>4, <1>5, <1>8, <2>1
          DEF CallInv, RoundLabels, IntegrateLabels, ContinueLabels, PickLabels,
              ContinueRowLabels, Kinds, Key
<1>10. LeadRecordFollowsHead'
  BY <1>2, <1>4 DEF LeadRecordFollowsHead, Runs
<1> QED BY <1>1, <1>4, <1>5, <1>7, <1>8, <1>9, <1>10, ContinueOn

LEMMA ReadContinuedStep == ASSUME IInv, NEW c \in Calls, ReadContinued(c) PROVE IInv'
<1>1. pc[c] = "continued" /\ pc[c] \in ContinueLabels /\ pc[c] \in ContinueRowLabels
  BY DEF ReadContinued, At, ContinueLabels, ContinueRowLabels
<1>2. /\ TypeInv /\ CallInv(c) /\ up /\ lock = c /\ ~Integrating(c) /\ Runs(c, "continue")
      /\ call[c] \in CallRecords
      /\ call[c].kind = "continue" /\ Key(c) \in Keys /\ Len(call[c].selection) = 1
  BY <1>1, ContinueFacts
<1>3. PICK result \in Results \cup {Null} :
        result = Integrated(head) /\ result.head = head /\ result # Null
  <2>1. PICK commit \in Commits : commit = head
    BY <1>2 DEF TypeInv
  <2>2. Integrated(commit) \in Results /\ Integrated(commit).head = commit
    BY ResultsAreTyped
  <2> QED BY <2>1, <2>2, NullIsApart
<1> DEFINE next == [call[c] EXCEPT !.result = result]
<1>4. /\ next \in CallRecords /\ next.kind = call[c].kind /\ next.key = call[c].key
      /\ next.selection = call[c].selection /\ next.result = result
  BY <1>2, CallWritten
<1>5. /\ call' = [call EXCEPT ![c] = next] /\ Goto(c, "check") /\ "check" \in Labels
      /\ UNCHANGED <<task, rounds, engine, commands, journal, row, head, picking, dirty,
                     up, lock, crashes, drift>>
  BY <1>3 DEF ReadContinued, database, worktree, bounds, Labels, ContinueLabels, ContinueRowLabels
<1> HIDE DEF next
<1>6. /\ pc' \in [Calls -> Labels] /\ call' \in [Calls -> CallRecords]
      /\ pc'[c] = "check" /\ call'[c] = next /\ Others(c)
  BY <1>2, <1>4, <1>5, Beginning
<1>7. TypeInv'
  BY <1>2, <1>5, <1>6 DEF TypeInv
<1>8. ~Integrating(c)' /\ Key(c)' = Key(c)
  BY <1>2, <1>4, <1>6 DEF Integrating, Key
<1>9. CallInv(c)'
  <2>1. Runs(c, "continue")'
    BY <1>2, <1>4, <1>5, <1>6, <1>8 DEF Runs
  <2>2. next.result # Null /\ next.result.head = head'
    BY <1>3, <1>4, <1>5, NullIsApart
  <2> QED BY <1>2, <1>4, <1>5, <1>6, <1>8, <2>1, <2>2
          DEF CallInv, RoundLabels, IntegrateLabels, ContinueLabels, PickLabels,
              ContinueRowLabels, Kinds, Key
<1>10. LeadRecordFollowsHead'
  BY <1>2, <1>5, RecordStays
<1> QED BY <1>1, <1>5, <1>6, <1>7, <1>8, <1>9, <1>10, ContinueOn

\* What the journal says of a continuation that has ended.
LEMMA SettledByContinue ==
  ASSUME IInv, NEW c \in Calls, ContinueSettled(c)
  PROVE  /\ pc[c] \in ContinueLabels /\ TypeInv /\ CallInv(c) /\ lock = c /\ ~Integrating(c)
         /\ Key(c) \in Keys /\ journal[Key(c)] # Null
         /\ journal[Key(c)].status = "executing" /\ journal[Key(c)].expected.op = "continue"
         /\ journal' \in [Keys -> Rows \cup {Null}]
         /\ \A k \in Keys \ {Key(c)} : journal'[k] = journal[k]
         /\ journal'[Key(c)] # Null /\ journal'[Key(c)].expected.op = "continue"
         /\ Continued(c) => /\ call[c].result \in Results
                            /\ journal'[Key(c)].result = call[c].result
         /\ ~Continued(c) => journal'[Key(c)].status # "completed"
<1>1. pc[c] \in ContinueLabels /\ pc[c] \in ContinueRowLabels
  BY DEF ContinueSettled, At, ContinueLabels, ContinueRowLabels
<1>2. /\ TypeInv /\ CallInv(c) /\ lock = c /\ ~Integrating(c) /\ Runs(c, "continue")
      /\ Key(c) \in Keys /\ journal[Key(c)] \in Rows /\ call[c] \in CallRecords
  BY <1>1, ContinueFacts
<1>3. Continued(c) => call[c].result \in Results
  BY <1>2 DEF Continued, At, CallInv, CallRecords
<1> DEFINE entry == journal[Key(c)]
           outcome == IF Continued(c) THEN "applied" ELSE "uncertain"
           result == IF Continued(c) THEN call[c].result ELSE Null
           new == Settled(entry, outcome, result)
<1>4. entry \in Rows /\ outcome \in Outcomes /\ result \in Results \cup {Null}
  BY <1>2, <1>3 DEF Outcomes
<1>5. journal' = [journal EXCEPT ![Key(c)] = new]
  BY DEF ContinueSettled
<1>6. entry # Null /\ entry.status = "executing" /\ entry.expected.op = "continue"
  BY <1>2 DEF Runs
<1> HIDE DEF entry, outcome, result
<1>7. /\ new \in Rows /\ new.expected = entry.expected /\ new.result = result
      /\ new.status = IF outcome = "applied" THEN "completed" ELSE "needs_attention"
  BY <1>4, SettledRow
<1> HIDE DEF new
<1>8. /\ journal' \in [Keys -> Rows \cup {Null}] /\ journal'[Key(c)] = new /\ new # Null
      /\ \A k \in Keys \ {Key(c)} : journal'[k] = journal[k]
  BY <1>2, <1>5, <1>7, NullIsApart DEF TypeInv
<1> QED BY <1>1, <1>2, <1>3, <1>6, <1>7, <1>8 DEF entry, outcome, result

LEMMA ContinueFinishStep == ASSUME IInv, NEW c \in Calls, ContinueFinish(c) PROVE IInv'
<1>1. /\ ContinueSettled(c) /\ Leave(c)
      /\ UNCHANGED <<task, rounds, engine, commands, head, picking, dirty>>
      /\ row' = IF Continued(c) THEN call[c].result.head ELSE row
  BY DEF ContinueFinish, worktree
<1>2. /\ pc[c] \in ContinueLabels /\ TypeInv /\ CallInv(c) /\ lock = c /\ ~Integrating(c)
      /\ Key(c) \in Keys /\ journal[Key(c)] # Null
      /\ journal[Key(c)].status = "executing" /\ journal[Key(c)].expected.op = "continue"
      /\ journal' \in [Keys -> Rows \cup {Null}]
      /\ \A k \in Keys \ {Key(c)} : journal'[k] = journal[k]
      /\ journal'[Key(c)] # Null /\ journal'[Key(c)].expected.op = "continue"
      /\ Continued(c) => /\ call[c].result \in Results
                         /\ journal'[Key(c)].result = call[c].result
      /\ ~Continued(c) => journal'[Key(c)].status # "completed"
  BY <1>1, SettledByContinue
<1>3. /\ pc' \in [Calls -> Labels] /\ call' \in [Calls -> CallRecords]
      /\ lock' \in Calls \cup {Null} /\ pc'[c] = "idle" /\ Others(c)
      /\ up' = up /\ crashes' = crashes /\ drift' = drift
      /\ CallInv(c)' /\ ~Integrating(c)'
  BY <1>1, <1>2, Leaving, IdleCall DEF Integrating
<1>4. row' \in Commits
  BY <1>1, <1>2 DEF TypeInv, Results
<1>5. TypeInv'
  BY <1>1, <1>2, <1>3, <1>4 DEF TypeInv
<1>6. LeadRecordFollowsHead'
  BY <1>1, <1>2 DEF LeadRecordFollowsHead
<1> QED BY <1>1, <1>2, <1>3, <1>5, <1>6, ContinueOn

LEMMA CrashWhileContinuingStep ==
  ASSUME IInv, NEW c \in Calls, ContinueSettled(c), Continued(c), Die,
         row' \in {row, RecordedHead(c)}, UNCHANGED <<task, rounds, engine, commands, worktree>>
  PROVE  IInv'
<1>1. /\ TypeInv /\ CallInv(c) /\ Key(c) \in Keys
      /\ journal' \in [Keys -> Rows \cup {Null}]
      /\ \A k \in Keys \ {Key(c)} : journal'[k] = journal[k]
      /\ journal[Key(c)] # Null /\ journal[Key(c)].status = "executing"
      /\ journal[Key(c)].expected.op = "continue"
      /\ journal'[Key(c)] # Null /\ journal'[Key(c)].expected.op = "continue"
      /\ call[c].result \in Results /\ journal'[Key(c)].result = call[c].result
  BY SettledByContinue
<1>2. head' = head /\ picking' = picking /\ dirty' = dirty
      /\ row' \in {row, call[c].result.head}
  BY DEF worktree, RecordedHead
<1>3. /\ head' \in Commits /\ head' # <<>> /\ picking' \in Picks \cup {Null} /\ dirty' \in BOOLEAN
      /\ row' \in Commits
  BY <1>1, <1>2 DEF TypeInv, Results
<1>4. \A k : k = Key(c) => CommandInv(k)'
  BY <1>1 DEF IInv, CommandInv
<1>5. LeadRecordFollowsHead'
  <2>1. crashes' > 0 /\ drift' = drift
    BY <1>1 DEF Die, TypeInv
  <2>2. drift = 0 => call[c].result.head = head
    BY <1>1 DEF CallInv, Continued, At
  <2> QED BY <1>1, <1>2, <2>1, <2>2 DEF LeadRecordFollowsHead
<1> QED BY <1>1, <1>3, <1>4, <1>5, DieStep

LEMMA CrashWhileFinishingStep ==
  ASSUME IInv, NEW c \in Calls, CrashWhileFinishing(c) PROVE IInv'
<1>1. Die /\ row' \in {row, RecordedHead(c)} /\ UNCHANGED <<task, rounds, engine, commands, worktree>>
  BY DEF CrashWhileFinishing
<1>2. CASE At(c, "observe") /\ Outcome(c) = "applied" /\ JournalSettled(c)
  BY <1>1, <1>2, CrashWhileIntegratingStep
<1>3. CASE ContinueSettled(c) /\ Continued(c)
  BY <1>1, <1>3, CrashWhileContinuingStep
<1> QED BY <1>2, <1>3 DEF CrashWhileFinishing

-----------------------------------------------------------------------------
(* Beside the calls                                                        *)

LEMMA BesideStep ==
  ASSUME IInv, TypeInv', UNCHANGED <<commands, journal, lock, pc, call>>, up => up',
         lock = Null \/ head' = head \/ (head' = Append(head, "user") /\ drift' # 0),
         drift' = 0 => drift = 0,
         ReservedTaskStaysOpen', LeadRecordFollowsHead'
  PROVE  IInv'
<1>1. ASSUME NEW d \in Calls PROVE CallInv(d)'
  <2>1. TypeInv /\ CallInv(d) /\ d # Null
    BY NullIsApart DEF IInv
  <2>2. pc[d] # "idle" => up'
    BY <2>1 DEF CallInv
  <2>3. Integrating(d) => \A e \in Calls : Integrating(e)' /\ call'[e].key = Key(d) =>
                              Integrating(e) /\ Key(e) = Key(d)
    BY DEF Integrating, Key
  <2> QED BY <2>1, <2>2, <2>3, CallKeeps
<1>2. \A k \in Keys : CommandInv(k)'
  BY DEF IInv, CommandInv
<1> QED BY <1>1, <1>2 DEF IInv

\* A transition another component makes, while nothing is reserved.
LEMMA TaskStep ==
  ASSUME IInv, ~HasPendingIntegration(commands) \/ task' = task,
         task' \in Tasks, task'.collaborationRoundsUsed = task.collaborationRoundsUsed,
         UNCHANGED <<rounds, engine, commands, journal, row, head, picking, dirty,
                     lock, pc, call, crashes, drift>>,
         up' \in BOOLEAN, up => up'
  PROVE  IInv'
<1>1. TypeInv'
  BY DEF IInv, TypeInv
<1>2. ReservedTaskStaysOpen'
  <2>1. CASE task' = task
    BY <2>1, ReservedStays DEF Reserved
  <2>2. CASE ~HasPendingIntegration(commands)
    BY <2>2 DEF ReservedTaskStaysOpen, Reserved, HasPendingIntegration
  <2> QED BY <2>1, <2>2
<1>3. LeadRecordFollowsHead'
  BY RecordStays
<1> QED BY <1>1, <1>2, <1>3, BesideStep

LEMMA EngineMovesStep ==
  ASSUME IInv, NEW action, EngineMoves(action),
         Legal(task, action) =>
           /\ After(task, action) \in Tasks
           /\ After(task, action).collaborationRoundsUsed = task.collaborationRoundsUsed
  PROVE  IInv'
<1>1. /\ up /\ ~HasPendingIntegration(commands) /\ Legal(task, action)
      /\ task' = After(task, action)
      /\ UNCHANGED <<rounds, engine, commands, journal, row, head, picking, dirty,
                     up, lock, pc, call, crashes, drift>>
  BY DEF EngineMoves, ApplyTransition, worktree, worker, bounds
<1> QED BY <1>1, TaskStep

LEMMA CancelStep == ASSUME IInv, Cancel PROVE IInv'
<1>1. task \in Tasks
  BY DEF IInv, TypeInv
<1> QED BY <1>1, Cancelling, EngineMovesStep DEF Cancel

LEMMA PreviewStep == ASSUME IInv, Preview PROVE IInv'
<1>1. task \in Tasks
  BY DEF IInv, TypeInv
<1> QED BY <1>1, Reconciles, EngineMovesStep DEF Preview

LEMMA ResumePhaseStep == ASSUME IInv, ResumePhase PROVE IInv'
<1> DEFINE action == [type |-> "resumeRecordedPhase", target |-> task.interruptedFromState]
<1>1. /\ up /\ ~HasPendingIntegration(commands) /\ Legal(task, action)
      /\ task' = After(task, action) /\ task \in Tasks
      /\ UNCHANGED <<rounds, engine, commands, journal, row, head, picking, dirty,
                     up, lock, pc, call, crashes, drift>>
  BY DEF ResumePhase, EngineMoves, ApplyTransition, worktree, worker, bounds, IInv, TypeInv
<1>2. task' \in Tasks /\ task'.collaborationRoundsUsed = task.collaborationRoundsUsed
  <2>1. PICK t \in Tasks : t = task
    BY <1>1
  <2>2. Legal(t, [type |-> "resumeRecordedPhase", target |-> t.interruptedFromState])
    BY <1>1, <2>1
  <2> QED BY <1>1, <2>1, <2>2, Resuming
<1> QED BY <1>1, <1>2, TaskStep DEF IInv, TypeInv

LEMMA StartUpStep == ASSUME IInv, StartUp PROVE IInv'
<1>1. /\ up' = TRUE /\ task \in Tasks
      /\ UNCHANGED <<rounds, engine, commands, journal, row, head, picking, dirty,
                     lock, pc, call, crashes, drift>>
  BY DEF StartUp, worktree, bounds, IInv, TypeInv
<1>2. CASE ApplyTransition([type |-> "processLoss"])
  <2>1. ~HasPendingIntegration(commands) /\ task' = After(task, [type |-> "processLoss"])
    BY <1>2 DEF ApplyTransition
  <2> QED BY <1>1, <2>1, Interrupting, TaskStep
<1>3. CASE UNCHANGED task
  BY <1>1, <1>3, TaskStep
<1> QED BY <1>2, <1>3 DEF StartUp

LEMMA LeadCheckpointStep == ASSUME IInv, LeadCheckpoint PROVE IInv'
<1>1. /\ lock = Null /\ head' = Append(head, "own") /\ row' = head'
      /\ picking' = Null /\ dirty' = FALSE
      /\ UNCHANGED <<task, rounds, engine, commands, journal, up, lock, pc, call, crashes, drift>>
  BY DEF LeadCheckpoint, worker, bounds
<1>2. TypeInv
  BY DEF IInv
<1>3. head' \in Commits /\ head' # <<>>
  BY <1>1, <1>2, AppendCommit DEF TypeInv
<1>4. TypeInv'
  BY <1>1, <1>2, <1>3 DEF TypeInv
<1>5. ReservedTaskStaysOpen'
  BY <1>1, ReservedStays DEF Reserved
<1>6. LeadRecordFollowsHead'
  BY <1>1 DEF LeadRecordFollowsHead
<1> QED BY <1>1, <1>4, <1>5, <1>6, BesideStep

LEMMA BuildCandidateStep == ASSUME IInv, BuildCandidate PROVE IInv'
<1>1. /\ up /\ ~HasPendingIntegration(commands) /\ Legal(task, CandidateReady)
      /\ task' = After(After(task, CandidateReady), [type |-> "requestHumanApproval"])
      /\ task \in Tasks
      /\ UNCHANGED <<rounds, engine, commands, journal, row, head, picking, dirty,
                     up, lock, pc, call, crashes, drift>>
  BY DEF BuildCandidate, worktree, worker, bounds, IInv, TypeInv
<1>2. task' \in Tasks /\ task'.collaborationRoundsUsed = task.collaborationRoundsUsed
  BY <1>1, BuildingCandidate
<1> QED BY <1>1, <1>2, TaskStep DEF IInv, TypeInv

LEMMA UserGitStep == ASSUME IInv, UserGit PROVE IInv'
<1>1. /\ drift' = drift + 1
      /\ head' \in {head, Append(head, "user")}
      /\ picking' \in {picking, Null} /\ dirty' \in {dirty, TRUE, FALSE}
      /\ UNCHANGED <<task, rounds, engine, commands, journal, row, up, lock, pc, call, crashes>>
  BY DEF UserGit, database, worker
<1>2. TypeInv
  BY DEF IInv
<1>3. head' \in Commits /\ head' # <<>>
  <2>1. Append(head, "user") \in Commits /\ Append(head, "user") # <<>>
    BY <1>2, AppendCommit DEF TypeInv
  <2> QED BY <1>1, <1>2, <2>1 DEF TypeInv
<1>4. drift \in Nat /\ drift' \in Nat /\ drift' # 0
  BY <1>1, <1>2 DEF TypeInv
<1>5. picking' \in Picks \cup {Null} /\ dirty' \in BOOLEAN
  BY <1>1, <1>2 DEF TypeInv
<1>6. TypeInv'
  BY <1>1, <1>2, <1>3, <1>4, <1>5 DEF TypeInv
<1>7. ReservedTaskStaysOpen'
  BY <1>1, ReservedStays DEF Reserved
<1>8. LeadRecordFollowsHead'
  BY <1>4 DEF LeadRecordFollowsHead
<1> QED BY <1>1, <1>4, <1>6, <1>7, <1>8, BesideStep

\* Git ends what the worker that died was doing: its row is still open.
LEMMA CrashStep == ASSUME IInv, Crash PROVE IInv'
<1>1. TypeInv /\ Die /\ UNCHANGED <<task, rounds, engine, commands, journal, row>>
  BY DEF IInv, Crash, database
<1>2. /\ head \in Commits /\ head # <<>> /\ picking \in Picks \cup {Null} /\ dirty \in BOOLEAN
      /\ journal' \in [Keys -> Rows \cup {Null}] /\ row' \in Commits
  BY <1>1 DEF TypeInv
<1>3. crashes > 0 => crashes' > 0
  BY <1>1 DEF Die, TypeInv
<1>4. drift' = drift
  BY <1>1 DEF Die
<1>5. CASE UNCHANGED worktree
  <2>1. head' = head /\ picking' = picking /\ dirty' = dirty
    BY <1>5 DEF worktree
  <2>2. LeadRecordFollowsHead'
    BY <1>1, <1>3, <1>4, <2>1, RecordStays
  <2> QED BY <1>1, <1>2, <2>1, <2>2, DieStep
<1>6. ASSUME NEW c \in Calls, At(c, "cherryPick"), GitPick(c, "stopped") PROVE IInv'
  <2>1. pc[c] \in PickLabels
    BY <1>6 DEF At, PickLabels
  <2>2. /\ Runs(c, "integrate") /\ Key(c) \in Keys /\ Picked(c) \in Picks
    <3>1. /\ Runs(c, "integrate") /\ Key(c) \in Keys /\ Progressed(c) /\ pc[c] = "cherryPick"
          /\ call[c].selection \in Seq(Picks)
      BY <1>6, <2>1, PickFacts DEF At
    <3>2. call[c].at \in 1 .. Len(call[c].selection)
      BY <3>1 DEF Progressed
    <3> QED BY <3>1, <3>2, ElementOfSeq DEF Picked
  <2>3. Append(head, Picked(c)) \in Commits /\ Append(head, Picked(c)) # <<>>
    <3>1. Picked(c) \in Picks \cup {"own", "user"}
      BY <2>2
    <3> QED BY <1>2, <3>1, AppendCommit
  <2>4. head' \in Commits /\ head' # <<>> /\ picking' \in Picks \cup {Null} /\ dirty' \in BOOLEAN
    BY <1>2, <1>6, <2>2, <2>3 DEF GitPick
  <2>5. LeadRecordFollowsHead'
    BY <1>1, <2>2 DEF LeadRecordFollowsHead, Runs
  <2> QED BY <1>1, <1>2, <2>4, <2>5, DieStep
<1>7. ASSUME NEW c \in Calls, At(c, "continue"), GitContinue PROVE IInv'
  <2>1. pc[c] \in ContinueLabels /\ pc[c] \in ContinueRowLabels
    BY <1>7 DEF At, ContinueLabels, ContinueRowLabels
  <2>2. Runs(c, "continue") /\ Key(c) \in Keys
    BY <2>1, ContinueFacts
  <2>3. picking \in Picks \cup {"own", "user"}
    BY <1>2, <1>7 DEF GitContinue
  <2>4. Append(head, picking) \in Commits /\ Append(head, picking) # <<>>
    BY <1>2, <2>3, AppendCommit
  <2>5. head' \in Commits /\ head' # <<>> /\ picking' \in Picks \cup {Null} /\ dirty' \in BOOLEAN
    BY <1>7, <2>4 DEF GitContinue
  <2>6. LeadRecordFollowsHead'
    BY <1>1, <2>2 DEF LeadRecordFollowsHead, Runs
  <2> QED BY <1>1, <1>2, <2>5, <2>6, DieStep
<1> QED BY <1>5, <1>6, <1>7 DEF Crash

-----------------------------------------------------------------------------
(* The invariant holds                                                     *)

LEMMA InitIInv == Init => IInv
<1> SUFFICES ASSUME Init PROVE IInv
  OBVIOUS
<1>1. head \in Commits /\ head # <<>> /\ row = head
  <2>1. <<>> \in Commits /\ <<"own">> = Append(<<>>, "own")
    BY EmptySeq DEF Commits
  <2>2. Append(<<>>, "own") \in Commits /\ Append(<<>>, "own") # <<>>
    BY <2>1, AppendCommit
  <2> QED BY <2>1, <2>2 DEF Init
<1>2. task \in Tasks /\ task.collaborationRoundsUsed = 0
  BY NullIsApart DEF Init, Tasks, TaskStates, NonTerminalStates
<1>3. rounds \in Seq(Rounds) /\ Len(rounds) = 0
  BY EmptySeq DEF Init
<1>4. TypeInv
  <2>1. pc \in [Calls -> Labels] /\ call \in [Calls -> CallRecords]
    BY NoCallIsTyped DEF Init, Labels
  <2>2. /\ commands \in [Keys -> Commands \cup {Null}] /\ journal \in [Keys -> Rows \cup {Null}]
        /\ engine \subseteq Keys /\ crashes \in Nat /\ drift \in Nat
    BY DEF Init
  <2>3. /\ picking \in Picks \cup {Null} /\ dirty \in BOOLEAN /\ up \in BOOLEAN
        /\ lock \in Calls \cup {Null}
    BY DEF Init
  <2>4. Len(rounds) <= Budget /\ row \in Commits
    BY <1>1, <1>3, NullIsApart
  <2> QED BY <1>1, <1>2, <1>3, <2>1, <2>2, <2>3, <2>4 DEF TypeInv
<1>5. \A k \in Keys : CommandInv(k)
  BY DEF Init, CommandInv
<1>6. \A c \in Calls : CallInv(c)
  BY DEF Init, CallInv, Integrating, IntegrateLabels, ContinueLabels, RoundLabels, PickLabels,
         ContinueRowLabels
<1>7. ReservedTaskStaysOpen /\ LeadRecordFollowsHead
  BY <1>1 DEF Init, ReservedTaskStaysOpen, Reserved, LeadRecordFollowsHead
<1> QED BY <1>4, <1>5, <1>6, <1>7 DEF IInv

LEMMA StutterStep == ASSUME IInv, UNCHANGED vars PROVE IInv'
<1>1. /\ UNCHANGED <<task, rounds, engine, commands, journal, row, head, picking, dirty>>
      /\ UNCHANGED <<up, lock, pc, call, crashes, drift>>
  BY DEF vars, database, worktree, worker, bounds
<1> QED BY <1>1, TaskStep DEF IInv, TypeInv

LEMMA ProgressStep == ASSUME IInv, NEW c \in Calls, Progress(c) PROVE IInv'
<1>1. CASE EnsureCollaborator(c) BY <1>1, EnsureCollaboratorStep
<1>2. CASE BeginRound(c) BY <1>2, BeginRoundStep
<1>3. CASE EnterLock(c) BY <1>3, EnterLockStep
<1>4. CASE CheckStatus(c) BY <1>4, CheckStatusStep
<1>5. CASE Intend(c) BY <1>5, IntendStep
<1>6. CASE NextPick(c) BY <1>6, NextPickStep
<1>7. CASE CherryPick(c) BY <1>7, CherryPickStep
<1>8. CASE Stopped(c) BY <1>8, StoppedStep
<1>9. CASE CheckPick(c) BY <1>9, CheckPickStep
<1>10. CASE Finish(c) BY <1>10, FinishStep
<1>11. CASE Resume(c) BY <1>11, ResumeStep
<1>12. CASE Continue(c) BY <1>12, ContinueStep
<1>13. CASE ReadContinued(c) BY <1>13, ReadContinuedStep
<1>14. CASE ContinueFinish(c) BY <1>14, ContinueFinishStep
<1> QED BY <1>1, <1>2, <1>3, <1>4, <1>5, <1>6, <1>7, <1>8, <1>9, <1>10, <1>11, <1>12, <1>13, <1>14
        DEF Progress

LEMMA StepIInv == IInv /\ [Next]_vars => IInv'
<1> SUFFICES ASSUME IInv, [Next]_vars PROVE IInv'
  OBVIOUS
<1>1. ASSUME NEW c \in Calls, StartRound(c) PROVE IInv'
  BY <1>1, StartRoundStep
<1>2. ASSUME NEW c \in Calls, StartIntegrate(c) PROVE IInv'
  BY <1>2, StartIntegrateStep
<1>3. ASSUME NEW c \in Calls, StartContinue(c) PROVE IInv'
  BY <1>3, StartContinueStep
<1>4. ASSUME NEW c \in Calls, Progress(c) PROVE IInv'
  BY <1>4, ProgressStep
<1>5. ASSUME NEW c \in Calls, CrashWhileFinishing(c) PROVE IInv'
  BY <1>5, CrashWhileFinishingStep
<1>6. CASE CompleteReview BY <1>6, CompleteReviewStep
<1>7. CASE LeadCheckpoint BY <1>7, LeadCheckpointStep
<1>8. CASE Cancel BY <1>8, CancelStep
<1>9. CASE UserGit BY <1>9, UserGitStep
<1>10. CASE Crash BY <1>10, CrashStep
<1>11. CASE StartUp BY <1>11, StartUpStep
<1>12. CASE Preview BY <1>12, PreviewStep
<1>13. CASE ResumePhase BY <1>13, ResumePhaseStep
<1>14. CASE BuildCandidate BY <1>14, BuildCandidateStep
<1>15. CASE UNCHANGED vars BY <1>15, StutterStep
<1> QED BY <1>1, <1>2, <1>3, <1>4, <1>5, <1>6, <1>7, <1>8, <1>9, <1>10, <1>11, <1>12, <1>13,
           <1>14, <1>15 DEF Next

\* IInv is inductive: it holds in every state of every behaviour.
THEOREM Inductive == Spec => []IInv
BY InitIInv, StepIInv, PTL DEF Spec

-----------------------------------------------------------------------------
(* The properties                                                          *)

\* The variables have their types; a closed integration has a result exactly
\* if it was completed.
THEOREM TypeCorrect == Spec => []TypeOK
<1>1. IInv => TypeOK
  <2> SUFFICES ASSUME IInv PROVE TypeOK
    OBVIOUS
  <2>1. /\ task \in Tasks /\ Len(rounds) = task.collaborationRoundsUsed /\ Len(rounds) <= Budget
        /\ engine \subseteq Keys /\ head \in Commits /\ row \in Commits
        /\ picking \in Picks \cup {Null} /\ lock \in Calls \cup {Null}
        /\ dirty \in BOOLEAN /\ up \in BOOLEAN
    BY DEF IInv, TypeInv
  <2>2. ASSUME NEW k \in Keys, commands[k] # Null
        PROVE  /\ commands[k].selection \in Selections
               /\ commands[k].type = "integrate" =>
                    (commands[k].status = "completed" <=> commands[k].result # Null)
    <3>1. CommandInv(k)
      BY DEF IInv
    <3> QED BY <2>2, <3>1 DEF CommandInv
  <2>3. task.state \in TaskStates
    BY <2>1 DEF Tasks
  <2> QED BY <2>1, <2>2, <2>3 DEF TypeOK
<1> QED BY <1>1, Inductive, PTL

\* While an integration of it is pending, a task is in review or revision,
\* whatever cancel, recovery or a second call try.
THEOREM ReservedTaskStaysOpenHolds == Spec => []ReservedTaskStaysOpen
<1>1. IInv => ReservedTaskStaysOpen
  BY DEF IInv
<1> QED BY <1>1, Inductive, PTL

\* A command that is reported failed intended no integration.
THEOREM FailedLeftNothingHolds == Spec => []FailedLeftNothing
<1>1. IInv => FailedLeftNothing
  BY DEF IInv, CommandInv, FailedLeftNothing
<1> QED BY <1>1, Inductive, PTL

\* A completed integration is on top of the commit it began on, its selection in
\* the order declared up to the end or to the conflict, with nothing but commits
\* of the user between, and the journal proves it.
THEOREM IntegratedAsSelectedHolds == Spec => []IntegratedAsSelected
<1>1. IInv => IntegratedAsSelected
  BY DEF IInv, CommandInv, IntegratedAsSelected
<1> QED BY <1>1, Inductive, PTL

\* While the user keeps away, a record of the lead that is not at HEAD has a row
\* of the journal that explains it.
THEOREM LeadRecordFollowsHeadHolds == Spec => []LeadRecordFollowsHead
<1>1. IInv => LeadRecordFollowsHead
  BY DEF IInv
<1> QED BY <1>1, Inductive, PTL
=============================================================================
