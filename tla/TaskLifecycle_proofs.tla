------------------------ MODULE TaskLifecycle_proofs ------------------------
(***************************************************************************)
(* Proofs about TaskLifecycle for every number of transitions: that the    *)
(* review rounds stay within the budget, that nobody is asked to approve   *)
(* a candidate that does not exist, and that a recovery never moves a task *)
(* forward.                                                                *)
(***************************************************************************)
EXTENDS TaskLifecycle, TLAPS

USE MaxVersionAssumption

Phases == (NonTerminalStates \ {"Interrupted", "Reconciling"}) \cup {NoPhase}
Records == [ state : TaskStates, interruptedFromState : Phases,
             version : 0 .. MaxVersion, collaborationRoundBudget : Nat,
             collaborationRoundsUsed : Nat, humanRevisionCount : Nat,
             revisionKind : {"null", "agent_review", "human_directed"},
             activeCandidateId : {NoCandidate, "candidate"} ]

\* An interrupted task knows the phase it was interrupted in: without it a
\* recovery would fall back to the human's approval from anywhere.
PhaseIsKnown ==
  task.state \in {"Interrupted", "Reconciling"} => task.interruptedFromState # NoPhase

\* What a suspended task has recorded is where the work had come to.
PhaseIsReached == Phase = reached

IInv == TypeOK /\ PhaseIsKnown /\ RoundsWithinBudget /\ CandidateBeforeApproval

LEMMA TypeOKIsRecords == TypeOK <=> task \in Records
BY DEF TypeOK, Records, Phases

\* The state is all a move changes beside the version.
LEMMA MovedFields ==
  ASSUME NEW t \in Records, NEW s \in TaskStates, t.version < MaxVersion
  PROVE  /\ Moved(t, s) \in Records
         /\ Moved(t, s).state = s
         /\ Moved(t, s).interruptedFromState = t.interruptedFromState
         /\ Moved(t, s).collaborationRoundBudget = t.collaborationRoundBudget
         /\ Moved(t, s).collaborationRoundsUsed = t.collaborationRoundsUsed
         /\ Moved(t, s).activeCandidateId = t.activeCandidateId
<1>1. t.version + 1 \in 0 .. MaxVersion
  BY DEF Records
<1> QED BY <1>1 DEF Moved, Records

\* A counter of a record is one more.
LEMMA CountedIsTyped ==
  ASSUME NEW r \in Records
  PROVE  /\ [r EXCEPT !.humanRevisionCount = @ + 1, !.revisionKind = "human_directed"] \in Records
         /\ [r EXCEPT !.collaborationRoundsUsed = @ + 1, !.revisionKind = "null"] \in Records
<1>1. r.humanRevisionCount + 1 \in Nat /\ r.collaborationRoundsUsed + 1 \in Nat
  BY DEF Records
<1> QED BY <1>1 DEF Records

-----------------------------------------------------------------------------
(* The steps *)

\* States a task can move to without a further effect.
Reviewing == {"Review1", "Review2"}
ForApproval == {"Candidate", "HumanApproval", "Merging", "Completed"}

LEMMA MovePreserves ==
  ASSUME IInv, NEW s \in TaskStates \ (Reviewing \cup Suspended),
         task.version < MaxVersion, task' = Moved(task, s),
         s \in ForApproval => task.activeCandidateId # NoCandidate
  PROVE  IInv'
<1>1. task \in Records
  BY TypeOKIsRecords DEF IInv
<1>2. /\ task' \in Records /\ task'.state = s
      /\ task'.collaborationRoundBudget = task.collaborationRoundBudget
      /\ task'.collaborationRoundsUsed = task.collaborationRoundsUsed
      /\ task'.activeCandidateId = task.activeCandidateId
  BY <1>1, MovedFields
<1>3. TypeOK'
  BY <1>2 DEF TypeOK, Records, Phases
<1>4. Phase' = s
  BY <1>2 DEF Phase, Suspended
<1> QED BY <1>2, <1>3, <1>4
     DEF IInv, PhaseIsKnown, RoundsWithinBudget, CandidateBeforeApproval, Reviewing,
         Suspended, ForApproval

\* What a legal plain transition is.
Simple == PlainTypes \ {"fail", "cancel", "beginReview", "requestHumanRevision",
                        "requestAgentRevision"}

LEMMA PlainMove ==
  ASSUME NEW type \in Simple, Legal(task, [type |-> type])
  PROVE  \E m \in PlainMoves :
           m[1] = task.state /\ m[2] = type /\ After(task, [type |-> type]) = Moved(task, m[3])
<1> DEFINE x == CHOOSE m \in PlainMoves : m[1] = task.state /\ m[2] = type
<1>1. \E m \in PlainMoves : m[1] = task.state /\ m[2] = type
  BY DEF Legal, Simple, PlainTypes
<1>2. x \in PlainMoves /\ x[1] = task.state /\ x[2] = type
  BY <1>1
<1>3. After(task, [type |-> type]) = Moved(task, x[3])
  BY DEF After, Simple, PlainTypes
<1> QED BY <1>2, <1>3

LEMMA SimplePreserves ==
  ASSUME IInv, NEW type \in Simple, Fire([type |-> type]) PROVE IInv'
<1>1. PICK m \in PlainMoves :
        m[1] = task.state /\ m[2] = type /\ task' = Moved(task, m[3])
  BY PlainMove DEF Fire
<1>2. task.version < MaxVersion /\ task \in Records
  BY TypeOKIsRecords DEF Fire, IInv
<1>3. CASE type = "beginReconciliation"
  <2>1. task.state = "Interrupted" /\ m[3] = "Reconciling"
    BY <1>1, <1>3 DEF PlainMoves
  <2>2. /\ task' \in Records /\ task'.state = "Reconciling"
        /\ task'.interruptedFromState = task.interruptedFromState
        /\ task'.collaborationRoundBudget = task.collaborationRoundBudget
        /\ task'.collaborationRoundsUsed = task.collaborationRoundsUsed
        /\ task'.activeCandidateId = task.activeCandidateId
    BY <1>1, <1>2, <2>1, MovedFields DEF TaskStates, NonTerminalStates
  <2>3. TypeOK'
    BY <2>2 DEF TypeOK, Records, Phases
  <2>4. Phase' = Phase
    BY <2>1, <2>2 DEF Phase, Suspended
  <2> QED BY <2>1, <2>2, <2>3, <2>4
       DEF IInv, PhaseIsKnown, RoundsWithinBudget, CandidateBeforeApproval
<1>4. CASE type # "beginReconciliation"
  <2>1. m[3] \in TaskStates \ (Reviewing \cup Suspended)
    BY <1>1, <1>4 DEF PlainMoves, TaskStates, NonTerminalStates, TerminalStates, Reviewing,
         Suspended, Simple, PlainTypes
  <2>2. m[3] \in ForApproval => task.state \in ForApproval
    BY <1>1, <1>4 DEF PlainMoves, ForApproval, Simple, PlainTypes
  <2>3. task.state \in ForApproval => task.activeCandidateId # NoCandidate
    BY DEF IInv, CandidateBeforeApproval, Phase, Suspended, ForApproval
  <2> QED BY <1>1, <1>2, <2>1, <2>2, <2>3, MovePreserves
<1> QED BY <1>3, <1>4

LEMMA FailPreserves ==
  ASSUME IInv, Fire([type |-> "fail"]) PROVE IInv'
<1>1. task.version < MaxVersion /\ task' = Moved(task, "Failed")
  BY DEF Fire, After
<1> QED BY <1>1, MovePreserves
     DEF TaskStates, NonTerminalStates, TerminalStates, Reviewing, Suspended, ForApproval

LEMMA CancelPreserves ==
  ASSUME IInv, Fire([type |-> "cancel"]) PROVE IInv'
<1>1. task.version < MaxVersion /\ task' = Moved(task, CancelTarget(task))
  BY DEF Fire, After
<1>2. CancelTarget(task) \in {"CancelRequested", "Cancelled"}
  BY DEF CancelTarget
<1> QED BY <1>1, <1>2, MovePreserves
     DEF TaskStates, NonTerminalStates, TerminalStates, Reviewing, Suspended, ForApproval

LEMMA AgentRevisionPreserves ==
  ASSUME IInv, Fire([type |-> "requestAgentRevision"]) PROVE IInv'
<1>1. /\ task.version < MaxVersion /\ task \in Records
      /\ task' = [Moved(task, "Revision") EXCEPT !.revisionKind = "agent_review"]
  BY TypeOKIsRecords DEF Fire, After, IInv
<1>2. "Revision" \in TaskStates
  BY DEF TaskStates, NonTerminalStates
<1>3. /\ task' \in Records /\ task'.state = "Revision"
      /\ task'.collaborationRoundBudget = task.collaborationRoundBudget
      /\ task'.collaborationRoundsUsed = task.collaborationRoundsUsed
  BY <1>1, <1>2, MovedFields DEF Records
<1> QED BY <1>3 DEF IInv, TypeOK, Records, Phases, PhaseIsKnown, RoundsWithinBudget,
       CandidateBeforeApproval, Phase, Suspended

LEMMA HumanRevisionPreserves ==
  ASSUME IInv, Fire([type |-> "requestHumanRevision"]) PROVE IInv'
<1>1. /\ task.version < MaxVersion /\ task \in Records
      /\ task' = [Moved(task, "Revision") EXCEPT !.humanRevisionCount = @ + 1,
                                                 !.revisionKind = "human_directed"]
  BY TypeOKIsRecords DEF Fire, After, IInv
<1>2. "Revision" \in TaskStates
  BY DEF TaskStates, NonTerminalStates
<1> DEFINE r == Moved(task, "Revision")
<1>3. r \in Records /\ task' \in Records
  BY <1>1, <1>2, MovedFields, CountedIsTyped
<1>4. /\ r.state = "Revision"
      /\ r.collaborationRoundBudget = task.collaborationRoundBudget
      /\ r.collaborationRoundsUsed = task.collaborationRoundsUsed
  BY <1>1, <1>2, MovedFields
<1>5. /\ task'.state = r.state
      /\ task'.collaborationRoundBudget = r.collaborationRoundBudget
      /\ task'.collaborationRoundsUsed = r.collaborationRoundsUsed
  <2>1. task' = [r EXCEPT !.humanRevisionCount = @ + 1, !.revisionKind = "human_directed"]
    BY <1>1
  <2> HIDE DEF r
  <2> QED BY <1>3, <2>1 DEF Records
<1> QED BY <1>3, <1>4, <1>5 DEF IInv, TypeOK, Records, Phases, PhaseIsKnown,
       RoundsWithinBudget, CandidateBeforeApproval, Phase, Suspended

LEMMA ReviewPreserves ==
  ASSUME IInv, Fire([type |-> "beginReview"]) PROVE IInv'
<1> DEFINE s == ReviewPhase(task)
<1>1. /\ task.version < MaxVersion /\ task \in Records /\ BudgetLeft(task)
      /\ task' = [Moved(task, s) EXCEPT !.collaborationRoundsUsed = @ + 1,
                                        !.revisionKind = "null"]
  BY TypeOKIsRecords DEF Fire, After, IInv, Legal, PlainMoves
<1>2. s \in Reviewing /\ s \in TaskStates
  BY DEF ReviewPhase, Reviewing, TaskStates, NonTerminalStates
<1>3. task.collaborationRoundsUsed \in Nat /\ task.collaborationRoundBudget \in Nat
  BY <1>1 DEF Records
<1>4. /\ task' \in Records /\ task'.state = s
      /\ task'.collaborationRoundBudget = task.collaborationRoundBudget
      /\ task'.collaborationRoundsUsed = task.collaborationRoundsUsed + 1
  <2> DEFINE r == Moved(task, s)
  <2>1. /\ r \in Records /\ r.state = s
        /\ r.collaborationRoundBudget = task.collaborationRoundBudget
        /\ r.collaborationRoundsUsed = task.collaborationRoundsUsed
    BY <1>1, <1>2, MovedFields
  <2>2. task' = [r EXCEPT !.collaborationRoundsUsed = @ + 1, !.revisionKind = "null"]
    BY <1>1
  <2> HIDE DEF r, s
  <2>3. task' \in Records
    BY <2>1, <2>2, CountedIsTyped
  <2> QED BY <2>1, <2>2, <2>3 DEF Records
<1>5. s = "Review1" => task.collaborationRoundsUsed = 0
  BY <1>3 DEF ReviewPhase
<1>6. s = "Review2" => task.collaborationRoundsUsed > 0
  BY <1>3 DEF ReviewPhase
<1>7. Phase' = s
  BY <1>2, <1>4 DEF Phase, Suspended, Reviewing
<1>8. RoundsWithinBudget'
  BY <1>1, <1>3, <1>4, <1>5, <1>6, <1>7 DEF RoundsWithinBudget, BudgetLeft
<1> QED BY <1>2, <1>4, <1>7, <1>8 DEF IInv, TypeOK, Records, Phases, PhaseIsKnown,
       CandidateBeforeApproval, Reviewing

LEMMA PlainPreserves == ASSUME IInv, Plain PROVE IInv'
<1>1. PICK type \in PlainTypes : Fire([type |-> type])
  BY DEF Plain
<1>2. CASE type \in Simple
  BY <1>1, <1>2, SimplePreserves
<1>3. CASE type \notin Simple
  <2>1. type \in {"fail", "cancel", "beginReview", "requestHumanRevision",
                  "requestAgentRevision"}
    BY <1>3 DEF Simple
  <2> QED BY <1>1, <2>1, FailPreserves, CancelPreserves, ReviewPreserves,
         HumanRevisionPreserves, AgentRevisionPreserves
<1> QED BY <1>2, <1>3

LEMMA ApprovePreserves == ASSUME IInv, ApproveScope PROVE IInv'
<1> DEFINE a == [type |-> "approveScope", rounds |-> task.collaborationRoundBudget]
<1>1. /\ task.version < MaxVersion /\ task \in Records
      /\ task' = [Moved(task, "Preparing") EXCEPT
                    !.collaborationRoundBudget = task.collaborationRoundBudget]
  BY TypeOKIsRecords DEF ApproveScope, Fire, After, IInv
<1>2. "Preparing" \in TaskStates
  BY DEF TaskStates, NonTerminalStates
<1>3. /\ task' \in Records /\ task'.state = "Preparing"
      /\ task'.collaborationRoundBudget = task.collaborationRoundBudget
      /\ task'.collaborationRoundsUsed = task.collaborationRoundsUsed
  BY <1>1, <1>2, MovedFields DEF Records
<1> QED BY <1>3 DEF IInv, TypeOK, Records, Phases, PhaseIsKnown, RoundsWithinBudget,
       CandidateBeforeApproval, Phase, Suspended

LEMMA GrantPreserves == ASSUME IInv, GrantAdditionalRounds PROVE IInv'
<1>1. PICK n \in 0 .. 3 : Fire([type |-> "grantAdditionalRounds", rounds |-> n])
  BY DEF GrantAdditionalRounds
<1>2. /\ task.version < MaxVersion /\ task \in Records
      /\ task.state \in {"HumanApproval", "Revision"}
      /\ task' = [Moved(task, task.state) EXCEPT !.collaborationRoundBudget = @ + n]
  BY <1>1, TypeOKIsRecords DEF Fire, After, IInv, Legal, PlainMoves
<1>3. /\ task.state \in TaskStates
      /\ task.collaborationRoundsUsed \in Nat /\ task.collaborationRoundBudget \in Nat
  BY <1>2 DEF Records
<1>4. /\ task' \in Records /\ task'.state = task.state
      /\ task'.collaborationRoundBudget = task.collaborationRoundBudget + n
      /\ task'.collaborationRoundsUsed = task.collaborationRoundsUsed
      /\ task'.activeCandidateId = task.activeCandidateId
  BY <1>2, <1>3, MovedFields DEF Records
<1> QED BY <1>2, <1>3, <1>4 DEF IInv, TypeOK, Records, Phases, PhaseIsKnown,
       RoundsWithinBudget, CandidateBeforeApproval, Phase, Suspended

LEMMA CandidatePreserves == ASSUME IInv, CandidateReady PROVE IInv'
<1>1. /\ task.version < MaxVersion /\ task \in Records
      /\ task' = [Moved(task, "Candidate") EXCEPT !.activeCandidateId = "candidate"]
  BY TypeOKIsRecords DEF CandidateReady, Fire, After, IInv
<1>2. "Candidate" \in TaskStates
  BY DEF TaskStates, NonTerminalStates
<1>3. /\ task' \in Records /\ task'.state = "Candidate"
      /\ task'.activeCandidateId = "candidate"
      /\ task'.collaborationRoundBudget = task.collaborationRoundBudget
      /\ task'.collaborationRoundsUsed = task.collaborationRoundsUsed
  BY <1>1, <1>2, MovedFields DEF Records
<1> QED BY <1>3 DEF IInv, TypeOK, Records, Phases, PhaseIsKnown, RoundsWithinBudget,
       CandidateBeforeApproval, Phase, Suspended, NoCandidate

LEMMA InterruptPreserves == ASSUME IInv, MarkInterrupted PROVE IInv'
<1>1. /\ task.version < MaxVersion /\ task \in Records
      /\ task.state \in NonTerminalStates \ Suspended
      /\ task' = [Moved(task, "Interrupted") EXCEPT !.interruptedFromState = task.state]
  BY TypeOKIsRecords DEF MarkInterrupted, Fire, After, IInv, Legal, LostPhase, Records,
       TaskStates, Suspended
<1>2. "Interrupted" \in TaskStates /\ task.state \in Phases /\ task.state # NoPhase
  BY <1>1 DEF TaskStates, NonTerminalStates, Phases, Suspended, NoPhase
<1>3. /\ task' \in Records /\ task'.state = "Interrupted"
      /\ task'.interruptedFromState = task.state
      /\ task'.activeCandidateId = task.activeCandidateId
      /\ task'.collaborationRoundBudget = task.collaborationRoundBudget
      /\ task'.collaborationRoundsUsed = task.collaborationRoundsUsed
  BY <1>1, <1>2, MovedFields DEF Records
<1>4. Phase' = task.state /\ Phase = task.state
  BY <1>1, <1>3 DEF Phase, Suspended
<1>5. TypeOK'
  BY <1>3 DEF TypeOK, Records, Phases
<1> QED BY <1>2, <1>3, <1>4, <1>5 DEF IInv, PhaseIsKnown, RoundsWithinBudget,
       CandidateBeforeApproval

\* What resolve can do to a task that knows its phase.
LEMMA ResolveEffect ==
  ASSUME IInv, Resolve
  PROVE  /\ task.version < MaxVersion /\ task.state = "Reconciling"
         /\ \E s \in TaskStates \ Suspended :
              /\ \/ s = "Cancelled" \/ s = task.interruptedFromState
                 \/ /\ task.interruptedFromState = "Merging"
                    /\ s \in {"Completed", "HumanApproval"}
              /\ task' = [Moved(task, s) EXCEPT !.interruptedFromState = NoPhase]
<1>1. PICK s \in RecoveryTargets : Fire([type |-> "resumeRecordedPhase", target |-> s])
  BY DEF Resolve
<1>2. /\ task.version < MaxVersion /\ task.state = "Reconciling" /\ s # NoPhase
      /\ task' = [Moved(task, s) EXCEPT !.interruptedFromState = NoPhase]
  BY <1>1 DEF Fire, Legal, After, PlainMoves
<1>3. task.interruptedFromState # NoPhase /\ task.interruptedFromState \in Phases
  BY <1>2, TypeOKIsRecords DEF IInv, PhaseIsKnown, Records
<1>4. \/ s = "Cancelled" \/ s = task.interruptedFromState
      \/ task.interruptedFromState = "Merging" /\ s \in {"Completed", "HumanApproval"}
  BY <1>3 DEF RecoveryTargets
<1>5. s \in TaskStates \ Suspended
  BY <1>3, <1>4 DEF Phases, TaskStates, NonTerminalStates, TerminalStates, Suspended
<1> QED BY <1>2, <1>4, <1>5

LEMMA ResolvePreserves == ASSUME IInv, Resolve PROVE IInv'
<1>1. PICK s \in TaskStates \ Suspended :
        /\ \/ s = "Cancelled" \/ s = task.interruptedFromState
           \/ task.interruptedFromState = "Merging" /\ s \in {"Completed", "HumanApproval"}
        /\ task' = [Moved(task, s) EXCEPT !.interruptedFromState = NoPhase]
  BY ResolveEffect
<1>2. task.version < MaxVersion /\ task.state = "Reconciling" /\ task \in Records
  BY ResolveEffect, TypeOKIsRecords DEF IInv
<1>3. /\ task' \in Records /\ task'.state = s
      /\ task'.activeCandidateId = task.activeCandidateId
      /\ task'.collaborationRoundBudget = task.collaborationRoundBudget
      /\ task'.collaborationRoundsUsed = task.collaborationRoundsUsed
  BY <1>1, <1>2, MovedFields DEF Records, Phases
<1>4. Phase = task.interruptedFromState /\ Phase' = s
  BY <1>2, <1>3 DEF Phase, Suspended
<1>5. TypeOK'
  BY <1>3 DEF TypeOK, Records, Phases
<1>6. RoundsWithinBudget'
  BY <1>1, <1>3, <1>4 DEF IInv, RoundsWithinBudget
<1>7. CandidateBeforeApproval'
  BY <1>1, <1>3, <1>4 DEF IInv, CandidateBeforeApproval
<1> QED BY <1>3, <1>5, <1>6, <1>7 DEF IInv, PhaseIsKnown, Suspended

-----------------------------------------------------------------------------
(* The theorems *)

LEMMA InitIInv == Init => IInv
<1> SUFFICES ASSUME Init PROVE IInv
  OBVIOUS
<1>1. PICK budget \in 0 .. 2 :
    task = [ state |-> "AwaitingApproval", interruptedFromState |-> NoPhase,
             version |-> 1, collaborationRoundBudget |-> budget,
             collaborationRoundsUsed |-> 0, humanRevisionCount |-> 0,
             revisionKind |-> "null", activeCandidateId |-> NoCandidate ]
  BY DEF Init
<1> QED BY <1>1 DEF IInv, TypeOK, PhaseIsKnown, RoundsWithinBudget,
       CandidateBeforeApproval, Phase, Suspended, TaskStates, NonTerminalStates

LEMMA StepIInv == IInv /\ [Next]_vars => IInv'
<1> SUFFICES ASSUME IInv, [Next]_vars PROVE IInv'
  OBVIOUS
<1>1. CASE Next
  BY <1>1, PlainPreserves, ApprovePreserves, GrantPreserves, CandidatePreserves,
     InterruptPreserves, ResolvePreserves DEF Next
<1>2. CASE UNCHANGED vars
  BY <1>2 DEF vars, IInv, TypeOK, PhaseIsKnown, RoundsWithinBudget,
     CandidateBeforeApproval, Phase, Suspended
<1> QED BY <1>1, <1>2

\* Along every run the record keeps its type, an interrupted task knows where it
\* stopped, and the two properties below hold of it.
THEOREM LifecycleInvariant == Spec => []IInv
BY InitIInv, StepIInv, PTL DEF Spec

\* Every value the state machine writes is one the contract declares, for every
\* number of transitions.
THEOREM TypeCorrect == Spec => []TypeOK
<1>1. IInv => TypeOK
  BY DEF IInv
<1> QED BY <1>1, LifecycleInvariant, PTL

\* The agents never run more rounds than the human has budgeted, whatever is
\* granted, revised, interrupted and resumed.
THEOREM RoundsWithinBudgetHolds == Spec => []RoundsWithinBudget
<1>1. IInv => RoundsWithinBudget
  BY DEF IInv
<1> QED BY <1>1, LifecycleInvariant, PTL

\* No path brings a task to the human's approval or to the merge without a
\* candidate.
THEOREM CandidateBeforeApprovalHolds == Spec => []CandidateBeforeApproval
<1>1. IInv => CandidateBeforeApproval
  BY DEF IInv
<1> QED BY <1>1, LifecycleInvariant, PTL

\* The transitions that patch more than the state never suspend a task.
LEMMA Awake ==
  ASSUME IInv, NEW type \in PlainTypes \ Simple, Fire([type |-> type])
  PROVE  task'.state \notin Suspended
<1>1. task.version < MaxVersion /\ task \in Records /\ task' = After(task, [type |-> type])
  BY TypeOKIsRecords DEF Fire, IInv
<1>2. CASE type \in {"fail", "cancel"}
  <2>1. PICK s \in {"Failed", "Cancelled", "CancelRequested"} : task' = Moved(task, s)
    BY <1>1, <1>2 DEF After, CancelTarget
  <2>2. s \in TaskStates
    BY DEF TaskStates, NonTerminalStates, TerminalStates
  <2> QED BY <1>1, <2>1, <2>2, MovedFields DEF Suspended
<1>3. CASE type \in {"beginReview", "requestHumanRevision", "requestAgentRevision"}
  <2> DEFINE s == IF type = "beginReview" THEN ReviewPhase(task) ELSE "Revision"
             r == Moved(task, s)
  <2>1. s \in TaskStates \ Suspended
    BY DEF ReviewPhase, TaskStates, NonTerminalStates, Suspended
  <2>2. r \in Records /\ r.state = s
    BY <1>1, <2>1, MovedFields
  <2>3. \/ task' = [r EXCEPT !.collaborationRoundsUsed = @ + 1, !.revisionKind = "null"]
        \/ task' = [r EXCEPT !.humanRevisionCount = @ + 1, !.revisionKind = "human_directed"]
        \/ task' = [r EXCEPT !.revisionKind = "agent_review"]
    BY <1>1, <1>3 DEF After
  <2> HIDE DEF r, s
  <2>4. task'.state = r.state
    BY <2>2, <2>3 DEF Records
  <2> QED BY <2>1, <2>2, <2>4
<1> QED BY <1>2, <1>3 DEF Simple

\* A step that suspends the task records where it was.
LEMMA SuspendedKeepsPhase ==
  ASSUME IInv, Next, task'.state \in Suspended PROVE Phase' = Phase
<1>1. task \in Records
  BY TypeOKIsRecords DEF IInv
<1>2. CASE Plain
  <2>1. PICK type \in PlainTypes : Fire([type |-> type])
    BY <1>2 DEF Plain
  <2>2. type \in Simple /\ task.version < MaxVersion
    BY <2>1, Awake DEF Fire
  <2>3. PICK m \in PlainMoves :
          m[1] = task.state /\ m[2] = type /\ task' = Moved(task, m[3])
    BY <2>1, <2>2, PlainMove DEF Fire
  <2>4. m[3] \in TaskStates
    BY DEF PlainMoves, TaskStates, NonTerminalStates, TerminalStates
  <2>5. task'.state = m[3] /\ task'.interruptedFromState = task.interruptedFromState
    BY <1>1, <2>2, <2>3, <2>4, MovedFields
  <2>6. task.state = "Interrupted"
    BY <2>3, <2>5 DEF PlainMoves, Suspended
  <2> QED BY <2>5, <2>6 DEF Phase, Suspended
<1>3. CASE MarkInterrupted
  <2>1. /\ task.version < MaxVersion /\ task.state \notin Suspended
        /\ task' = [Moved(task, "Interrupted") EXCEPT !.interruptedFromState = task.state]
    BY <1>3 DEF MarkInterrupted, Fire, After, LostPhase, Suspended
  <2> DEFINE r == Moved(task, "Interrupted")
  <2>2. r \in Records
    BY <1>1, <2>1, MovedFields DEF TaskStates, NonTerminalStates
  <2> HIDE DEF r
  <2>3. task'.interruptedFromState = task.state
    BY <2>1, <2>2 DEF Records, r
  <2> QED BY <2>1, <2>3 DEF Phase, Suspended
<1>4. CASE Resolve
  <2>1. PICK s \in TaskStates \ Suspended :
          task' = [Moved(task, s) EXCEPT !.interruptedFromState = NoPhase]
    BY <1>4, ResolveEffect
  <2>2. task'.state = s
    BY <1>1, <1>4, <2>1, ResolveEffect, MovedFields DEF Records
  <2> QED BY <2>1, <2>2
<1>5. CASE ApproveScope \/ CandidateReady \/ GrantAdditionalRounds
  <2> DEFINE s == IF ApproveScope THEN "Preparing"
                  ELSE IF CandidateReady THEN "Candidate" ELSE task.state
             r == Moved(task, s)
  <2>1. /\ task.version < MaxVersion
        /\ GrantAdditionalRounds => task.state \in {"HumanApproval", "Revision"}
    BY <1>5 DEF ApproveScope, CandidateReady, GrantAdditionalRounds, Fire, Legal, PlainMoves
  <2>2. s \in TaskStates \ Suspended
    BY <1>5, <2>1 DEF TaskStates, NonTerminalStates, Suspended
  <2>3. r \in Records /\ r.state = s
    BY <1>1, <2>1, <2>2, MovedFields
  <2>4. \/ \E n : task' = [r EXCEPT !.collaborationRoundBudget = n]
        \/ task' = [r EXCEPT !.activeCandidateId = "candidate"]
    <3>1. CASE ApproveScope
      BY <3>1 DEF ApproveScope, Fire, After
    <3>2. CASE ~ApproveScope /\ CandidateReady
      BY <3>2 DEF CandidateReady, Fire, After
    <3>3. CASE ~ApproveScope /\ ~CandidateReady /\ GrantAdditionalRounds
      <4>1. PICK n \in 0 .. 3 :
              task' = [Moved(task, task.state) EXCEPT !.collaborationRoundBudget = @ + n]
        BY <3>3 DEF GrantAdditionalRounds, Fire, After
      <4> QED BY <3>3, <4>1
    <3> QED BY <1>5, <3>1, <3>2, <3>3
  <2> HIDE DEF r, s
  <2>5. task'.state = r.state
    BY <2>3, <2>4 DEF Records
  <2> QED BY <2>2, <2>3, <2>5
<1> QED BY <1>2, <1>3, <1>4, <1>5 DEF Next

\* What the record says of a suspended task's phase is what the history says.
THEOREM PhaseIsReachedHolds == Spec => []PhaseIsReached
<1>1. Init => PhaseIsReached
  BY DEF Init, PhaseIsReached, Phase, Suspended
<1>2. IInv /\ PhaseIsReached /\ [Next]_vars => PhaseIsReached'
  <2> SUFFICES ASSUME IInv, PhaseIsReached, [Next]_vars PROVE PhaseIsReached'
    OBVIOUS
  <2>1. CASE Next
    <3>1. reached' = IF task'.state \in Suspended THEN reached ELSE task'.state
      BY <2>1 DEF Next, Plain, ApproveScope, GrantAdditionalRounds, CandidateReady,
         MarkInterrupted, Resolve, Fire
    <3>2. CASE task'.state \in Suspended
      BY <2>1, <3>1, <3>2, SuspendedKeepsPhase DEF PhaseIsReached
    <3>3. CASE task'.state \notin Suspended
      BY <3>1, <3>3 DEF PhaseIsReached, Phase, Suspended
    <3> QED BY <3>2, <3>3
  <2>2. CASE UNCHANGED vars
    BY <2>2 DEF vars, PhaseIsReached, Phase, Suspended
  <2> QED BY <2>1, <2>2
<1> QED BY <1>1, <1>2, LifecycleInvariant, PTL DEF Spec

LEMMA StepRecovers ==
  ASSUME IInv, Next, task.state = "Reconciling",
         task'.state \notin Suspended \cup {"Failed", "Cancelled"}
  PROVE  \/ task'.state = task.interruptedFromState
         \/ /\ task.interruptedFromState = "Merging"
            /\ task'.state \in {"Completed", "HumanApproval"}
<1>1. task \in Records
  BY TypeOKIsRecords DEF IInv
<1>2. ASSUME Plain PROVE FALSE
  <2>1. PICK type \in PlainTypes : Fire([type |-> type])
    BY <1>2 DEF Plain
  <2>2. type \in {"fail", "cancel"}
    BY <2>1 DEF Fire, Legal, PlainTypes, PlainMoves
  <2>3. task' = Moved(task, "Failed") \/ task' = Moved(task, "Cancelled")
    BY <2>1, <2>2 DEF Fire, After, CancelTarget, ActiveCancellationStates
  <2>4. task.version < MaxVersion /\ {"Failed", "Cancelled"} \subseteq TaskStates
    BY <2>1 DEF Fire, TaskStates, TerminalStates
  <2> QED BY <1>1, <2>3, <2>4, MovedFields
<1>3. ~ApproveScope /\ ~GrantAdditionalRounds /\ ~CandidateReady /\ ~MarkInterrupted
  BY DEF ApproveScope, GrantAdditionalRounds, CandidateReady, MarkInterrupted, Fire, Legal,
     PlainMoves, Suspended
<1>4. Resolve
  BY <1>2, <1>3 DEF Next
<1>5. PICK s \in TaskStates \ Suspended :
        /\ \/ s = "Cancelled" \/ s = task.interruptedFromState
           \/ task.interruptedFromState = "Merging" /\ s \in {"Completed", "HumanApproval"}
        /\ task' = [Moved(task, s) EXCEPT !.interruptedFromState = NoPhase]
  BY <1>4, ResolveEffect
<1>6. task'.state = s
  BY <1>1, <1>4, <1>5, ResolveEffect, MovedFields DEF Records
<1> QED BY <1>5, <1>6

\* A recovery ends in the state the work had reached, at the human or completed
\* if that was the merge, or closed, however often the task is interrupted.
THEOREM RecoveryNeverAdvancesHolds == Spec => RecoveryNeverAdvances
<1> DEFINE Step == task.state = "Reconciling"
                     /\ task'.state \notin Suspended \cup {"Failed", "Cancelled"}
                   => \/ task'.state = reached
                      \/ reached = "Merging" /\ task'.state \in {"Completed", "HumanApproval"}
<1>1. IInv /\ PhaseIsReached /\ [Next]_vars => [Step]_vars
  <2> SUFFICES ASSUME IInv, PhaseIsReached, Next, task.state = "Reconciling",
                      task'.state \notin Suspended \cup {"Failed", "Cancelled"}
               PROVE  \/ task'.state = reached
                      \/ reached = "Merging" /\ task'.state \in {"Completed", "HumanApproval"}
    OBVIOUS
  <2>1. reached = task.interruptedFromState
    BY DEF PhaseIsReached, Phase, Suspended
  <2> QED BY <2>1, StepRecovers
<1> QED BY <1>1, LifecycleInvariant, PhaseIsReachedHolds, PTL DEF Spec, RecoveryNeverAdvances
=============================================================================
