---------------------------- MODULE TaskLifecycle ----------------------------
(***************************************************************************)
(* One task driven by every caller of transitionTask, in any order: the    *)
(* state machine together with the parameters its callers pass.            *)
(*                                                                         *)
(*  - TaskService (task-service.ts): approveScope, rejectScope,            *)
(*    grantAdditionalRounds, requestHumanRevision;                         *)
(*  - TaskEngine (task-engine.ts): preparationSucceeded, checkpointReady,  *)
(*    fail, cancel, cancelSettled;                                         *)
(*  - CollaborationCoordinator and CandidateService: beginReview,          *)
(*    requestAgentRevision, candidateReady, requestHumanApproval;          *)
(*  - FinalApprovalService and MergeService: approveMerge,                 *)
(*    approvalInvalidated, mergeCompleted;                                 *)
(*  - RecoveryCoordinator: processLoss, beginReconciliation,               *)
(*    resumeRecordedPhase.                                                 *)
(***************************************************************************)
EXTENDS TaskStateMachine

CONSTANT MaxVersion      \* bound on the number of transitions of a run
ASSUME MaxVersionAssumption == MaxVersion \in Nat \ {0}

VARIABLES
  task,
  reached  \* history: the last state that was neither of the suspended ones
vars == <<task, reached>>

NoCandidate == "null"
Suspended == {"Interrupted", "Reconciling"}

\* createFromMessage: scopeFromInput clamps the budget asked for to 0, 1 or 2.
Init ==
  /\ reached = "AwaitingApproval"
  /\ \E budget \in 0 .. 2 :
    task = [ state |-> "AwaitingApproval", interruptedFromState |-> NoPhase,
             version |-> 1, collaborationRoundBudget |-> budget,
             collaborationRoundsUsed |-> 0, humanRevisionCount |-> 0,
             revisionKind |-> "null", activeCandidateId |-> NoCandidate ]

\* applyTransition of one legal transition.
Fire(a) ==
  /\ task.version < MaxVersion
  /\ Legal(task, a)
  /\ task' = After(task, a)
  /\ reached' = IF task'.state \in Suspended THEN reached ELSE task'.state

\* The actions without parameters.
PlainTypes ==
  {"rejectScope", "preparationSucceeded", "checkpointReady", "beginReview",
   "requestAgentRevision", "requestHumanApproval", "approveMerge",
   "mergeCompleted", "approvalInvalidated", "requestHumanRevision", "fail",
   "cancel", "cancelSettled", "beginReconciliation"}
Plain == \E type \in PlainTypes : Fire([type |-> type])

\* decideScope approves the budget of the request, which is the task's own.
ApproveScope ==
  Fire([type |-> "approveScope", rounds |-> task.collaborationRoundBudget])
GrantAdditionalRounds ==
  \E n \in 0 .. 3 : Fire([type |-> "grantAdditionalRounds", rounds |-> n])

CandidateReady == Fire([type |-> "candidateReady", candidateId |-> "candidate"])

\* Mutant: tasks already interrupted or reconciling are interrupted again.
MarkInterruptedAll == Fire([type |-> "processLoss"])

\* Mutant: only tasks already interrupted are left be.
MarkInterruptedReconciling ==
  /\ task.state # "Interrupted"
  /\ Fire([type |-> "processLoss"])

\* markInterruptedAfterGenerationChange leaves Interrupted and Reconciling be.
MarkInterrupted ==
  /\ task.state \notin Suspended
  /\ Fire([type |-> "processLoss"])

\* Mutant: the fallback to HumanApproval offered for every phase.
RecoveryTargetsHuman ==
  {"Cancelled", task.interruptedFromState, "HumanApproval"}

\* RecoveryCoordinator.resolve: the target each decision leads to.
RecoveryTargets ==
  {"Cancelled", task.interruptedFromState} \cup
  IF task.interruptedFromState = "Merging" THEN {"Completed", "HumanApproval"}
  ELSE IF task.interruptedFromState = NoPhase THEN {"HumanApproval"}
  ELSE {}
Resolve ==
  \E target \in RecoveryTargets :
    Fire([type |-> "resumeRecordedPhase", target |-> target])

Next ==
  \/ Plain \/ ApproveScope \/ GrantAdditionalRounds \/ CandidateReady
  \/ MarkInterrupted \/ Resolve

Spec == Init /\ [][Next]_vars

-----------------------------------------------------------------------------
\* The phase the task is in, or the phase it will be resumed in.
Phase ==
  IF task.state \in Suspended
    THEN task.interruptedFromState ELSE task.state

(* Type invariant: the record keeps the ranges the contract declares. *)
TypeOK ==
  task \in [ state : TaskStates,
             interruptedFromState :
               (NonTerminalStates \ {"Interrupted", "Reconciling"}) \cup {NoPhase},
             version : 0 .. MaxVersion, collaborationRoundBudget : Nat,
             collaborationRoundsUsed : Nat, humanRevisionCount : Nat,
             revisionKind : {"null", "agent_review", "human_directed"},
             activeCandidateId : {NoCandidate, "candidate"} ]

(* The two agents never run more rounds than the human has budgeted, the   *)
(* approved scope's budget plus every later grant, and neither a crash nor *)
(* a revision resets the count: a task in its first review has used one    *)
(* round, in a later review more than one.                                 *)
RoundsWithinBudget ==
  /\ task.collaborationRoundsUsed <= task.collaborationRoundBudget
  /\ Phase = "Review1" => task.collaborationRoundsUsed = 1
  /\ Phase = "Review2" => task.collaborationRoundsUsed > 1

(* No path, recovery included, brings a task to the human's approval, to   *)
(* the merge or to completion without a candidate to approve.              *)
CandidateBeforeApproval ==
  Phase \in {"Candidate", "HumanApproval", "Merging", "Completed"}
    => task.activeCandidateId # NoCandidate

(* However often a task is interrupted, while it is being recovered too, a *)
(* recovery ends in the very state the work had reached, at the human or   *)
(* completed if that was the merge, or closed: the phase recorded is never *)
(* that of the interruption itself, and no task moves forward unseen.      *)
RecoveryNeverAdvances ==
  [][ task.state = "Reconciling" /\ task'.state \notin Suspended \cup {"Failed", "Cancelled"}
        => \/ task'.state = reached
           \/ reached = "Merging" /\ task'.state \in {"Completed", "HumanApproval"} ]_vars

=============================================================================
