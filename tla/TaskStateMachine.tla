-------------------------- MODULE TaskStateMachine --------------------------
(***************************************************************************)
(* The pure transition table of a task: transitionTask of                  *)
(* src/worker/tasks/task-state-machine.ts.                                 *)
(*                                                                         *)
(* A task is a record with at least the fields state, interruptedFromState *)
(* and version; the operators touch only the fields the code patches, so   *)
(* the components can carry the part of the record they need.  An action   *)
(* is a record [type |-> ...] with the parameters its branch reads.  The   *)
(* function throws where Legal is FALSE, and returns After where it is     *)
(* TRUE.                                                                   *)
(***************************************************************************)
EXTENDS Naturals

\* NON_TERMINAL_TASK_STATES and the three sets the function tests.
NonTerminalStates ==
  {"AwaitingApproval", "Preparing", "Working", "Checkpoint", "Review1",
   "Revision", "Review2", "Candidate", "HumanApproval", "Merging",
   "CancelRequested", "Interrupted", "Reconciling"}
TerminalStates == {"Completed", "Cancelled", "Failed"}
TaskStates == NonTerminalStates \cup TerminalStates
ActiveCancellationStates ==
  NonTerminalStates \ {"AwaitingApproval", "Interrupted", "Reconciling"}
ReconciliationOutcomes == {"Completed", "HumanApproval", "Cancelled"}

\* interruptedFromState = null
NoPhase == "null"

\* The closing switch: the moves that only change the state (candidateReady
\* and approveScope patch more and are listed in After).
PlainMoves ==
  { <<"AwaitingApproval", "approveScope", "Preparing">>,
    <<"AwaitingApproval", "rejectScope", "Cancelled">>,
    <<"Preparing", "preparationSucceeded", "Working">>,
    <<"Working", "checkpointReady", "Checkpoint">>,
    <<"Working", "candidateReady", "Candidate">>,
    <<"Checkpoint", "candidateReady", "Candidate">>,
    <<"Revision", "candidateReady", "Candidate">>,
    <<"Review2", "candidateReady", "Candidate">>,
    <<"Review1", "requestAgentRevision", "Revision">>,
    <<"Review2", "requestAgentRevision", "Revision">>,
    <<"Candidate", "requestHumanApproval", "HumanApproval">>,
    <<"HumanApproval", "approveMerge", "Merging">>,
    <<"Merging", "mergeCompleted", "Completed">>,
    <<"HumanApproval", "approvalInvalidated", "HumanApproval">>,
    <<"Merging", "approvalInvalidated", "HumanApproval">>,
    <<"CancelRequested", "cancelSettled", "Cancelled">>,
    <<"Interrupted", "beginReconciliation", "Reconciling">> }

\* moved: the patched record with the next version.
Moved(t, state) == [t EXCEPT !.state = state, !.version = @ + 1]

CancelTarget(t) ==
  IF t.state \in ActiveCancellationStates THEN "CancelRequested" ELSE "Cancelled"

\* The phase processLoss records: a second loss keeps the first one's phase.
LostPhase(t) ==
  IF t.state = "Interrupted" THEN t.interruptedFromState ELSE t.state

\* Mutant: the exhausted budget still allows one round.
BudgetLeftOffByOne(t) == t.collaborationRoundsUsed <= t.collaborationRoundBudget

\* beginReview: a round is left, and the phase the next round is reviewed in.
BudgetLeft(t) == t.collaborationRoundsUsed < t.collaborationRoundBudget

ReviewPhase(t) ==
  IF t.collaborationRoundsUsed + 1 = 1 THEN "Review1" ELSE "Review2"

Legal(t, a) ==
  /\ t.state \notin TerminalStates
  /\ \/ a.type \in {"fail", "processLoss", "cancel"}
     \/ /\ a.type = "beginReview"
        /\ t.state \in {"Checkpoint", "Revision"}
        /\ BudgetLeft(t)
     \/ /\ a.type = "requestHumanRevision"
        /\ t.state = "HumanApproval"
     \/ /\ a.type = "grantAdditionalRounds"
        /\ t.state \in {"HumanApproval", "Revision"}
        /\ a.rounds \in 1 .. 2
     \/ /\ a.type = "resumeRecordedPhase"
        /\ t.state = "Reconciling"
        /\ a.target # NoPhase
        /\ a.target \in ReconciliationOutcomes \cup {t.interruptedFromState}
     \/ /\ \E m \in PlainMoves : m[1] = t.state /\ m[2] = a.type
        /\ a.type = "approveScope" => a.rounds \in 0 .. 2

After(t, a) ==
  CASE a.type = "fail" -> Moved(t, "Failed")
    [] a.type = "processLoss" ->
         [Moved(t, "Interrupted") EXCEPT !.interruptedFromState = LostPhase(t)]
    [] a.type = "cancel" -> Moved(t, CancelTarget(t))
    [] a.type = "beginReview" ->
         [Moved(t, ReviewPhase(t)) EXCEPT !.collaborationRoundsUsed = @ + 1,
                                          !.revisionKind = "null"]
    [] a.type = "requestHumanRevision" ->
         [Moved(t, "Revision") EXCEPT !.humanRevisionCount = @ + 1,
                                      !.revisionKind = "human_directed"]
    [] a.type = "grantAdditionalRounds" ->
         [Moved(t, t.state) EXCEPT !.collaborationRoundBudget = @ + a.rounds]
    [] a.type = "resumeRecordedPhase" ->
         [Moved(t, a.target) EXCEPT !.interruptedFromState = NoPhase]
    [] a.type = "candidateReady" ->
         [Moved(t, "Candidate") EXCEPT !.activeCandidateId = a.candidateId]
    [] a.type = "approveScope" ->
         [Moved(t, "Preparing") EXCEPT !.collaborationRoundBudget = a.rounds]
    [] a.type = "requestAgentRevision" ->
         [Moved(t, "Revision") EXCEPT !.revisionKind = "agent_review"]
    [] OTHER ->
         LET m == CHOOSE x \in PlainMoves : x[1] = t.state /\ x[2] = a.type
         IN  Moved(t, m[3])
=============================================================================
