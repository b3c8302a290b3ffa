\* Fifteen transitions from version 1 reach Completed through two reviews, a human-directed
\* revision and a crash with its recovery.
CONSTANT MaxVersion = 16
SPECIFICATION Spec
INVARIANTS TypeOK RoundsWithinBudget CandidateBeforeApproval
PROPERTY RecoveryNeverAdvances
\* A terminal task takes no further step.
CHECK_DEADLOCK FALSE
