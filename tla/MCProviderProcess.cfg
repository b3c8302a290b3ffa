SPECIFICATION FairSpec
CONSTANTS
  c1 = c1
  Reader = reader
  Starter = starter
  Cancels <- MCCancels
  MaxMessages = 1
  MaxPsFailures = 1
INVARIANTS
  TypeOK
  OverMeansGone
  OnlyVerifiedIsSignalled
PROPERTY CancelEndsRunner
CHECK_DEADLOCK FALSE
