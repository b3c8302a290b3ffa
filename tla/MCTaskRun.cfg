CONSTANTS
  Starts = {s1, s2}
  Cancels = {c1, c2, deadline}
  Deadline = deadline
  NoCall = NoCall
  Kinds = {"implementation", "revision", "collaboration"}
  MaxEvents = 2
SPECIFICATION FairSpec
INVARIANTS TypeOK CancelAnswersTruth CollaboratorWritesInReview CheckpointHasWholeRun
PROPERTIES CancelEndsRun RoundsEnd
\* The run and every command may have ended.
CHECK_DEADLOCK FALSE
