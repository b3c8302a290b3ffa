CONSTANTS
  Starts = {s1}
  Cancels = {c1, deadline}
  Deadline = deadline
  NoCall = NoCall
  Kinds = {"implementation"}
  MaxEvents = 1
SPECIFICATION Spec
INVARIANT CancelledProviderStops
CHECK_DEADLOCK FALSE
