SPECIFICATION FairSpec
CONSTANTS
  Null = Null
  Calls = {c1}
  Keys = {k1, k2}
  Picks = {p1}
  MaxPicks = 1
  Budget = 1
  MaxStarts = 2
  MaxCommits = 3
  MaxCrashes = 1
  MaxDrift = 0
PROPERTIES NextWorkerStarts
\* The task may be closed and every call spent.
CHECK_DEADLOCK FALSE
