SPECIFICATION Spec
CONSTANTS
  Null = Null
  Calls = {c1, c2}
  Keys = {k1, k2}
  Picks = {p1, p2}
  MaxPicks = 2
  Budget = 2
  MaxStarts = 4
  MaxCommits = 4
  MaxCrashes = 1
  MaxDrift = 1
SYMMETRY Symmetric
VIEW LiveState
INVARIANTS
  TypeOK
  ReservedTaskStaysOpen
  FailedLeftNothing
  IntegratedAsSelected
  LeadRecordFollowsHead
\* The task may be closed and every call spent.
CHECK_DEADLOCK FALSE
