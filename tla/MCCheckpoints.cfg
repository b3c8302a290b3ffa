SPECIFICATION Spec
CONSTANTS
  Null = Null
  Calls = {c1, c2}
  Keys = {k1, k2}
  Ids = {p1, p2}
  MaxStarts = 4
  MaxCommits = 2
  MaxCrashes = 1
  MaxDrift = 1
SYMMETRY Symmetric
INVARIANTS
  TypeOK
  RecordedCheckpointsAreAChain
  EffectsWereIntended
  OneCommitPerIntent
  DivergenceIsExplained
CHECK_DEADLOCK FALSE
