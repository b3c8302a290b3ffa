CONSTANTS
  Generations = {g1, g2, g3}
  Previous = Previous
  None = None
  Requests = {r1}
  Quit = Quit
  LastBackoff = 1
  MaxFaults = 2
  MaxStalls = 1
SPECIFICATION FairSpec
INVARIANTS SoleOwner NoWorkerLeftBehind
PROPERTIES LeaseIsRespected BecomesReadyAgain StopEnds
\* The supervisor may be stopped and every worker dead.
CHECK_DEADLOCK FALSE
