CONSTANTS
  Tasks = {t1}
  Calls = {c1, c2, c3}
  NoCall = NoCall
  Base = Base
  Older = Older
  Others <- MCOthers
  Ancestors <- MCAncestors
  CheckoutStates = {"none"}
  MaxGen = 2
  MaxCand = 1
  MaxDrift = 0
SPECIFICATION Spec
SYMMETRY CallSymmetry
PROPERTIES InterruptedMergeIsAdopted
\* A task may be closed and every call spent.
CHECK_DEADLOCK FALSE
