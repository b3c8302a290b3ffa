CONSTANTS
  Tasks = {t1}
  Calls = {c1, c2}
  NoCall = NoCall
  Base = Base
  Older = Older
  Others <- MCOthers
  Ancestors <- MCAncestors
  CheckoutStates = {"none", "clean", "dirty", "many"}
  MaxGen = 2
  MaxCand = 2
  MaxDrift = 1
SPECIFICATION FairSpec
PROPERTIES CallsEnd
\* A task may be closed and every call spent.
CHECK_DEADLOCK FALSE
