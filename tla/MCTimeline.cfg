CONSTANTS
  Rooms = {a, b}
  FirstRoom = a
  None = None
  MaxEvents = 2
  MaxInTransit = 1
  PageLimit = 1
  MaxGenerations = 2
  MaxCalls = 1
SPECIFICATION FairSpec
INVARIANTS TypeOK ShownIsPrefix ReadyIsCaughtUp PostedIsShown
PROPERTY PublishedIsShown
\* Nothing more may happen once the user has made every call.
CHECK_DEADLOCK FALSE
