SPECIFICATION FairSpec
CONSTANTS
  Field = {"title", "parent"}
  Value = {0, 1, 2}
  NullRank = 0
  Card = {3, 4}
  List = {1, 2}
  Request = {r1, r2}
  Pushes <- MCPushes
  InitialRows <- MCInitialRows
  Parent = "parent"
  None = None
  Nobody = Nobody
  MaxRequests = 3
  MaxDeaths = 1
  MaxRemovals = 1
INVARIANTS
  TypeOK
  AcceptedStays
  EventsMatchWrites
  NoDeadlockWithinCollection
PROPERTIES
  EveryRequestEnds
CHECK_DEADLOCK FALSE
