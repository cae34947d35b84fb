SPECIFICATION OrderSpec
CONSTANTS
  Base = 3
  Seed = 1
  Row = {1, 2, 3, 4}
  Column = {A, B}
  Request = {q1, q2}
  Elsewhere = Elsewhere
  FirstRows = {1, 2, 3}
  FirstKeys <- MCFirstKeys
  Hidden = {2}
  MaxKeyLength = 2
  Ops = {"create", "place", "append", "edit", "remove"}
  MaxRequests = 2
  MaxRebalances = 1
INVARIANTS
  OrderTypeOK
  AlwaysRoom
PROPERTIES
  PlacedAsAsked
  RebalanceKeepsOrder
CHECK_DEADLOCK FALSE
