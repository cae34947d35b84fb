SPECIFICATION StoreSpec
CONSTANTS
  A = A
  B = B
  x = x
  y = y
  new = new
  NoCard = NoCard
  Nowhere = Nowhere
  List = {A, B}
  Card = {x, y, new}
  Temp = {t}
  Start <- StartTwo
  PeerOps = {"move", "delete", "create", "deleteList"}
  MaxMine = 2
  MaxPeers = 1
  MaxFaults = 1
  MaxUnsent = 1
INVARIANTS
  StoreTypeOK
  Agrees
PROPERTIES
  StaleMoveLeavesAlone
CHECK_DEADLOCK FALSE
