SPECIFICATION FairSpec
CONSTANTS
  Slot = {s1, s2}
  MaxEdits = 4
  MaxFailures = 2
  MaxDrops = 2
INVARIANTS
  TypeOK
  AtMostOneSync
  OneSyncIsEnough

  
CHECK_DEADLOCK FALSE
