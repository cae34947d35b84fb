SPECIFICATION FairSpec
CONSTANTS
  Client = {c1}
  Store = {c1}
  StoreOf <- OneTabEach
  ReplayMax = 2
  MaxEmits = 2
  MaxFrames = 3
  MaxFaults = 2
INVARIANTS
  TypeOK
  FramesCovered
PROPERTIES
  ImplementsFeed
  EveryFrameReaches
CHECK_DEADLOCK FALSE
