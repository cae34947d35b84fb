SPECIFICATION FairSpec
CONSTANTS
  Field = {"title"}
  Value = {1, 2}
  NullRank = 2
  Device = {1, 2}
  Id = {1}
  None = None
  Tombstone = Tombstone
  InitialValue = 1
  Shared = {1}
  WebOnly = {}
  Patch <- SetToTwo
  Refused = {}
  MaxSyncChanges = 2
  MicrosPerTick = 2
  Skew <- NoSkew
  WebOps = {}
  EditsDuringSync = TRUE
  StampsCollide = FALSE
  MaxTime = 2
  MaxMicros = 5
  MaxEdits = 2
  MaxWebOps = 0
  MaxTimeouts = 1
  MaxCrashes = 0
INVARIANTS
  PendingCoversEdits

  
CHECK_DEADLOCK FALSE
