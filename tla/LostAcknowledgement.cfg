SPECIFICATION FairSpec
CONSTANTS
  Field = {"title"}
  Value = {1, 2}
  NullRank = 2
  Device = {1}
  Id = {1}
  None = None
  Tombstone = Tombstone
  InitialValue = 1
  Shared = {1}
  WebOnly = {}
  Patch <- SetToTwo
  Refused = {}
  MaxSyncChanges = 2
  MicrosPerTick = 2
  Skew <- NoSkew
  WebOps = {}
  EditsDuringSync = FALSE
  StampsCollide = FALSE
  MaxTime = 2
  MaxMicros = 5
  MaxEdits = 1
  MaxWebOps = 0
  MaxTimeouts = 1
  MaxCrashes = 0
PROPERTIES
  PendingDrains
CHECK_DEADLOCK FALSE
