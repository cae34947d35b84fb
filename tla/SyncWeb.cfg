SPECIFICATION Spec
CONSTANTS
  Field = {"listId"}
  Value = {1, 2}
  NullRank = 2
  Device = {1, 2}
  Id = {1, 2}
  None = None
  Tombstone = Tombstone
  InitialValue = 1
  Shared = {1}
  WebOnly = {}
  Patch <- OneField
  Refused <- ListTwoGone
  MaxSyncChanges = 1
  MicrosPerTick = 2
  Skew <- NoSkew
  WebOps = {"create", "update", "remove"}
  EditsDuringSync = FALSE
  StampsCollide = FALSE
  MaxTime = 2
  MaxMicros = 5
  MaxEdits = 2
  MaxWebOps = 1
  MaxTimeouts = 0
  MaxCrashes = 0
INVARIANTS
  ParentsInOrg
CHECK_DEADLOCK FALSE
