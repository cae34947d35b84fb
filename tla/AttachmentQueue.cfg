SPECIFICATION FairSpec
CONSTANTS
  Id = {f1, f2}
  None = None
  MaxConcurrent = 1
  MaxAttempts = 3
  BackoffBase = 1
  BackoffMax = 2
  MaxNetChanges = 2
  MaxRetries = 2
  MaxStops = 1
  MaxCrashes = 1
INVARIANTS
  TypeOK
  ConcurrencyBound
  UploadingHasWorker
PROPERTIES
  UploadedStays
  EverythingSettles
CHECK_DEADLOCK FALSE
