SPECIFICATION FairSpec
CONSTANTS
  User = {a, b}
  None = None
  Seed = Seed
  Width = 2
  MaxLogins = 2
  MaxCalls = 1
  MaxLoads = 4
  MaxFailures = 2
INVARIANTS
  TypeOK
  SessionOwnsToken
  BoardIsTheSessions
PROPERTIES
  ScreenSettles
CHECK_DEADLOCK FALSE
