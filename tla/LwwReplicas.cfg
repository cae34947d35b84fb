SPECIFICATION Spec
CONSTANTS
  Field = {"title", "listId"}
  Value = {1, 2, 3}
  NullRank = 2
  Device = {1, 2}
  Server = Server
  InitialValue = 1
  Tombstone = Tombstone
  MaxStamp = 2
  MaxEdits = 3
  MaxSends = 2
INVARIANTS
  StrongConvergence
  DeleteBuries
CHECK_DEADLOCK FALSE
