SPECIFICATION Spec
CONSTANTS
  Clients = {a, b}
  MaxVersion = 2
  SweptIds = {1}
  Contents = {x, y}
  NoEntry = NoEntry
  Tombstone = Tombstone
  MaxOps = 3
INVARIANTS
  OnlyExposedLoseBlobs
CHECK_DEADLOCK FALSE
