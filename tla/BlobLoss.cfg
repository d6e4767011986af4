SPECIFICATION Spec
CONSTANTS
  Clients = {a, b}
  MaxVersion = 2
  SweptIds = {1}
  Contents = {x}
  NoEntry = NoEntry
  Tombstone = Tombstone
  MaxOps = 2
INVARIANT
  BlobsBackEntries
CHECK_DEADLOCK FALSE
