SPECIFICATION Spec
CONSTANTS
  Clients = {a, b}
  MaxId = 4
  Seeded = 3
  MaxOps = 2
INVARIANT
  DetachedStandsAlone
CHECK_DEADLOCK FALSE
