SPECIFICATION FairSpec
CONSTANTS
  Clients = {a, b}
  MaxId = 4
  Seeded = 3
  MaxOps = 3
INVARIANTS
  ParentsExist
  ClosureFollowsParents
PROPERTIES
  CommitsSerialize
  EveryOpEnds
CHECK_DEADLOCK FALSE
