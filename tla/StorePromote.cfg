SPECIFICATION Spec
SYMMETRY Symmetry
CONSTANTS
  v1 = v1
  v2 = v2
  v3 = v3
  main = main
  dev = dev
  c1 = c1
  c2 = c2
  r1 = r1
  r2 = r2
  VersionIds = {v1, v2, v3}
  VersionRoots = {r1}
  WorkspaceRoot = r1
  RootOf <- OneRoot
  UserLabels = {main, dev}
  DefaultLabel = main
  PrevLabel <- PrevOf
  Paths = {p1}
  Contents = {c1}
  Dir = Dir
  Tombstone = Tombstone
  Absent = Absent
  NoVersion = NoVersion
  NoLabel = NoLabel
PROPERTIES
  PromotedLabelResolves
CHECK_DEADLOCK FALSE
