SPECIFICATION Spec
CONSTANTS
  a = a
  b = b
  x = x
  Names = {a, b}
  PathBound = 2
  Tokens = {x}
  MaxFileSize = 2
  Modes = {"0700"}
  Inherited <- Ancestors
  Absent = Absent
  MaxFiles = 8
  MaxDepth = 2
  MaxCpNodes = 4
  Headroom = 2
  NoCount = NoCount
  Targets <- LinkTargets
  Sources <- MergeSources
  Selections <- MergeSelections
  MaxSteps = 3
  MaxLinks = 2
  Hidings <- InstanceHidings
INVARIANTS
  MvKeepsNodes
CHECK_DEADLOCK FALSE
