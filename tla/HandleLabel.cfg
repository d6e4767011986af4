SPECIFICATION Spec
CONSTANTS
  main = main
  dev = dev
  i1 = i1
  i2 = i2
  Instances = {i1, i2}
  Labels = {main, dev}
  MaxIds = 3
  DefaultLabel = main
  MaxHooks = 1
  MaxCalls = 4
  None = None
PROPERTIES
  CommitRelabelsItsVersion
CHECK_DEADLOCK FALSE
