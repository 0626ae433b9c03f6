CONSTANTS
  Tables <- MCTables
  Threshold = 0
  window_size = 2
  MaxVersion = 3
  MaxHeight = 5
  MaxAlt = 2
SPECIFICATION Spec
INVARIANTS
  VersionFromChain
  CountsMatchWindow
  ChainFollowsSchedule
PROPERTY RebuiltWindow
