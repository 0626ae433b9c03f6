CONSTANTS
  Threads = {a, b, c}
  NoThread = NoThread
  MaxOps = 1
  MaxResizes = 1
  MaxGrows = 1
  MapFaults = TRUE
SPECIFICATION Spec
INVARIANTS NoTxnDuringResize BatchIsMine
PROPERTIES EveryOperationEnds
CHECK_DEADLOCK FALSE
