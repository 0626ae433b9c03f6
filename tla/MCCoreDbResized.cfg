CONSTANTS
  Threads = {a, b}
  NoThread = NoThread
  MaxOps = 1
  MaxResizes = 1
  MaxGrows = 1
  MapFaults = FALSE
SPECIFICATION Spec
PROPERTIES MapResizedAdopted
CHECK_DEADLOCK FALSE
