CONSTANTS
  Threads = {a, b}
  NoThread = NoThread
  MaxOps = 1
  MaxResizes = 1
  MaxGrows = 0
  MapFaults = FALSE
SPECIFICATION Spec
PROPERTIES GateOpens
CHECK_DEADLOCK FALSE
