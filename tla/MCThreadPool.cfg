SPECIFICATION Spec
CONSTANTS
  a = a
  b = b
  w = w
  a1 = a1
  a11 = a11
  a12 = a12
  a2 = a2
  a21 = a21
  b1 = b1
  b11 = b11
  b2 = b2
  Clients = {a, b}
  Workers = {w}
  Jobs = {a1, a11, a12, a2, a21, b1, b11, b2}
  Submits <- MCSubmits
  Leaf = {a11, a2, b11}
  Throws = {a12, b11, b2}
INVARIANTS WaitMeansDone ErrorReported
PROPERTIES EveryProgramEnds
CHECK_DEADLOCK FALSE
