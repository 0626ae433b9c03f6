SPECIFICATION Spec
CONSTANTS
  g1 = g1
  g2 = g2
  b1 = b1
  G = G
  B = B
  Conn = {g1, g2, b1}
  Peers = {G, B}
  Good = {G}
  Peer <- MCPeer
  NoConn = NoConn
  Length = 2
  Fork = 1
  MaxSpan = 1
  MaxIds = 3
  Spans = 1
  Near = 1
  MaxMishaps = 0
  MaxBadConnects = 1
  MaxCallbacks <- MCMaxCallbacks
  STRIPE_SIZE = 2
  LOG_STRIPES = 1
  TIP_BLOCKS = 2
INVARIANTS GoesBackToDownload
CHECK_DEADLOCK FALSE
