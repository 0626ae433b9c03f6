CONSTANTS
  STRIPE_SIZE = 2
  LOG_STRIPES = 1
  TIP_BLOCKS = 1
  ChainLength = 3
  ForkHeight = 3
  Hash <- MCHash
  Chains <- MCChains
  Seeds <- MCSeeds
  LocalSeed <- MCLocalSeed
  Conn = {c1, c2}
  MaxBlocks = 2
SPECIFICATION Spec
PROPERTY NeverReservesRequested
