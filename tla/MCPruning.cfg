CONSTANTS
  STRIPE_SIZE = 2
  LOG_STRIPES = 2
  TIP_BLOCKS = 3
  MaxHeight = 24
SPECIFICATION Spec
INVARIANTS
  NextUnprunedIsFirst
  NextPrunedMissesNone
PROPERTY PrunedForGood
