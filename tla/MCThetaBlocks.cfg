SPECIFICATION Spec
CONSTANTS
  MAX_THETA = 255
  MIN_LG_K = 1
  W = 3
  Seed = 0
  Inputs = {}
  Writers <- const_Writers
INVARIANTS
  StreamBlocksExact
