SPECIFICATION Spec
CONSTANTS
  Items <- const_Items
  Hash <- const_Hash
  NoKey = 0
  MAX_SAMPLE_SIZE = 3
  LG_MIN_MAP_SIZE = 3
  Programs <- const_Programs
INVARIANTS
  MapWellFormed
  BoundsHold
  ErrorBounded
PROPERTY
  ImplementsCounters
