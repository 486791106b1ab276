CONSTANTS
  Items = {1, 2, 3}
  DEFAULT_M = 2
  MIN_K = 1
  REQ_MIN_K = 2
  INIT_NUM_SECTIONS = 1
  NewSketches <- MCNew
  Sources <- MCSources
  MaxUpdated = 5
  MaxMerged = 12
SPECIFICATION Spec
INVARIANTS StructureExact RankErrorBounded QueriesExact RoundTrip
