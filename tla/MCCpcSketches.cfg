SPECIFICATION Spec
CONSTANTS
  COL_BITS = 3
  MAX_LG_K = 2
  MIN_LG_K = 1
  WINDOW = 2
  SPARSE_END <- MCSparseEnd
  HYBRID_END <- MCHybridEnd
  PRODUCT_BITS = 14
  SLIDING_START <- MCSlidingStart
  LgKs = {1, 2}
  UnionLgK = 2
  Hashes <- MCHashes
  LaterHashes <- MCLaterHashes
  EarlierStreams <- MCEarlierStreams
  Sources <- MCSources
  MaxMerges = 3
  PairLists <- MCPairLists
  Windows <- MCWindows
INVARIANTS ContentExact StructureExact UnionExact RoundTrip CodecExact
