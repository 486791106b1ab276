SPECIFICATION Spec
CONSTANTS
  NUM_HASHES = 2
  LONG_BITS = 2
  LENGTH_BITS = 2
  MAX_FILTER_SIZE_BITS = 10
  COUNT_BITS = 4
  FilterSizes = {3, 8, 10}
  NewSizes = {3, 10}
  BloomItems = {"a", "b"}
  Hash <- MCHash
  NUM_ROWS = 2
  NUM_BUCKETS = 3
  RELATIVE_ERROR = 90
  RowHash <- MCRowHash
  Kernel <- MCKernel
  None = None
  BUFFER_CAPACITY = 2
  Normalizer <- MCNormalizer
  TdValues = {1, 2, 4}
  TdStreams <- MCTdStreams
  Kinds = {"bloom", "count_min", "density", "ebpps", "tdigest"}
  Objects <- MCObjects
  CmWeights <- MCCmWeights
  Points <- MCPoints
  DensityKs = {2, 3}
  EbppsKs = {1, 3}
  EbppsWeights = {0, 1, 3}
  Thetas <- MCThetas
  MaxOps <- MCMaxOps
INVARIANTS
  StructureExact
  AnswersExact
  RoundTrip
CHECK_DEADLOCK FALSE
