SPECIFICATION Spec
CONSTANTS
  MAX_THETA = 15
  MIN_LG_K = 1
  MAX_LG_K = 3
  LgNom = 1
  RF = 1
  StartTheta = 15
  Seed = 0
  Inputs <- const_Inputs
  Marks <- const_Marks
INVARIANTS
  TableWellFormed
  ResultRepresents
  ResultWellFormed
  SimilarityExact
