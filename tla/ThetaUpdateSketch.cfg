\* a nominal size of 4, a table of up to 8 slots; several hashes share a
\* home slot at every table size
SPECIFICATION Spec
CONSTANTS
  MAX_THETA = 31
  MIN_LG_K = 1
  LgNom = 2
  RF = 1
  StartTheta = 31
  Twice = {17}
  Hashes = {0, 1, 2, 3, 9, 11, 17, 19, 25}
INVARIANTS
  TableWellFormed
PROPERTY
  ImplementsSample
