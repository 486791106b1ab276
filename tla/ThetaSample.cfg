SPECIFICATION Spec
CONSTANTS
  Hashes = {0, 1, 2, 3, 4, 5, 6}
  Values <- TwoValues
  create = {}
  policy_update <- SetOfValues
  StartTheta = 6
  Nominal = 2
INVARIANTS
  TypeOK
  SampleInv
  NominalInv
PROPERTY
  ThetaNeverRises
