SPECIFICATION Spec
CONSTANTS
  MIN_LG_ARR_ITEMS = 1
  Raw = Raw
  Moved = Moved
  Configs <- MCConfigs
  Weights = {1, 2, 7}
  Sources <- MCSources
  MaxOffered = 5
  MaxLater = 1
  MaxRenewals = 2
  MaxMerges = 3
INVARIANTS StructureExact WeightConserved ChoiceUnbiased OuterTauExact RoundTrip
CHECK_DEADLOCK FALSE
