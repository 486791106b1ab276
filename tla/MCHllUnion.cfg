SPECIFICATION HllSpec
CONSTANTS
  KEY_BITS = 4
  LG_AUX = 1
  LG_INIT_LIST_SIZE = 1
  LG_INIT_SET_SIZE = 2
  LG_MIN_SET_K = 3
  LG_SET_GAP = 1
  KXQ_SPLIT = 17
  MAX_VALUE = 18
  LgKs = {2, 3, 4}
  Types = {"HLL_4", "HLL_6", "HLL_8"}
  Full = {FALSE, TRUE}
  InputCoupons <- const_InputCoupons
  LgMaxK = 3
  Inputs <- const_Inputs
  Data <- const_Data
INVARIANTS
  NeverThrows
  ContentExact
  RegistersExact
  RoundTrip
  UnionExact
  ResultExact
