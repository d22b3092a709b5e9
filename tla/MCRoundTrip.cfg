SPECIFICATION BoundedSpec
CONSTANTS
  OBSERVATION_NUM = 1
  OBSERVATION_UPDATE_DURATION_DEFAULT = 2
  CumulativeModulus = 1
  DecimalsShift = 0
  U128_MAX = 40000
  U64_MAX = 1070
  LOCK_LP_AMOUNT = 2
  Q32 = 1
  Admin = admin
  Keys = {admin}
  MAX_TIME = 2
  TransferFeeOf <- NoTransferFee
  InitAmounts <- Amounts
  LpAmounts = {}
  SwapAmounts = {3, 8, 20, 31}
  FeeAmounts = {}
  GiftAmounts = {}
  Limits = {0, 1070}
  PoolArgs <- Pools
  Quotes <- AllQuotes
  Configs <- NoFees
  Rates <- None
  Statuses <- None
INVARIANTS
  RoundTripCosts
PROPERTIES
  QuoteNeverBeaten
CHECK_DEADLOCK FALSE
