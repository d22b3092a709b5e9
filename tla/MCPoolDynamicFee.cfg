SPECIFICATION Spec
CONSTANTS
  OBSERVATION_NUM = 2
  OBSERVATION_UPDATE_DURATION_DEFAULT = 2
  CumulativeModulus = 16
  DecimalsShift = 0
  U128_MAX = 99
  U64_MAX = 14
  LOCK_LP_AMOUNT = 2
  Q32 = 1
  Admin = admin
  Keys = {admin}
  MAX_TIME = 2
  TransferFeeOf <- NoTransferFee
  InitAmounts <- Small
  LpAmounts = {}
  SwapAmounts = {4}
  FeeAmounts = {}
  GiftAmounts = {}
  Limits = {0, 14}
  PoolArgs <- PlainPools
  Quotes <- CostlyQuotes
  Configs <- HighFees
  Rates <- None
  Statuses <- None
INVARIANTS
  InputFeeBelowOne
CHECK_DEADLOCK FALSE
