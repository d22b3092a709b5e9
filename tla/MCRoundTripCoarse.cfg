SPECIFICATION RoundTripSpec
CONSTANTS
  OBSERVATION_NUM = 1
  OBSERVATION_UPDATE_DURATION_DEFAULT = 2
  CumulativeModulus = 1
  DecimalsShift = 0
  U128_MAX = 40000
  U64_MAX = 4200
  LOCK_LP_AMOUNT = 2
  Q32 = 1
  Admin = admin
  Keys = {admin}
  MAX_TIME = 2
  TransferFeeOf <- NoTransferFee
  InitAmounts <- LargeAmounts
  LpAmounts = {}
  SwapAmounts = {123, 129}
  FeeAmounts = {}
  GiftAmounts = {}
  Limits = {0, 4200}
  PoolArgs <- MildPools
  Quotes <- CoarseQuotes
  Configs <- QuarterPercent
  Rates <- None
  Statuses <- None
INVARIANTS
  FeeCoveredRoundTripCosts
CHECK_DEADLOCK FALSE
