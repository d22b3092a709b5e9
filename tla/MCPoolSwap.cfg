SPECIFICATION SwapSpec
CONSTANTS
  OBSERVATION_NUM = 2
  OBSERVATION_UPDATE_DURATION_DEFAULT = 2
  CumulativeModulus = 16
  DecimalsShift = 0
  U128_MAX = 99
  U64_MAX = 13
  LOCK_LP_AMOUNT = 2
  Q32 = 1
  Admin = admin
  Keys = {admin, keeper}
  MAX_TIME = 3
  TransferFeeOf <- NoTransferFee
  InitAmounts <- Small
  LpAmounts = {}
  SwapAmounts = {2, 5}
  FeeAmounts = {3}
  GiftAmounts = {}
  Limits = {0, 13}
  PoolArgs <- SomePools
  Quotes <- SomeQuotes
  Configs <- HighFees
  Rates <- AdminRates
  Statuses <- SwapStopped
INVARIANTS
  TypeOK
  ReservesLeft
  CreatorFeesWhereAgreed
  RatesBounded
PROPERTIES
  QuoteNeverBeaten
  ImplementsFund
  ImplementsObserved
CHECK_DEADLOCK FALSE
