SPECIFICATION LiquiditySpec
CONSTANTS
  OBSERVATION_NUM = 1
  OBSERVATION_UPDATE_DURATION_DEFAULT = 2
  CumulativeModulus = 1
  DecimalsShift = 0
  U128_MAX = 99
  U64_MAX = 11
  LOCK_LP_AMOUNT = 2
  Q32 = 1
  Admin = admin
  Keys = {admin}
  MAX_TIME = 2
  TransferFeeOf <- SomeTransferFee
  InitAmounts <- Small
  LpAmounts = {1, 3}
  SwapAmounts = {5}
  FeeAmounts = {11}
  GiftAmounts = {3}
  Limits = {0, 11}
  PoolArgs <- PlainPools
  Quotes <- FarQuotes
  Configs <- SteepFees
  Rates <- None
  Statuses <- None
INVARIANTS
  LpSupplyCoversHolders
  ReservesLeft
PROPERTIES
  ValuePerShareNeverFalls
  ImplementsFund
CHECK_DEADLOCK FALSE
