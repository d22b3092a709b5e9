SPECIFICATION BoundedClientSpec
CONSTANTS
  OBSERVATION_NUM = 1
  OBSERVATION_UPDATE_DURATION_DEFAULT = 2
  CumulativeModulus = 1
  DecimalsShift = 0
  U128_MAX = 19999
  U64_MAX = 2000
  LOCK_LP_AMOUNT = 2
  Q32 = 1
  Admin = admin
  Keys = {admin}
  MAX_TIME = 2
  TransferFeeOf <- OneTransferFee
  InitAmounts <- Opening
  LpAmounts = {}
  SwapAmounts = {90}
  FeeAmounts = {}
  GiftAmounts = {}
  Limits = {0, 2000}
  PoolArgs <- Pools
  Quotes <- TwoQuotes
  Configs <- SomeFees
  Rates <- None
  Statuses <- None
  SLIPPAGE <- Tenth
  EPOCH = 20
  LpOrders = {50}
  SwapOrders = {50}
INVARIANTS
  DepositLimitAllowsFee
CHECK_DEADLOCK FALSE
