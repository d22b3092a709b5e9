SPECIFICATION FairBoundedSpec
CONSTANTS
  OBSERVATION_NUM = 1
  OBSERVATION_UPDATE_DURATION_DEFAULT = 1
  CumulativeModulus = 1
  DecimalsShift = 0
  U128_MAX = 1999
  U64_MAX = 14
  LOCK_LP_AMOUNT = 2
  Q32 = 1
  Admin = bot_1
  Keys = {bot_1}
  MAX_TIME = 1
  TransferFeeOf <- NoTransferFee
  InitAmounts <- Small
  LpAmounts = {}
  SwapAmounts = {}
  FeeAmounts = {}
  GiftAmounts = {}
  Limits = {0}
  PoolArgs <- OnePool
  Quotes <- None
  Configs <- LowFee
  Rates = {5000}
  Statuses <- None
  I64_MAX = 200000
  U64_RANGE = 1000000
  Bots = {bot_1}
  Prices <- OnePrice
  FEED_ID = 1
  MAX_PRICES = 1
  MAX_INFLIGHT = 2
  MAX_CRASHES = 1
PROPERTIES
  FeeFollowsConfig
CHECK_DEADLOCK FALSE
