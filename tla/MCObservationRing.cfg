SPECIFICATION RingSpec
CONSTANTS
  OBSERVATION_NUM = 3
  OBSERVATION_UPDATE_DURATION_DEFAULT = 3
  CumulativeModulus = 11
  Prices <- TwoPrices
  MAX_TIME = 12
INVARIANTS
  EverySecondCounted
  RingReachesBack
CHECK_DEADLOCK FALSE
