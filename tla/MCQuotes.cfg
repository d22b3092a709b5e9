SPECIFICATION AllQuotesSpec
CONSTANTS
  DecimalsShift = 0
  U128_MAX = 40000
  MAX_AMOUNT = 40
  Cases <- SmallCases
  I64_MAX = 24000
  U64_RANGE = 1000000
  Starts <- SmallStarts
  Caches <- SmallCaches
  Confidences <- SmallConfidences
INVARIANTS
  ExactOutputPaysTheLeast
  TransferArrivesExactly
  EveryPriceQuoted
PROPERTIES
  WidensWithUncertainty
CHECK_DEADLOCK FALSE
