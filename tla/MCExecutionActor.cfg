CONSTANTS
  btc = btc
  binance = binance
  hyper = hyper
  Symbol <- MCSymbol
  Exchange <- MCExchange
  Limited <- MCLimited
  OrderCap = 1
  OrderRate = 1
  Gain = {3}
  Qty <- MCQty
  MAX_OPP_AGE_MS = 2
  EXEC_DEDUP_MS = 2
  MAX_CONCURRENT_TRADES = 3
  DAILY_PNL_LIMIT_USDT <- MCPnlLimit
  EVICT_FACTOR = 1
  MAX_LOG = 1
  LOG_CUT = 1
  DayLength = 3
  ReversalCost = 1
  QueueCap = 1
  TimeSteps = {1}
  MaxTime = 3
  MaxOffers = 2
  MaxCrashes = 1
SPECIFICATION FairSpec
INVARIANTS TypeOK ExposureExplained PnlOfTheDay AtMostOneLateStart
PROPERTIES DedupSpacing QueueDrainsIfAnswered
CHECK_DEADLOCK FALSE
