CONSTANTS
  binance = binance
  gate = gate
  Exchange <- MCExchange
  Limited <- MCLimited
  Kind <- MCKind
  Cap <- MCCap
  Rate <- MCRate
  Weight <- MCWeight
  MaxTime = 4
  SECOND = 3
SPECIFICATION Spec
INVARIANT CapPerSecond
CHECK_DEADLOCK FALSE
