CONSTANTS
  binance = binance
  gate = gate
  Exchange <- MCExchange
  Limited <- MCLimited
  Kind <- MCKind
  Cap <- MCCap
  Rate <- MCRate
  Weight <- MCWeight
  MaxTime = 4
  SECOND = 3
SPECIFICATION Spec
INVARIANTS TypeOK WindowBound WindowTight
PROPERTY ImplementsWindow
CHECK_DEADLOCK FALSE
