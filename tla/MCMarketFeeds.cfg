CONSTANTS
  Scenarios <- MCScenarios
  DEPTH = 2
  CAPACITY = 2
  CAP = 3
  TARGET = 2
  BIGGEST = 2
  LastMs = 3
SPECIFICATION Spec
INVARIANTS TypeOK QuoteIsNoBetter HistoryIsLatest CapKept
PROPERTIES Recovers
CHECK_DEADLOCK FALSE
