CONSTANTS
  WORKERS = 4
  EXEC_CAP = 2
SPECIFICATION FairSpec
INVARIANTS TypeOK NoCircularWait ActorCanRun
PROPERTY AggregatorReturns
