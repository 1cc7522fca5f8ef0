CONSTANTS
  WORKERS = 3
  EXEC_CAP = 2
SPECIFICATION FairSpec
INVARIANT ActorCanRun
