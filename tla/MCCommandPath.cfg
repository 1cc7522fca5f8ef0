CONSTANTS
  Field <- MCField
  User <- MCUser
  CAP = 1
  Kinds <- MCKinds
  MAX_COMMANDS = 3
  MAX_FAULTS = 2
SPECIFICATION Spec
INVARIANTS TypeOK DeafAfterCut AcceptedIsKept ListenerFollows
PROPERTIES ImplementsLog UndoneIsRedone HeardIsHandled
CHECK_DEADLOCK FALSE
