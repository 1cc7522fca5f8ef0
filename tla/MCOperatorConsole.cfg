CONSTANTS
  Chat <- MCChat
  Scenarios <- MCScenarios
SPECIFICATION Spec
INVARIANTS TypeOK TradedIsPolled OneWriterWins
PROPERTIES  Settles
