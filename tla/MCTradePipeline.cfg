CONSTANTS
  SLIPPAGE = 1
  TOP = 5
  RoundTrip <- MCRoundTrip
  STALE = 1
  TARGET = 1000
  FUNDING_SLOTS = 9
  EXEC_SLIPPAGE = 3
  Exchange <- MCExchange
  Polled <- MCPolled
  OwnClock <- MCOwnClock
  AHEAD = 1
  Book <- MCBook
  Worths <- MCWorths
  FirstWorth <- MCFirstWorth
  PublicReply <- MCPublicReply
  PrivateReply <- MCPrivateReply
  Config <- MCConfig
  MAX_NET = 1500
  MIN_PROFIT = 2
  SHARE = 10
  AGE = 1
  FEED_CAP = 1
  EXEC_CAP = 1
  MAX_TIME = 3
  MAX_QUOTES = 3
  MAX_CHANGES = 2
SPECIFICATION Spec
INVARIANTS TypeOK QuoteAgeBound FilledWithinSlippage LockedFactsHold LegsBalanced ChecksOfThisDetection
PROPERTY MissedOnlyForStale
CHECK_DEADLOCK FALSE
