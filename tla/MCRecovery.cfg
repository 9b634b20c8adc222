SPECIFICATION RecoverySpec
CONSTANTS
  Legs = {ce, pe}
  Prices <- SomePrices
  FailLimit = 2
  Rest = 2
  Workers = 1
  FreshTurns = 2
INVARIANTS
  ChangesShareBase
  BreakerRests
PROPERTIES
  PollEnds
  ChainIsBack
  Recovers
CHECK_DEADLOCK FALSE
