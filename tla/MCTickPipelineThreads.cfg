SPECIFICATION FairSpec
CONSTANTS
  Prints <- OnePrint
  MaxTicks = 3
  TickCap = 2
  CleanCap = 1
  BatchSize = 2
  Threshold = 2
  HistoryLimit = 1
  RawStarts = 2
  CleanStarts = 2
  MaxStops = 1
  WritesFail = TRUE
CHECK_DEADLOCK FALSE
PROPERTIES
  Moves
  Delivers
