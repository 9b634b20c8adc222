SPECIFICATION FairSpec
CONSTANTS
  Kinds = {hot}
  MaxRuns = 2
  MaxSeq = 2
  MaxWire = 4
  MaxFaults = 0
PROPERTIES
  SentIsShown
CHECK_DEADLOCK FALSE
