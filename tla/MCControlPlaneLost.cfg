SPECIFICATION FairSpec
CONSTANTS
  MaxRuns = 1
  MaxClicks = 1
  MaxSignals = 0
  Crashes = FALSE
  IpcWorks = FALSE
CHECK_DEADLOCK FALSE
PROPERTIES
  Contained
