SPECIFICATION DashboardSpec
CONSTANTS
  MaxRuns = 2
  MaxClicks = 1
  MaxSignals = 2
  Crashes = TRUE
  IpcWorks = TRUE
  MaxStarts = 2
  Threshold = 3
  Interval = 3
  Slack = 2
  Reopen = 2
  Page = 4096
  Kinds = {hot, cold}
  MaxSeq = 2
  MaxWire = 4
  MaxFaults = 1
INVARIANTS
  StopsOnce
  AlarmIsExplained
PROPERTIES
  StopHonoured
  TroubleIsShown
  FreshIsNotLost
CHECK_DEADLOCK FALSE
