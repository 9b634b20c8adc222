SPECIFICATION CandlesSpec
CONSTANTS
  DelayGap = 0
  StaleGap = 1
  DownGap = 2
  GuardGap = 2
  ResetGap = 3
  SpikePct = 60
  Frames = {2, 3}
  MaxMinutes = 9
  MaxFrames <- DequeSizes
  UnitsPerMinute = 1
  Horizon = 3
  MaxTicks = 3
  MaxQueue = 1
  MaxRuns = 2
  Quotes <- SomeQuotes
  Timeouts = TRUE
  TradingDays = {1, 3}
  Ranges <- TwoRanges
  Answers <- SomeAnswers
  Expected = 375
  MinRequired = 187
  GapLimit = 10
  Downloads = 3
INVARIANTS
  MinutesFollowTicks
  HigherFollowsTicks
  ArchiveIsWhole
  CheckpointIsFiled
PROPERTIES
  UsableIsKept
CHECK_DEADLOCK FALSE
