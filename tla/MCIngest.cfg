SPECIFICATION IngestSpec
CONSTANTS
  MaxRetries = 1
  QueueMax = 1
  MaxCalls = 3
  MaxTroubles = 1
  MaxSilences = 1
  MaxTicks = 4
  TickCap = 1
  CleanCap = 2
  BatchSize = 2
  Threshold = 2
  HistoryLimit = 2
  RawStarts = 1
  CleanStarts = 1
  MaxStops = 0
  WritesFail = FALSE
  Threads = {feed, poller}
  MaxAttempts = 2
  MaxSessions = 3
  SessionCalls = 4
INVARIANTS
  QueueIsFresh
  NothingAfterShutdown
  RawKept
  NoRepeat
  NoLockCycle
PROPERTIES
  NoSessionWasted
CHECK_DEADLOCK FALSE
