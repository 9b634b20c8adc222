SPECIFICATION FeedSpec
CONSTANTS
  DelayGap = 0
  StaleGap = 1
  DownGap = 2
  Confirmations = 2
  SafeDown = 1
  SafeChecks = 2
  Bonuses <- SomeBonuses
  Days = 1
  MaxRetries = 1
  QueueMax = 1
  MaxCalls = 1
  MaxTroubles = 1
  MaxSilences = 2
PROPERTIES
  WorsensOnlyConfirmed
  SilenceIsPublished
  RecoveryIsPublished
  Reconnects
  SilenceIsEnded
CHECK_DEADLOCK FALSE
