SPECIFICATION TradingSpec
CONSTANTS
  StepInputs <- DayInputs
  Seeds <- BootSeed
  Overnight = FALSE
  Operator = TRUE
  MaxLosses = 1
  Minute = 1
  DwellC2A = 2
  DwellS2C = 1
  ProbeInterval = 1
  BoostWindow = 1
  LossCooldown = 1
  VetoBurst = 2
  VetoWindow = 1
  VetoSafe = 2
  ProbeFailSafe = 2
  TradeCap = 2
  RelaxGrace = 2
  RelaxEvery = 1
  QuietCap = 0
  MaxProbes = 1
  Ids = {p}
  Entries <- AllEntries
  Updates <- AllUpdates
  CloseAt = {0, 95, 140}
  MaxAdds = 2
  Symbols = {ce}
  Prices <- TwoPrices
  Triggers <- OneTrigger
  Quantities = {1, 2}
  MaxOrders = 3
  Limit = 2
  Window = 2
  Skews <- Stepped
  Forward = FALSE
  Ips = {home, cafe}
  NoIp = none
  MaxTime = 5
INVARIANTS
  EmittedWithinCap
  OneProbePerGrant
  ClimbTakesTime
  NoTradeBeforeWindow
  NetIsFills
  BooksBalance
  NoLimitMissed
  RateHeld
PROPERTIES
  ForcedNeverShortened
  TradesFindBrakesReleased
  StopNeverBackward
  SwitchIsChecked
