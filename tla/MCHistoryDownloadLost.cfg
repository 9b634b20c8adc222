SPECIFICATION Spec
CONSTANTS
  TradingDays = {1}
  Ranges <- OneDay
  Answers <- SomeAnswers
  Expected = 375
  MinRequired = 187
  GapLimit = 10
  Downloads = 3
PROPERTIES
  GoodIsKept
CHECK_DEADLOCK FALSE
