SPECIFICATION Spec
CONSTANTS
  MaxStarts = 2
  Threshold = 3
  Interval = 2
  Slack = 1
  Reopen = 2
  Page = 1
INVARIANTS
  AlarmIsFounded
CHECK_DEADLOCK FALSE
