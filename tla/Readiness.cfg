SPECIFICATION PSpec
CONSTANTS
  Spacing = 1
  RetryWait = 2
  Heartbeat = 4
  Unset = Unset
INVARIANTS
  UncertainIsRetried
CHECK_DEADLOCK FALSE
