SPECIFICATION MCSpec
CONSTANTS
  None = None
  MaxGap = 2
  Activation = 3
  Clearance = 4
  MaxDuration = 9
  SampleGap = 2
  MaxSamples = 4
  Spacing = 1
  RetryWait = 2
  Heartbeat = 4
  Unset = Unset
  Nobody = Nobody
  Outbox = {1, 2}
  MaxExponent = 2
  MaxDelay = 3
  Factors = {80, 100, 120}
  RetryAfters = {0, 4}
  Period = 1
  StoragePause = 1
INVARIANTS
  CompleteIsCleared
  SnapshotIsValid
  ActivityFollowsEngine
  RetryAfterKept
  DeliveredIsStored
PROPERTIES
  StartIsEarned
  StaleReadyEnds
  EveryRecordSettles
CHECK_DEADLOCK FALSE
