SPECIFICATION Spec
CONSTANTS
  NoId = NoId
  None = None
  RecentLimit = 4
  Ids = {e1}
  Commands = {c1, c2}
  Versions = {v1, v2}
  Resend = 1
  ResetRefresh = 1
  LeaseRefresh = 2
  ResetWindow = 1
  Lags = {0}
  GatewayStates = {"CLEARED"}
  MaxSeq = 4
  MaxRestarts = 1
  MaxFaults = 1
CHECK_DEADLOCK FALSE
INVARIANTS
  DocumentsAreSound
  ClearedIsConfirmed
  OneResultPerCommand
PROPERTIES
  SequenceNeverRollsBack
  ResetResolves
