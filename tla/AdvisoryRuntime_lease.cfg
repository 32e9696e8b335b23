SPECIFICATION Spec
CONSTANTS
  NoId = NoId
  None = None
  RecentLimit = 4
  Ids = {e1, e2, e3, e4}
  Commands = {}
  Versions = {v1}
  Resend = 1
  ResetRefresh = 1
  LeaseRefresh = 2
  ResetWindow = 2
  Lags = {0, 2}
  GatewayStates = {"APPLIED", "CLEARED"}
  MaxSeq = 4
  MaxRestarts = 1
  MaxFaults = 1
CHECK_DEADLOCK FALSE
SYMMETRY Symmetry
INVARIANTS
  SequenceNamesOneRequest
  RequestShowsBand
