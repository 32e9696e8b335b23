SPECIFICATION Spec
CONSTANTS
  MaxLife = 3
  RenewMargin = 1
  Delays = {1, 2}
  MaxSessions = 2
  JumpSize = 2
  MaxJumps = 2
  MaxRestarts = 2
  None = None
CHECK_DEADLOCK FALSE
INVARIANTS
  EndIsClean
  DenialIsFinal
PROPERTIES
  LeaseIsKept
  RequestsGoOn
