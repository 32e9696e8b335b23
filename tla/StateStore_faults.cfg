SPECIFICATION Spec
CONSTANTS
  s0 = s0
  s1 = s1
  s2 = s2
  b1 = b1
  b2 = b2
  None = None
  States = {s0, s1}
  InitStates = {s0}
  Keys = {1, 2}
  Bytes = {b1, b2}
  Size <- MCSize
  Capacity = 2
  ByteCapacity = 3
  MaxBatch = 1
  MaxFaults = 1
INVARIANTS
  CommittedStateSurvives
  ChecksumCovered
