SPECIFICATION MCSpec
CONSTANTS
  Tokens = {t1, t2}
  Contracts = {m1}
  Alien = Alien
  Authorities = {a1}
  Unsafe = Unsafe
  None = None
  InputLimit = 0
  ReadyLimit = 0
  MaxChanges = 2
CHECK_DEADLOCK FALSE
PROPERTIES
  RestorationNeverRenews
