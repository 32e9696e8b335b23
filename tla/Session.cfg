SPECIFICATION MCSpec
CONSTANTS
  Tokens = {t1, t2}
  Contracts = {m1, m2}
  Alien = Alien
  Authorities = {a1, a2}
  Unsafe = Unsafe
  None = None
  InputLimit = 0
  ReadyLimit = 1
  MaxChanges = 2
CHECK_DEADLOCK FALSE
INVARIANTS
  EpisodeIsContinuous
  ChannelIsTrusted
  ClaimsAreBacked
PROPERTIES
  RenewalIsTokenOnly
  ExpiryIsDeserved
  SessionFollowsFiles
  StopsWhenAsked
