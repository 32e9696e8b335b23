SPECIFICATION ASpec
CONSTANTS
  NoId = NoId
  RecentLimit = 2
  Ids = {e1, e2, e3, e4}
  Levels = {0, 3000, 10000}
  Samples = {19, 20}
  MaxEpisodes = 6
  MaxNesting = 1
  MaxTokens = 9
  ByteSet = {8, 31, 34, 65, 92, 127, 128, 143, 144, 159, 160, 191, 193, 194, 224, 237, 240, 244, 245}
  MaxBytes = 4
  Units = {10, 127, 128, 2047, 2048, 55295, 55296, 56319, 56320, 57343, 57344, 65535}
  MaxUnits = 3
  MaxBody = 3
  MaxRetryAfter = 1
  Signals = {s1, s2}
  Window = 1
  MaxUpdates = 3
  Epochs = {1, 2}
  Walls = {1, 2, 3}
  None = None
  Contents = {x, y}
  Bound = 2
  MaxInteger = 3
  EmitGap = 1
  RepeatGap = 2
  MaxStops = 1
INVARIANTS
  BandFollowsHistory
  ParserAgreesWithGrammar
  StringsRoundTrip
  ResponseIsWhole
  FramesAreInstants
  PostedStaysPending
  IdentityNamesOneMessage
PROPERTY FirstPostsInOrder
CHECK_DEADLOCK FALSE
