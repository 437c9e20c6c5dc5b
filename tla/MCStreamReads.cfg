SPECIFICATION Spec
CONSTANTS
  MaxIntermediate = 1
  MaxParams = 2
  MaxParam = 11
  IdxWrap = 3
  CpBuf = 8
  Pieces <- MCPieces
  VtBytes = {7, 24, 27, 32, 49, 58, 59, 63, 80, 91, 93, 95, 109, 155, 156, 160}
  VtReach = 2
  FeedBytes = {7, 27, 49, 80, 91, 93, 95, 155, 195, 225, 240}
  FeedReach = 2
  MaxBytes = 4
  NoTracker = NoTracker
INVARIANTS TypeOK ReadsAreBytewise FastPathsMatch ContinuationReplays
