SPECIFICATION FiltersSpec
CONSTANTS
  Cases <- AllCases
  BufferSize = 2
  CountMax = 3
  FailuresMax = 1
  Idle = Idle
  Radix = 3
  ByteBase = 5
  BlockSize = 3
  EodMarker = 2
INVARIANTS DeliversPrefix
PROPERTIES DeliversContents EveryEndIsReached NothingReadBehindMarker
