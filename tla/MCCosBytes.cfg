SPECIFICATION BytesSpec
CONSTANTS
  Kinds = {"memory", "readonly", "file", "pipe"}
  Sizes = {0, 2, 3}
  Capacity = 2
  Reach = 1
  Names = {a, b}
  CStrings <- Texts
  StringHints = {0, 1, 3}
  DefaultCapacity = 2
  StringMax = 6
  HashSeed = 5
  HashFactor = 3
  HashSpace = 16
  ExclusiveOr <- BitXor
  NoString = NoString
  Pieces <- BytePieces
  DataMax = 3
  Buffers = {b1, b2, b3}
  Junk = Junk
  NoData = NoData
  NoRef = NoRef
SYMMETRY Symmetry
INVARIANTS StringsSound ReadsStayValid
PROPERTIES HoldWhatWasAppended CursorSpec
