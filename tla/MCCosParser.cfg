CONSTANTS
    Nums = {0, 1, 15}
    Offsets <- MCOffsets
    Files <- MCFiles
    None = None
    UnsignedRange = 16
    Tens = {10}
    MaxParses = 2
    MaxSections = 4
    MaxFailures = 2
    StreamMayFail = TRUE
SPECIFICATION Spec
INVARIANTS XrefAsWritten TrailerIsNewest RootInTrailer OneTrailer NewestWins
PROPERTY ParseReturns
CHECK_DEADLOCK FALSE
