CONSTANTS
    Nums = {0, 1, 15}
    Offsets <- MCOffsets
    Files <- MCPartialFiles
    None = None
    UnsignedRange = 16
    Tens = {10}
    MaxParses = 1
    MaxSections = 4
    MaxFailures = 0
    StreamMayFail = FALSE
SPECIFICATION Spec
INVARIANT NoPrevLeft
CHECK_DEADLOCK FALSE
