CONSTANTS
    Nums = {0, 1, 15}
    Offsets <- MCOffsets
    Files <- MCCyclicFiles
    None = None
    UnsignedRange = 16
    Tens = {10}
    MaxParses = 1
    MaxSections = 3
    MaxFailures = 0
    StreamMayFail = FALSE
SPECIFICATION Spec
PROPERTY ParseReturns
CHECK_DEADLOCK FALSE
