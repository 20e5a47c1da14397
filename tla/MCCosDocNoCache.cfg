CONSTANTS
    a = a
    b = b
    c = c
    Nums = {0, 1, 2}
    Gens = {0, 1}
    Offsets <- MCOffsets
    Files <- MCFiles
    NodeIds <- MCNodeIds
    Null = Null
    None = None
    Freed = Freed
    MaxHeld = 3
    MaxLoads = 2
    CacheMayFail = TRUE
SPECIFICATION Spec
CHECK_DEADLOCK FALSE
INVARIANTS RefsExact
