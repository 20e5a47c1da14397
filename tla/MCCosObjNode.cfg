CONSTANTS
    NodeIds = {1, 2, 3}
    Null = Null
    Freed = Freed
    MaxParts = 2
    MaxHeld = 3
    ClientKeepsDict = FALSE
SPECIFICATION Spec
INVARIANTS RefsExact NoUseAfterFree OnlyCyclesLeak
PROPERTY ReleaseReturns
CHECK_DEADLOCK FALSE
