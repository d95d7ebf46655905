SPECIFICATION LoopSpec
CONSTANTS
    MaxRows = 4
    Sizes = {0, 1, 3, 4}
    Budget = 3
    DefaultLimit = 2
    MaxLimit = 3
INVARIANTS
    PageIsExact
CHECK_DEADLOCK FALSE
