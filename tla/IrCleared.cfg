SPECIFICATION IrSpec
CONSTANTS
    KeySets <- SomeKeySets
    WrittenSlots <- SomeSlots
    MaxCodes = 3
    MaxIrWrites = 1
    MaxTimers = 2
    MaxIrStarts = 1
INVARIANT
    ClearedStayCleared
CHECK_DEADLOCK FALSE
