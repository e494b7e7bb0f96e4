CONSTANTS
    Mod = 8
    Lim = 64
    Capacity = 3
    StreamLen = 5
SPECIFICATION Spec
INVARIANT WithinCapacity
CHECK_DEADLOCK FALSE
