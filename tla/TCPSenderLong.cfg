CONSTANTS
    Mod = 6
    Lim = 216
    MaxPayload = 2
    RtTimeout = 2
    Isn = 2
    SendCapacity = 3
    StreamLen = 4
    Windows = {0, 1, 2}
    Ticks = {1, 2}
    MaxRetx = 1
SPECIFICATION Spec
INVARIANT InFlightExact
