CONSTANTS
    Mod = 32
    Lim = 1024
    MaxPayload = 1
    RtTimeout = 1
    MaxRetx = 1
    LingerFactor = 2
    WinMod = 16
    Opener = "opener"
    Listener = "listener"
    Isn <- MCIsn
    StreamLen <- OneWayLong
    SendCapacity = 4
    RecvCapacity = 2
    Ticks = {1}
    MaxInFlight = 3
    MaxFaults = 0
SPECIFICATION Spec
INVARIANT WindowRespected
CHECK_DEADLOCK FALSE
