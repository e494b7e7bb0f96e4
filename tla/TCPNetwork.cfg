CONSTANTS
    Mod = 16
    Lim = 256
    MaxPayload = 1
    RtTimeout = 1
    MaxRetx = 1
    LingerFactor = 2
    WinMod = 16
    Opener = "opener"
    Listener = "listener"
    Isn <- MCIsn
    StreamLen <- OneWay
    SendCapacity = 2
    RecvCapacity = 2
    Ticks = {1}
    MaxInFlight = 3
    MaxFaults = 1
SPECIFICATION Spec
INVARIANTS
    TypeOK
    AckedIsReceived
    SomebodyLingers
    CleanCloseIsComplete
PROPERTY ImplementsStreams
CHECK_DEADLOCK FALSE
