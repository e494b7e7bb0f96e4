CONSTANTS
    Mod = 16
    Lim = 256
    MaxPayload = 1
    RtTimeout = 1
    MaxRetx = 1
    LingerFactor = 2
    WinMod = 16
    Opener = "opener"
    Listener = "listener"
    Isn <- MCIsn
    StreamLen <- OneWay
    SendCapacity = 2
    RecvCapacity = 1
    Ticks = {1}
    MaxInFlight = 2
    MaxFaults = 1
SPECIFICATION Spec
INVARIANT NoLingerPeerKnows
CHECK_DEADLOCK FALSE
