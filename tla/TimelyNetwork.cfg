CONSTANTS
    Mod = 16
    Lim = 256
    MaxPayload = 1
    RtTimeout = 1
    MaxRetx = 3
    LingerFactor = 2
    WinMod = 2
    Opener = "opener"
    Listener = "listener"
    Isn <- MCIsn
    StreamLen <- OneWay
    SendCapacity = 2
    RecvCapacity = 2
    Ticks = {1}
    MaxInFlight = 8
    MaxFaults = 1
    MaxDrift = 1
SPECIFICATION TimelySpec
PROPERTIES DeliversAndCloses StatesAdvance
