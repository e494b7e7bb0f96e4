CONSTANTS
    Mod = 16
    Lim = 256
    MaxPayload = 2
    RtTimeout = 2
    Isn = 13
    SendCapacity = 3
    StreamLen = 4
    Windows = {0, 1, 2, 4}
    Ticks = {1, 2}
    MaxRetx = 1
SPECIFICATION Spec
INVARIANTS
    TypeOK
    QueueTilesFlight
    TimerArmed
    SequenceSpaceKept
    InFlightExact
    BackoffDoubles
    LoopsAgree
