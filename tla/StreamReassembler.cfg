CONSTANTS
    Mod = 8
    Lim = 64
    Capacity = 3
    StreamLen = 6
SPECIFICATION FairSpec
INVARIANTS
    TypeOK
    OutputIsPrefix
    StoredSound
    EndsExactly
    LoopsAgree
    NextByteAccepted
PROPERTY
    StreamCompletes
CHECK_DEADLOCK FALSE
