CONSTANTS
    Mod = 8
    Lim = 64
SPECIFICATION Spec
INVARIANTS
    TracksPosition
    UnwrapClosest
