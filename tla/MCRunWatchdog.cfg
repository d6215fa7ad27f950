CONSTANTS
    a = a
    b = b
    Tools <- MCTools
    IdleMs = 2
    MaxMs = 4
    Horizon = 10
SPECIFICATION Spec
CHECK_DEADLOCK FALSE
INVARIANTS
    TypeOK
    SilenceBounded
    WallClockSound
