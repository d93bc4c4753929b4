CONSTANTS
    Slots = {s1, s2}
    Admins = {a1, a2}
    MaxSignals = 3
SPECIFICATION Spec
CHECK_DEADLOCK FALSE
INVARIANTS
    NoUseAfterFree
    AllReleased
    LeftAtExit
PROPERTIES
    SecondSignalEnds
    DrainEnds
