CONSTANTS
    Slots = {s1}
    SelectTimeout = 2
    Settings = {0, 3}
    MaxTime = 8
SPECIFICATION Spec
CHECK_DEADLOCK FALSE
PROPERTY
    IdleSinceLastRead
