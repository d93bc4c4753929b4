CONSTANTS
    Slots = {s1}
    SelectTimeout = 2
    Settings = {0, 1, 3}
    MaxTime = 6
SPECIFICATION Spec
CHECK_DEADLOCK FALSE
INVARIANTS
    NeverLate
PROPERTY
    NeverEarly
