CONSTANTS
    Slots = {s1, s2, s3}
    NoSlot = NoSlot
    MaxAddrs = 2
    MaxConnections = 2
    MaxPool = 1
SPECIFICATION Spec
SYMMETRY Symmetry
INVARIANTS
    TypeOK
    ReferencesExact
    NeverAborts
    WakeUp
    LogDiscipline
    OriginCountedOnce
    AuthFirst
    ActiveExact
