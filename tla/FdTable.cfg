CONSTANTS
    Slots = {s1, s2, s3}
    NoSlot = NoSlot
    OsMax = 5
    ItemsMax = 5
SPECIFICATION Spec
SYMMETRY Symmetry
INVARIANTS
    FdsExact
    JobsReachAsker
    StaleOnlyConnecting
