CONSTANTS
    Slots = {s1, s2, s3}
    NoSlot = NoSlot
    OsMax = 4
    ItemsMax = 5
SPECIFICATION Spec
SYMMETRY Symmetry
INVARIANT
    SuccessIsReal
