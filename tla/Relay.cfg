CONSTANTS
    BufferSize = 3
    MaxBytes = 5
SPECIFICATION FairSpec
INVARIANTS
    Conservation
    ClosedAfterDrain
    NoStall
    NoSpin
PROPERTIES
    QuietAfterClose
    Finishes
    ImplementsTunnel
CHECK_DEADLOCK FALSE
