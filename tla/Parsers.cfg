CONSTANTS
    Streams <- MCStreams
    Accounts <- MCAccounts
    BufferSize = 10
SPECIFICATION Spec
CHECK_DEADLOCK FALSE
INVARIANTS
    Decoded
    RefusedExactly
    NothingLeftWaiting
