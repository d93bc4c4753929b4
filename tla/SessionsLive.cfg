CONSTANTS
    Slots = {s1, s2}
    NoSlot = NoSlot
    MaxAddrs = 1
    MaxConnections = 0
    MaxPool = 1
SPECIFICATION FairSpec
PROPERTIES
    Settles
