CONSTANTS
    s1 = s1
    s2 = s2
    Text <- Words
    Kept <- MCKept
    UsersMax = 2
    Sessions = {s1, s2}
    Requests <- Commands
    MaxRequests = 4
    LineSize = 6
    InSize = 3
    OutLen = 2
    Secret = "key"
    Values = {"0", "9"}
    Tables <- MCTables
    Scenes <- MCScenes
    CommandSize = 6
SPECIFICATION CSpec
CHECK_DEADLOCK FALSE
PROPERTY
    OnlyItsOwnPeer
