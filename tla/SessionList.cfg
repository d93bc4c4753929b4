CONSTANTS
    Slots = {s1, s2, s3, s4}
    Null = Null
SPECIFICATION Spec
INVARIANT
    ListExact
PROPERTY
    EveryoneVisited
