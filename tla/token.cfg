SPECIFICATION FairSpec
CONSTANTS
    Callers = {c1, c2}
    MaxIssued = 2
INVARIANTS
    OneIssuer
    ColdStartOnce
PROPERTIES
    HandsOutValid
    DroppedStaysOut
    EveryCallEnds
