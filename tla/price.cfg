SPECIFICATION FairFlightSpec
CONSTANTS
    Callers = {c1, c2, c3}
    PollTtl = 2
    LockTtl = 2
    EntryTtl = 3
    FetchMax = 3
INVARIANTS
    OneAtATime
    FreshEnough
PROPERTIES
    EveryCallEnds
