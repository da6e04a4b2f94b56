SPECIFICATION FairSpec
CONSTANTS
    Callers = {c1, c2, c3}
    Grain = 2
    Burst = 1
    Slots = 2
    Retries = 1
    NetworkRetries = 1
    Drain = 2
INVARIANTS
    NoStaircase
    TwiceTheRate
PROPERTIES
    EveryCallEnds
