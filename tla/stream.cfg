SPECIFICATION FairSpec
CONSTANTS
    Conns <- MCConns
    MaxConn = 2
    MaxElapsed = 2
    MaxLost = 1
    Followed <- MCFollowed
    Ttl = 2
    RefreshEvery = 1
INVARIANTS
    SlotsAccounted
    NoForgottenStream
    MapInTime
PROPERTIES
    SilentSoon
    StreamEnds
