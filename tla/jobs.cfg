SPECIFICATION FairSpec
CONSTANTS
    Cooldown = 1
    MaxEvents = 2
    FreshTtl = 1
    StaleTtl = 2
    Accounts = {a1, a2}
    Early = {a1}
    Ids <- MCIds
    none = none
    Threshold = 2
    Tickers <- MCTickers
    Timetables <- MCTimetables
INVARIANTS
    AlarmTrue
    FlagFollows
    RateInForce
PROPERTIES
    FilledInTheEnd
