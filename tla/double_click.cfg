SPECIFICATION AdmissionSpec
CONSTANTS
    Orders <- TwoOrders
    Tickers <- OneTicker
    TickerOf <- SameTicker
    RateMax = 2
    RateTtl = 3
    LockTtl = 2
    Overlap = TRUE
INVARIANTS
    OneHolder
