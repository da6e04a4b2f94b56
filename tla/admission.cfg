SPECIFICATION AdmissionSpec
CONSTANTS
    Orders <- FourOrders
    Tickers <- TwoTickers
    TickerOf <- Mixed
    RateMax = 2
    RateTtl = 3
    LockTtl = 2
    Overlap = FALSE
INVARIANTS
    WindowLimit
PROPERTIES
    RefusalIsRecent
