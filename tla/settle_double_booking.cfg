\* Every order may end filled, cancelled or failed, and then nothing is left to do.
SPECIFICATION Spec
CONSTANTS
    Orders <- OneBuyOrders
    Tickers <- OneTicker
    TickerOf <- OneBuyTickerOf
    SideOf <- OneBuySideOf
    Qty <- OneBuyQty
    Reported <- OneBuyOrders
    KisOpening <- NoShare
    DbOpening <- NoShare
    Settlers = {job, manual}
    Syncs <- NoSession
    Overlap = TRUE
    OtherAccounts = FALSE
    Overnight = FALSE
INVARIANTS
    NeverOverbooked
CHECK_DEADLOCK FALSE
