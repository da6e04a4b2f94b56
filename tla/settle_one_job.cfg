SPECIFICATION FairSpec
CONSTANTS
    Orders <- Buy2Sell1Orders
    Tickers <- OneTicker
    TickerOf <- Buy2Sell1TickerOf
    SideOf <- Buy2Sell1SideOf
    Qty <- Buy2Sell1Qty
    Reported <- Buy2Sell1Orders
    KisOpening <- OneShare
    DbOpening <- OneShare
    Settlers = {job}
    Syncs = {sync}
    Overlap = TRUE
    OtherAccounts = TRUE
    Overnight = TRUE
INVARIANTS
    BookedOnce
    NeverOverbooked
    RowsTellTheTruth
PROPERTIES
    FilledIsFinal
    LedgerSpec
    SettledEventually
    HoldingsConverge
