SPECIFICATION Spec
CONSTANTS
    Tickers <- MCTickers
    Domestic <- MCDomestic
    Portfolios <- MCPortfolios
    Avgs <- MCAvgs
    Prices <- MCPrices
    SectorOf <- MCSectorOf
    RateOf <- MCRateOf
    Fallback = 5
    MonthOf <- MCMonthOf
    Period = 2
    LastDay = 3
INVARIANTS
    HistoryFilled
    NoFalseLoss
    FiguresExact
    ViewsAgree
