\* Every dataset on the smallest histories that page, split and repeat.
SPECIFICATION Spec
CONSTANTS
    Series = {"ohlcv", "open_interest", "funding", "volatility"}
    Trades = {"perps", "options"}
    Now = 7
    Interval = 2
    Day = 4
    Points = 2
    Bounds = {0, 3}
    MaxTrades = 3
    TradeSpan = 3
    PageSize = 2
    MaxPages = 2
    RouteAttempts = 2
    HttpRetries = 1
    PipeRows = 1
    None = None
INVARIANTS TypeOK SuccessIsComplete PersistsOnlyAsked
PROPERTIES NothingWritesAfterwards Terminates
