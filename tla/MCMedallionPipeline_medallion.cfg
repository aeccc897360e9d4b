\* Overlapping pipelines and commands by hand over two minutes.
SPECIFICATION FairSpec
CONSTANTS
    p1 = p1  p2 = p2  Free = Free
    Pipelines = {p1, p2}
    ByHand = {"silver", "gold"}
    Ticks = 2  MonthMinutes = 2  LastMinute = 1  Window = 1
    Lag = 1  Horizon = 1  Bucket = 2
    Scenarios <- Overlaps
    Ids = {"gold.history.full.m1", "gold.history.full.h1"}
    LibraryIds = {}
    SilverIds = {"spot_ohlcv", "perps_ohlcv", "funding_1m_feature", "open_interest_1m_feature", "perps_trades_1m_feature", "options_trades_1m_feature"}
    LiveSources <- LiveWritten
PROPERTIES RunServesItsData Converges
CHECK_DEADLOCK FALSE
