\* Candles with a gap and a later open interest.
SPECIFICATION FairSpec
CONSTANTS
    p1 = p1  p2 = p2  Free = Free
    Pipelines = {p1}
    ByHand = {}
    Ticks = 2  MonthMinutes = 4  LastMinute = 3  Window = 3
    Lag = 1  Horizon = 1  Bucket = 2
    Scenarios <- Predictions
    Ids = {"gold.history.extended.m1"}
    LibraryIds = {}
    SilverIds = {"spot_ohlcv", "perps_ohlcv", "funding_1m_feature", "open_interest_1m_feature", "perps_trades_1m_feature", "options_trades_1m_feature", "historical_prediction_1m_feature"}
    LiveSources <- LiveWritten
PROPERTIES PredictorsAreSettled
CHECK_DEADLOCK FALSE
