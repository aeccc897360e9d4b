\* Four months and many markets, one command at a time.
SPECIFICATION Spec
CONSTANTS
    p1 = p1  p2 = p2  Free = Free
    Pipelines = {p1, p2}
    ByHand = {"silver", "gold"}
    Ticks = 2  MonthMinutes = 2  LastMinute = 6  Window = 3
    Lag = 1  Horizon = 1  Bucket = 2
    Scenarios <- Histories
    Ids = {"gold.history.full.m1", "gold.history.full.h1", "gold.live.extended.m1", "gold.live.extended.h1"}
    LibraryIds = {"gold.market.regime_features.m1", "gold.market.prediction_targets.m1"}
    SilverIds = {"spot_ohlcv", "perps_ohlcv", "funding_1m_feature", "open_interest_1m_feature", "volatility_index_1m_feature", "realized_volatility_1m_feature", "iv_rv_1m_feature", "perps_trades_1m_feature", "options_trades_1m_feature", "index_price_1m_feature", "futures_summary_1m_feature", "options_surface_1m_feature", "perps_l2_1m_feature", "options_l2_1m_feature", "historical_volatility_observed", "volatility_index_snapshot_1m", "index_price_snapshot_1m", "futures_summary_snapshot_1m", "perps_l2_snapshot_1m", "options_l2_snapshot_1m", "options_ticker_snapshot_1m", "options_instrument_ticker_snapshot_1m", "recent_trade_snapshot_1m", "instrument_metadata_snapshot_daily", "futures_instrument_metadata_snapshot_daily"}
    LiveSources <- LiveWritten
INVARIANTS TypeOK
PROPERTIES PastIsSettled GoldPastIsSettled MonthsMatchHistory TargetsAreTheFuture
CONSTRAINT OneAtATime
CHECK_DEADLOCK FALSE
