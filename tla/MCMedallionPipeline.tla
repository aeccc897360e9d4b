------------------------ MODULE MCMedallionPipeline ------------------------
(* Small instances of MedallionPipeline for TLC.                           *)
EXTENDS MedallionPipeline, TLC

CONSTANTS p1, p2

Row(src, name, t) == [src |-> src, name |-> name, t |-> t, v |-> "ok", at |-> t]
At(src, minutes) == {Row(src, 1, Start(m)) : m \in minutes}
UpTo(n, S) == UNION {kSubset(i, S) : i \in 0..n}

\* Candles, funding, open interest and the volatility index over four months: the windows of
\* the last one do not reach into the first, and gaps may be longer than they are.
HistoryBase ==
    At("spot_ohlcv", {0}) \cup At("perps_ohlcv", {0}) \cup At("funding", {0}) \cup At("open_interest", {0})
HistoryMore ==
    At("perps_ohlcv", {1, 2, 3, 4}) \cup At("spot_ohlcv", {2, 4}) \cup At("volatility_index_data", {0, 1, 3, 4})
        \cup At("funding", {3}) \cup At("open_interest", {2})
HistoryLater == At("perps_ohlcv", {6}) \cup At("funding", {6}) \cup At("open_interest", {6})
                    \cup At("volatility_index_data", {5, 6})
HistoryDense == HistoryBase \cup At("perps_ohlcv", {1, 3, 4}) \cup At("volatility_index_data", {1, 4})
SpotOnly == At("spot_ohlcv", {0, 1, 3}) \cup At("funding", {0}) \* the first perpetual candle comes later
History == [markets |-> {HistoryBase \cup more : more \in UpTo(2, HistoryMore)} \cup {HistoryDense, SpotOnly},
            later |-> HistoryLater, arrivals |-> 1, faults |-> 0, hands |-> 2, pipelines |-> {p1}, commands |-> {"gold"}]

\* Live snapshots, off the minute and of several instruments, beside the core sources.
LiveBase == HistoryBase \cup {Row(src, 1, 0) : src \in LiveSnapshots}
LiveMore ==
    {Row("perps_l2_snapshot_1m", 2, 0), Row("options_l2_snapshot_1m", 2, 1), Row("index_price_snapshot_1m", 1, 3),
     Row("volatility_index_snapshot_1m", 1, 2), Row("options_ticker_snapshot_1m", 2, 3),
     Row("futures_summary_snapshot_1m", 2, 2), Row("recent_trade_snapshot_1m", 2, 1)}
LiveLater ==
    {Row(src, 1, 4) : src \in MarketSnapshots} \cup
    {Row("options_instrument_ticker_snapshot_1m", 2, 4), Row("options_l2_snapshot_1m", 3, 5), Row("perps_l2_snapshot_1m", 3, 5)}
LiveFeeds == [markets |-> {LiveBase \cup more : more \in UpTo(1, LiveMore)},
          later |-> LiveLater, arrivals |-> 1, faults |-> 0, hands |-> 2, pipelines |-> {p1}, commands |-> {"gold"}]

\* Every source of gold.history.full at the first minute; two pipelines, commands by
\* hand and failing steps.
FullSources == {"spot_ohlcv", "perps_ohlcv", "funding", "open_interest", "perps_trades", "options_trades"}
Overlap(failing, byhand) ==
         [markets |-> {UNION {At(src, {0}) : src \in FullSources}},
          later |-> At("perps_ohlcv", {1}),
          arrivals |-> 1, faults |-> failing, hands |-> byhand, pipelines |-> {p1, p2}, commands |-> {"silver", "gold"}]

\* Spot candles with a gap, then an open interest of a later minute.
Predictions == {[markets |-> {At("spot_ohlcv", {0, 2}) \cup At("perps_ohlcv", {0, 2})}, later |-> At("open_interest", {3}),
                 arrivals |-> 1, faults |-> 1, hands |-> 0, pipelines |-> {p1}, commands |-> {}]}

\* Bound: one command at a time.
OneAtATime == Cardinality({p \in Processes : pc[p] \notin Idle}) <= 1

Histories == {History, LiveFeeds}
Overlaps == {Overlap(1, 1), Overlap(0, 2)}
LiveWritten == LiveSnapshots
=============================================================================
