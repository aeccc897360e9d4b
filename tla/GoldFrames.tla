----------------------------- MODULE GoldFrames -----------------------------
(***************************************************************************)
(* What the Gold builders compute for one symbol: the Silver sources are   *)
(* joined on a minute grid, then trailing features, forward targets and    *)
(* coarser timeframes are derived from the joined rows (gold_frames,       *)
(* build_gold_for_symbol).                                                 *)
(*                                                                         *)
(* A Gold frame maps instants to rows, a row maps columns to cells, a cell *)
(* is the set of Bronze rows its number comes from, as in SilverFrames.    *)
(***************************************************************************)
EXTENDS SilverFrames

CONSTANTS Lag,      \* rows a return looks back (1, 5, 15)
          Horizon,  \* rows a prediction target looks ahead
          Bucket    \* minutes of a coarse timeframe

ASSUME GoldFramesAssumption == {Lag, Horizon, Bucket} \subseteq Nat \ {0}

EmptyRow == [c \in {} |-> {}]
Cell(row, c) == IF c \in DOMAIN row THEN row[c] ELSE {}

-----------------------------------------------------------------------------
(* Inputs: a Silver dataset read over all its partitions and prepared for  *)
(* the join, one row per instant.                                          *)

MinuteInput(frame) == [t \in {Start(m) : m \in DOMAIN frame} |-> frame[Minute(t)]]

\* Frames with a row per instrument and minute are reduced to the last name in sort order ...
OneInstrument(frame) ==
    [t \in {Start(key[2]) : key \in DOMAIN frame} |->
        frame[<<Max({key[1] : key \in {x \in DOMAIN frame : x[2] = Minute(t)}}), Minute(t)>>]]

\* ... except for option books, of which a minute keeps every contract.
AcrossContracts(frame) ==
    [t \in {Start(key[2]) : key \in DOMAIN frame} |->
        [book |-> UNION {frame[key].book : key \in {x \in DOMAIN frame : x[2] = Minute(t)}}]]

\* Observed snapshots are joined at their own timestamp, which is not truncated; of the
\* instruments of an instant all are aggregated, or one is kept, or only the key.
LastNamed(frame) ==
    [t \in DOMAIN frame |-> [snapshot |-> {r \in frame[t].snapshot : \A o \in frame[t].snapshot : o.name <= r.name}]]
KeysOnly(frame) == [t \in DOMAIN frame |-> EmptyRow]

LineageOnly ==
    {"recent_trade_snapshot_1m", "instrument_metadata_snapshot_daily", "futures_instrument_metadata_snapshot_daily"}
ContractSnapshots ==
    {"options_ticker_snapshot_1m", "options_instrument_ticker_snapshot_1m", "options_l2_snapshot_1m"}
MarketSnapshots ==
    {"volatility_index_snapshot_1m", "index_price_snapshot_1m", "futures_summary_snapshot_1m", "perps_l2_snapshot_1m"}

Prepared(dataset, silver) ==
    LET frame == ReadDataset(silver, dataset) IN
    CASE dataset \in {"futures_summary_1m_feature", "perps_l2_1m_feature"} -> OneInstrument(frame)
      [] dataset = "options_l2_1m_feature" -> AcrossContracts(frame)
      [] dataset \in ContractSnapshots -> frame
      [] dataset \in MarketSnapshots -> LastNamed(frame)
      [] dataset \in LineageOnly -> KeysOnly(frame)
      [] OTHER -> MinuteInput(frame)

-----------------------------------------------------------------------------
(* The datasets.                                                           *)

Core == {"spot_ohlcv", "perps_ohlcv", "funding_1m_feature", "open_interest_1m_feature"}
Trades == {"perps_trades_1m_feature", "options_trades_1m_feature"}
Volatilities == {"realized_volatility_1m_feature", "iv_rv_1m_feature"}
LiveSnapshots == ContractSnapshots \cup MarketSnapshots \cup LineageOnly

Required(id) ==
    CASE id = "gold.history.full.m1" -> Core \cup Trades
      [] id = "gold.history.extended.m1" -> Core \cup Trades \cup {"historical_prediction_1m_feature"}
      [] id = "gold.market.regime_features.m1" -> Core \cup Volatilities
      [] id = "gold.market.prediction_targets.m1" -> {"perps_ohlcv", "funding_1m_feature"} \cup Volatilities
      [] id = "gold.live.volatility_features.m1" -> {"volatility_index_1m_feature"}
      [] id = "gold.live.microstructure_features.m1" -> {"perps_l2_1m_feature", "options_l2_1m_feature"}
      [] id = "gold.live.extended.m1" -> LiveSnapshots

Optional(id) ==
    IF id = "gold.market.regime_features.m1"
    THEN {"perps_l2_1m_feature", "options_l2_1m_feature", "options_surface_1m_feature",
          "index_price_1m_feature", "futures_summary_1m_feature", "historical_volatility_observed"}
    ELSE {}

\* The coarser timeframes and the minute dataset each is resampled from.
M1Of == [id \in {"gold.history.full.h1", "gold.live.extended.h1"} |->
            IF id = "gold.history.full.h1" THEN "gold.history.full.m1" ELSE "gold.live.extended.m1"]

\* Mutant of MinuteGrid: only the minutes some source has.
ObservedInstants(instants) == instants

\* From the first to the last instant of any source, minute by minute.
MinuteGrid(instants) ==
    {Min(instants) + i * Ticks : i \in 0..((Max(instants) - Min(instants)) \div Ticks)}

\* A build raises when a required dataset has no artifact; an optional one that has none
\* gives null columns.
Buildable(id, silver) == \A d \in Required(id) : HasData(silver, d)

Joined(id, silver) ==
    LET input == [d \in (Required(id) \cup Optional(id)) \cap DOMAIN silver |-> Prepared(d, silver)]
        grid == MinuteGrid(UNION {DOMAIN input[d] : d \in Required(id) \ LineageOnly})
        row(d, t) == IF t \in DOMAIN input[d] THEN input[d][t] ELSE EmptyRow
    IN [t \in grid |->
            [c \in UNION {{d} \X DOMAIN row(d, t) : d \in DOMAIN input} |-> row(c[1], t)[c[2]]]]

-----------------------------------------------------------------------------
(* Derived columns.  shift, and the index arithmetic of the targets, count *)
(* rows; rolling_*_by counts minutes.                                      *)

RowsBack(frame, t, n) == {x \in DOMAIN frame : x < t /\ Cardinality({y \in DOMAIN frame : x <= y /\ y < t}) = n}
RowsAhead(frame, t, n) == {x \in DOMAIN frame : x > t /\ Cardinality({y \in DOMAIN frame : t < y /\ y <= x}) = n}
Lately(frame, t) == {x \in DOMAIN frame : t - Window * Ticks < x /\ x <= t}

\* A column as a function of the instant; outside the frame it is null.
Column(frame, c) == [t \in DOMAIN frame |-> Cell(frame[t], c)]
AtAny(column, ts) == UNION {column[x] : x \in ts}

\* Mutant of Change: shift(-Lag).
ChangeAhead(column, t) == Both(column[t], AtAny(column, RowsAhead(column, t, Lag)))

Change(column, t) == Both(column[t], AtAny(column, RowsBack(column, t, Lag)))
Score(column, t) ==
    LET known == {x \in Lately(column, t) : column[x] # {}}
    IN IF column[t] = {} \/ Cardinality(known) < 2 THEN {} ELSE AtAny(column, known)

WithColumns(frame, More(_)) ==
    [t \in DOMAIN frame |->
        [c \in DOMAIN frame[t] \cup {"derived"} \X DOMAIN More(t) |->
            IF c \in DOMAIN frame[t] THEN frame[t][c] ELSE More(t)[c[2]]]]

Price(frame) == Column(frame, <<"perps_ohlcv", "perps">>)
SpotPrice(frame) == Column(frame, <<"spot_ohlcv", "spot">>)

\* add_strategy_feature_families: momentum, trend, reversion and cost.
StrategyFeatures(frame) ==
    LET price == Price(frame)
        spread == [t \in DOMAIN frame |-> Both(price[t], SpotPrice(frame)[t])]
        momentum == [t \in DOMAIN frame |-> Change(price, t)]
        derived(t) ==
            [momentum |-> momentum[t],
             trend |-> IF price[t] = {} THEN {} ELSE AtAny(price, {x \in DOMAIN frame : x <= t}),
             persistence |-> AtAny(momentum, Lately(frame, t)),
             price_zscore |-> Score(price, t),
             spread_zscore |-> Score(spread, t)]
    IN WithColumns(frame, derived)

\* add_live_extended_feature_families: returns and scores of the live columns.
LiveFeatures(frame) ==
    LET of(d) == Column(frame, <<d, "snapshot">>)
        derived(t) ==
            [volatility_return |-> Change(of("volatility_index_snapshot_1m"), t),
             index_return |-> Change(of("index_price_snapshot_1m"), t),
             index_zscore |-> Score(of("index_price_snapshot_1m"), t),
             mark_zscore |-> Score(of("futures_summary_snapshot_1m"), t),
             spread_zscore |-> Score(of("perps_l2_snapshot_1m"), t)]
    IN WithColumns(frame, derived)

\* _prediction_target_rows: the row Horizon rows ahead, and the rows up to it.
Targets(frame) ==
    LET price == Price(frame)
        rv == Column(frame, <<"realized_volatility_1m_feature", "rv">>)
        spread == Column(frame, <<"iv_rv_1m_feature", "spread">>)
        ahead(t) == RowsAhead(frame, t, Horizon)
        between(t) == UNION {{x \in DOMAIN frame : t < x /\ x <= y} : y \in ahead(t)}
    IN [t \in DOMAIN frame |->
            [forward_return |-> Both(price[t], AtAny(price, ahead(t))),
             drawdown |-> Both(price[t], AtAny(price, between(t))),
             future_rv |-> AtAny(rv, ahead(t)),
             spread_change |-> Both(spread[t], AtAny(spread, ahead(t)))]]

Derived(id, joined) ==
    CASE id = "gold.market.regime_features.m1" -> StrategyFeatures(joined)
      [] id = "gold.market.prediction_targets.m1" -> Targets(joined)
      [] id = "gold.live.extended.m1" -> LiveFeatures(joined)
      [] OTHER -> joined

\* resample_history_full_frame: a bucket is labelled with its start; prices open with the
\* first and close with the last value, states keep the last, the rest covers all of them.
BucketStart(t) == t - (t % (Bucket * Ticks))

Resampled(frame) ==
    [b \in {BucketStart(t) : t \in DOMAIN frame} |->
        LET rows == {t \in DOMAIN frame : BucketStart(t) = b}
            known(c) == {t \in rows : Cell(frame[t], c) # {}}
            used(c, how) == CASE known(c) = {} -> {}
                              [] how = "open" -> {Min(known(c))}
                              [] how = "last" -> {Max(known(c))}
                              [] how = "all" -> known(c)
        IN [key \in (UNION {DOMAIN frame[t] : t \in rows}) \X {"open", "last", "all"} |->
                UNION {frame[t][key[1]] : t \in used(key[1], key[2])}]]
=============================================================================
