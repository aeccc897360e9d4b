---------------------------- MODULE SilverFrames ----------------------------
(***************************************************************************)
(* What the Silver builders compute for one symbol.                        *)
(*                                                                         *)
(* A cell of a frame is abstracted to the Bronze rows its number is        *)
(* computed from; a cell without rows is null.  Time is counted in ticks,  *)
(* a minute is Ticks long and a month MonthMinutes minutes.                *)
(***************************************************************************)
EXTENDS Integers, FiniteSets, FiniteSetsExt, Functions

CONSTANTS Ticks, MonthMinutes,
          LastMinute, \* bound: the minutes are 0..LastMinute
          Window      \* the longest trailing window, in minutes (30 days)

ASSUME FramesAssumption == {Ticks, MonthMinutes, Window} \subseteq Nat \ {0} /\ LastMinute \in Nat

Minutes == 0..LastMinute
Minute(t) == t \div Ticks
Start(m) == m * Ticks
Month(m) == m \div MonthMinutes
Months == {Month(m) : m \in Minutes}
MonthStart(k) == k * MonthMinutes
MinutesOf(k) == {m \in Minutes : Month(m) = k}

\* A Bronze row: [src, name, t, v, at].  name is the instrument (of recent trades the
\* trade), at the order of ingestion, v is "ok", "invalid" (a null, a non-finite or an
\* impossible value) or "bare" (accepted, but without the quote its feature needs).
Of(bronze, src, k) == {r \in bronze : r.src = src /\ Month(Minute(r.t)) = k}
Valid(rows) == {r \in rows : r.v # "invalid"}

\* sort by ingested_at, then unique(subset=key, keep="last")
KeepLast(rows, Key(_)) == {r \in rows : \A o \in rows : Key(o) = Key(r) => o.at <= r.at}
LatestOf(rows) == {r \in rows : \A o \in rows : <<o.t, o.at>> = <<r.t, r.at>> \/ o.t < r.t \/ (o.t = r.t /\ o.at < r.at)}
Instant(r) == r.t
InstrumentInstant(r) == <<r.name, r.t>>
TradeIdentity(r) == r.name

-----------------------------------------------------------------------------
(* Observed partitions: what is kept of one month of Bronze.               *)

Candles(rows) == KeepLast(Valid(rows), Instant)
FundingObserved(rows) == KeepLast(Valid(rows), Instant)
OpenInterestObserved(rows) == Valid(rows) \* every value of an instant is kept
VolatilityObserved(rows) == KeepLast(Valid(rows), Instant)
IndexPriceObserved(rows) == KeepLast(Valid(rows), Instant)
FuturesObserved(rows) == KeepLast(rows, InstrumentInstant)
TickerObserved(rows) == KeepLast(Valid(rows), InstrumentInstant)
BookObserved(rows) == KeepLast(Valid(rows), InstrumentInstant)
TradesObserved(rows) == KeepLast(Valid(rows), InstrumentInstant)
RecentTradesObserved(rows) == KeepLast(Valid(rows), TradeIdentity)
MetadataObserved(rows) == KeepLast(Valid(rows), InstrumentInstant)
HistoricalVolatilityObserved(rows) == KeepLast(Valid(rows), Instant)

Observed(src, rows) ==
    CASE src \in {"spot_ohlcv", "perps_ohlcv"} -> Candles(rows)
      [] src = "funding" -> FundingObserved(rows)
      [] src = "open_interest" -> OpenInterestObserved(rows)
      [] src \in {"volatility_index_data", "volatility_index_snapshot_1m"} -> VolatilityObserved(rows)
      [] src = "index_price_snapshot_1m" -> IndexPriceObserved(rows)
      [] src = "futures_summary_snapshot_1m" -> FuturesObserved(rows)
      [] src \in {"options_ticker_snapshot_1m", "options_instrument_ticker_snapshot_1m"} -> TickerObserved(rows)
      [] src \in {"perps_l2_snapshot_1m", "options_l2_snapshot_1m"} -> BookObserved(rows)
      [] src \in {"perps_trades", "options_trades"} -> TradesObserved(rows)
      [] src = "recent_trade_snapshot_1m" -> RecentTradesObserved(rows)
      [] src \in {"instrument_metadata_snapshot_daily", "futures_instrument_metadata_snapshot_daily"} -> MetadataObserved(rows)
      [] src = "historical_volatility" -> HistoricalVolatilityObserved(rows)
      [] OTHER -> rows

ObservedMonth(bronze, src, k) == Observed(src, Of(bronze, src, k))

-----------------------------------------------------------------------------
(* Features.  A frame maps minutes to rows, a row maps columns to cells.   *)

NoFrame == [m \in {} |-> {}]
Earlier(ms, m) == {x \in ms : x < m}
Both(a, b) == IF a = {} \/ b = {} THEN {} ELSE a \cup b \* a number computed from two
LastBefore(ms, m) == IF Earlier(ms, m) = {} THEN {} ELSE {Max(Earlier(ms, m))}

\* Mutant of Trailing: a centred window.
Centred(ms, m, w) == {x \in ms : m - w < x - 1 /\ x - 1 <= m}

\* rolling_*_by(window): (m - w, m].  The 30-day rank keeps its lower end too.
Trailing(ms, m, w) == {x \in ms : m - w < x /\ x <= m}
ClosedTrailing(ms, m, w) == {x \in ms : m - w <= x /\ x <= m}

\* join_asof(strategy="backward")
AsOf(rows, m) == LatestOf({r \in rows : r.t <= Start(m)})
FirstInstant(rows) == Min({r.t : r \in rows})
LastInstant(rows) == Max({r.t : r \in rows})

\* The grid of funding and open interest: month_start up to, not including, one minute
\* after the last observation of the month.
ObservedGrid(rows, k) == {m \in Minutes : MonthStart(k) <= m /\ Start(m) < LastInstant(rows) + Ticks}

FundingFeature(rows, k) ==
    IF rows = {} THEN NoFrame ELSE [m \in ObservedGrid(rows, k) |-> [funding |-> AsOf(rows, m)]]
OpenInterestFeature(rows, k) ==
    IF rows = {} THEN NoFrame ELSE [m \in ObservedGrid(rows, k) |-> [open_interest |-> AsOf(rows, m)]]

\* Index prices and futures: from the first to the last observation of the month.
SnapshotGrid(rows) == {m \in Minutes : FirstInstant(rows) <= Start(m) /\ Start(m) <= LastInstant(rows)}

IndexPriceFeature(rows) ==
    IF rows = {} THEN NoFrame ELSE [m \in SnapshotGrid(rows) |-> [index_price |-> AsOf(rows, m)]]

\* One row per instrument and minute.
FuturesFeature(rows) ==
    IF rows = {} THEN NoFrame
    ELSE [key \in {r.name : r \in rows} \X SnapshotGrid(rows) |->
            [futures |-> AsOf({r \in rows : r.name = key[1]}, key[2])]]

\* Trades: observed minutes and confirmed-empty ones; the prices of an empty minute are
\* the last close before it, in this month or carried over from the months before.
TradesFeature(rows, empty, carried) ==
    LET flow(m) == {r \in rows : Minute(r.t) = m}
        before(m) == LatestOf({r \in rows : Minute(r.t) < m})
    IN [m \in {Minute(r.t) : r \in rows \cup empty} |->
            [flow |-> flow(m),
             price |-> IF flow(m) # {} THEN flow(m) ELSE IF before(m) # {} THEN before(m) ELSE carried]]

\* previous_close_price when month k is built
CarriedClose(rows) ==
    LET carried[k \in Months] ==
            IF k = 0 THEN {}
            ELSE LET last == LatestOf({r \in rows : Month(Minute(r.t)) = k - 1})
                 IN IF last # {} THEN last ELSE carried[k - 1]
    IN carried

\* The last quote per contract and minute; the depth and spread of a one-sided book are null.
BookFeature(rows) ==
    LET last == {r \in rows : \A o \in rows : o.name = r.name /\ Minute(o.t) = Minute(r.t) => o.t <= r.t}
    IN [key \in {<<r.name, Minute(r.t)>> : r \in last} |->
            [book |-> {r \in last : r.name = key[1] /\ Minute(r.t) = key[2] /\ r.v = "ok"}]]

\* The instrument ticker replaces the currency ticker of the same contract and instant;
\* the last snapshot of a minute stands for the contract, if it can be used at all.
SurfaceFeature(currency, instrument) ==
    LET chosen == instrument \cup {r \in currency : \A o \in instrument : InstrumentInstant(o) # InstrumentInstant(r)}
        last == {r \in chosen : \A o \in chosen : o.name = r.name /\ Minute(o.t) = Minute(r.t) => o.t <= r.t}
        quotes == {r \in last : r.v = "ok"}
    IN [m \in {Minute(r.t) : r \in quotes} |-> [surface |-> {r \in quotes : Minute(r.t) = m}]]

-----------------------------------------------------------------------------
(* Rolling features: built month by month over the months their windows    *)
(* reach into, then trimmed to the target month.                           *)

\* Mutant of CalculationKeys: the month before, whatever the window.
MonthBeforeOnly(k) == {k - 1, k} \cap Months

\* lookback_month_keys(month, lookback_days=30) and the month itself
CalculationKeys(k) == {Month(m) : m \in {x \in Minutes : MonthStart(k) - Window <= x /\ x < MonthStart(k)}} \cup {k}

Trim(frame, k) == Restrict(frame, DOMAIN frame \cap MinutesOf(k))

\* The volatility index: the snapshot of a minute replaces the historical value.
MergedVolatility(historical, snapshot) ==
    snapshot \cup {r \in historical : \A o \in snapshot : o.t # r.t}

VolatilityFrame(rows) ==
    LET ms == {Minute(r.t) : r \in rows}
        at(set) == {r \in rows : Minute(r.t) \in set}
    IN [m \in ms |->
            [iv |-> at({m}),
             iv_return |-> IF LastBefore(ms, m) = {} THEN {} ELSE at({m} \cup LastBefore(ms, m)),
             iv_zscore |-> IF Cardinality(Trailing(ms, m, Window)) < 2 THEN {} ELSE at(Trailing(ms, m, Window)),
             iv_percentile |-> at(ClosedTrailing(ms, m, Window))]]

\* Realized volatility of one price series on the minutes of the frame: the return since
\* the last price, and the returns of the trailing window where this minute has one.
Return(prices, m) ==
    LET at(x) == {r \in prices : Minute(r.t) = x}
        ms == {Minute(r.t) : r \in prices}
    IN IF m \notin ms \/ LastBefore(ms, m) = {} THEN {}
       ELSE at(m) \cup at(Max(Earlier(ms, m)))

RollingVolatility(prices, m) ==
    IF Return(prices, m) = {} THEN {}
    ELSE UNION {Return(prices, x) : x \in Trailing({Minute(r.t) : r \in prices}, m, Window)}

RealizedVolatilityFrame(spot, perps, canonical) ==
    LET source == IF canonical = "perps" THEN perps ELSE spot
    IN [m \in {Minute(r.t) : r \in spot \cup perps} |->
            [spot_rv |-> RollingVolatility(spot, m),
             perps_rv |-> RollingVolatility(perps, m),
             rv |-> RollingVolatility(source, m)]]

\* Perpetuals are the canonical source of the symbol as soon as they have a directory.
CanonicalSource(perps) == IF perps # {} THEN "perps" ELSE "spot"

\* iv - rv, null unless both are there.
Spread(iv, rv, m) ==
    IF m \notin DOMAIN iv \/ m \notin DOMAIN rv THEN {}
    ELSE IF iv[m].iv = {} \/ rv[m].rv = {} THEN {} ELSE iv[m].iv \cup rv[m].rv

IvRvFrame(iv, rv) ==
    LET ms == DOMAIN iv \cup DOMAIN rv
        compared(set) == {x \in set : Spread(iv, rv, x) # {}}
    IN [m \in ms |->
            [spread |-> Spread(iv, rv, m),
             iv_rv_zscore |-> IF Spread(iv, rv, m) = {} THEN {}
                              ELSE UNION {Spread(iv, rv, x) : x \in compared(Trailing(ms, m, Window))},
             iv_rv_percentile |-> IF Spread(iv, rv, m) = {} THEN {}
                              ELSE UNION {Spread(iv, rv, x) : x \in compared(ClosedTrailing(ms, m, Window))}]]

-----------------------------------------------------------------------------
(* historical_prediction: all its sources joined on every minute any of    *)
(* them has, then shifted and rolled by rows, over the whole history.      *)

LastRows(ms, m, n) == {x \in ms : x <= m /\ Cardinality({y \in ms : x < y /\ y <= m}) < n}

PredictionFrame(spot, perps, funding, interest, trades, options) ==
    LET ms == UNION {DOMAIN f : f \in {spot, perps, funding, interest, trades, options}}
        shifted(Value(_), m) == UNION {Value(x) : x \in LastBefore(ms, m)}
        known(Value(_), m) == {x \in LastRows(ms, m, Window) : Value(x) # {}}
        summed(Value(_), m) == IF Cardinality(known(Value, m)) < 2 THEN {} ELSE UNION {Value(x) : x \in known(Value, m)}
        scored(Value(_), m) == Both(Value(m), summed(Value, m))
        change(Value(_), m) == Both(Value(m), shifted(Value, m))
        spotAt(m) == IF m \in DOMAIN spot THEN spot[m].spot ELSE {}
        perpsAt(m) == IF m \in DOMAIN perps THEN perps[m].perps ELSE {}
        fundingAt(m) == IF m \in DOMAIN funding THEN funding[m].funding ELSE {}
        interestAt(m) == IF m \in DOMAIN interest THEN interest[m].open_interest ELSE {}
        tradesAt(m) == IF m \in DOMAIN trades THEN trades[m].flow ELSE {}
        optionsAt(m) == IF m \in DOMAIN options THEN options[m].flow ELSE {}
        basisAt(m) == Both(spotAt(m), perpsAt(m))
        spotReturn(m) == change(spotAt, m)
    IN [m \in ms |->
            [spot_return |-> spotReturn(m),
             spot_rv |-> summed(spotReturn, m),
             basis_change |-> change(basisAt, m),
             basis_zscore |-> scored(basisAt, m),
             funding_change |-> change(fundingAt, m),
             funding_divergence |-> Both(fundingAt(m), basisAt(m)),
             interest_change |-> change(interestAt, m),
             interest_zscore |-> scored(interestAt, m),
             trade_zscore |-> scored(tradesAt, m),
             options_zscore |-> scored(optionsAt, m)]]

-----------------------------------------------------------------------------
(* The partition of month k of each Silver dataset; keys are the months    *)
(* its rolling features read.                                              *)

Merged(frames) == [m \in UNION {DOMAIN f : f \in frames} |-> (CHOOSE f \in frames : m \in DOMAIN f)[m]]
ReadDataset(silver, dataset) == Merged({silver[dataset][k] : k \in Months})

CandleFrame(rows, Row(_)) == [m \in {Minute(r.t) : r \in rows} |-> Row({r \in rows : Minute(r.t) = m})]
SpotRow(cell) == [spot |-> cell]
PerpsRow(cell) == [perps |-> cell]
HistoricalVolatilityRow(cell) == [historical_volatility |-> cell]

\* Observed snapshots keep their own instant.
SnapshotFrame(rows) == [t \in {r.t : r \in rows} |-> [snapshot |-> {r \in rows : r.t = t}]]

Over(bronze, src, keys) == UNION {ObservedMonth(bronze, src, k) : k \in keys}

TradesMonth(bronze, src, empty, k) ==
    TradesFeature(ObservedMonth(bronze, src, k), Of(bronze, empty, k),
                  CarriedClose(Over(bronze, src, {j \in Months : j < k}))[k])

IvMonth(bronze, k, keys) ==
    Trim(VolatilityFrame(MergedVolatility(Over(bronze, "volatility_index_data", keys),
                                          Over(bronze, "volatility_index_snapshot_1m", keys))), k)

RvMonth(bronze, k, keys) ==
    Trim(RealizedVolatilityFrame(Over(bronze, "spot_ohlcv", keys), Over(bronze, "perps_ohlcv", keys),
                                 CanonicalSource(Over(bronze, "perps_ohlcv", Months))), k)

\* Built from the partitions of other Silver datasets.
IvRvMonth(silver, k, keys) ==
    Trim(IvRvFrame(Merged({silver["volatility_index_1m_feature"][j] : j \in keys}),
                   Merged({silver["realized_volatility_1m_feature"][j] : j \in keys})), k)

PredictionMonth(silver, k) ==
    Trim(PredictionFrame(ReadDataset(silver, "spot_ohlcv"), ReadDataset(silver, "perps_ohlcv"),
            ReadDataset(silver, "funding_1m_feature"), ReadDataset(silver, "open_interest_1m_feature"),
            ReadDataset(silver, "perps_trades_1m_feature"), ReadDataset(silver, "options_trades_1m_feature")), k)

\* One row per instrument and minute.
PerContract == {"futures_summary_1m_feature", "perps_l2_1m_feature", "options_l2_1m_feature"}

DerivedDatasets == {"iv_rv_1m_feature", "historical_prediction_1m_feature"}

\* _discover_effective_symbols: what is built from Silver is scheduled when its inputs
\* were there before the command began; predictions need both prices.
SilverInputs == [
    realized_volatility_1m_feature |-> {"spot_ohlcv", "perps_ohlcv"},
    options_surface_1m_feature |-> {"options_ticker_snapshot_1m", "options_instrument_ticker_snapshot_1m"},
    iv_rv_1m_feature |-> {"volatility_index_1m_feature", "realized_volatility_1m_feature"},
    historical_prediction_1m_feature |-> {"spot_ohlcv", "perps_ohlcv"} ]

HasData(silver, d) == d \in DOMAIN silver /\ \E k \in Months : DOMAIN silver[d][k] # {}

Scheduled(silver) ==
    {d \in DOMAIN silver :
        \/ d \notin DOMAIN SilverInputs
        \/ d # "historical_prediction_1m_feature" /\ \E s \in SilverInputs[d] : HasData(silver, s)
        \/ d = "historical_prediction_1m_feature" /\ \A s \in SilverInputs[d] : HasData(silver, s)}

DerivedMonth(dataset, silver, k, keys) ==
    IF dataset = "iv_rv_1m_feature" THEN IvRvMonth(silver, k, keys) ELSE PredictionMonth(silver, k)

SourceMonth(dataset, bronze, k, keys) ==
    LET observed(src) == ObservedMonth(bronze, src, k) IN
    CASE dataset = "spot_ohlcv" -> CandleFrame(observed(dataset), SpotRow)
      [] dataset = "perps_ohlcv" -> CandleFrame(observed(dataset), PerpsRow)
      [] dataset = "funding_1m_feature" -> FundingFeature(observed("funding"), k)
      [] dataset = "open_interest_1m_feature" -> OpenInterestFeature(observed("open_interest"), k)
      [] dataset = "perps_trades_1m_feature" -> TradesMonth(bronze, "perps_trades", "perps_trades_empty_minutes", k)
      [] dataset = "options_trades_1m_feature" -> TradesMonth(bronze, "options_trades", "options_trades_empty_minutes", k)
      [] dataset = "volatility_index_1m_feature" -> IvMonth(bronze, k, keys)
      [] dataset = "realized_volatility_1m_feature" -> RvMonth(bronze, k, keys)
      [] dataset = "index_price_1m_feature" -> IndexPriceFeature(observed("index_price_snapshot_1m"))
      [] dataset = "futures_summary_1m_feature" -> FuturesFeature(observed("futures_summary_snapshot_1m"))
      [] dataset = "options_surface_1m_feature" ->
            SurfaceFeature(observed("options_ticker_snapshot_1m"), observed("options_instrument_ticker_snapshot_1m"))
      [] dataset = "perps_l2_1m_feature" -> BookFeature(observed("perps_l2_snapshot_1m"))
      [] dataset = "options_l2_1m_feature" -> BookFeature(observed("options_l2_snapshot_1m"))
      [] dataset = "historical_volatility_observed" ->
            CandleFrame(observed("historical_volatility"), HistoricalVolatilityRow)
      [] OTHER -> SnapshotFrame(observed(dataset))
=============================================================================
