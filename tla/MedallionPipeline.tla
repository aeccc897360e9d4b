------------------------- MODULE MedallionPipeline -------------------------
(***************************************************************************)
(* The scheduled pipeline: Bronze, Silver, Gold and the PostgreSQL sync,   *)
(* one command after another under a host lock                             *)
(* (scripts/run_medallion_pipeline.py), while rows keep arriving and       *)
(* operators run Silver and Gold by hand, without the lock.                *)
(*                                                                         *)
(* A command reads its input first and replaces its output later.  What it *)
(* writes is computed by SilverFrames and GoldFrames; every layer remembers*)
(* the Bronze rows it was computed from.                                   *)
(***************************************************************************)
EXTENDS GoldFrames

CONSTANTS Pipelines,    \* pipeline processes cron may have running
          ByHand,       \* commands run by hand: a subset of {"silver", "gold"}
          Free,         \* the lock is not held
          Scenarios,    \* bound: the rows and the disturbances of a behaviour
          Ids,          \* Gold datasets of the gold-build command
          LibraryIds,   \* Gold datasets only build_gold_for_symbol itself knows
          SilverIds,    \* Silver datasets
          LiveSources   \* Bronze datasets the external loader writes

ASSUME PipelineAssumption ==
    ByHand \subseteq {"silver", "gold"} /\ Pipelines \cap ByHand = {} /\ Free \notin Pipelines

\* Finitely many rows lie in the minutes of the model; a candle opens with a minute, and a
\* trade happens once.
RowsOf(s) == (UNION s.markets) \cup s.later
ASSUME RowsAssumption ==
    \A s \in Scenarios :
        /\ IsFiniteSet(RowsOf(s))
        /\ \A r \in RowsOf(s) :
            /\ r.t \in Nat /\ r.at \in Nat /\ Minute(r.t) \in Minutes
            /\ r.src \in {"spot_ohlcv", "perps_ohlcv"} => r.t = Start(Minute(r.t))
        /\ \A r, o \in RowsOf(s) :
            r.src = "recent_trade_snapshot_1m" /\ o.src = r.src /\ o.name = r.name => o.t = r.t

\* A Silver dataset comes with the datasets it is built from.
ASSUME SilverAssumption == \A d \in SilverIds \cap DOMAIN SilverInputs : SilverInputs[d] \subseteq SilverIds

VARIABLES
    scenario,   \* what this behaviour is about: its rows and its bounds
    market,     \* rows the exchange or the live loader has produced
    bronze,     \* rows in the Bronze lake
    silver,     \* partitions: dataset, month, frame
    gold,       \* the Gold datasets, each with the Silver rows it was built from
    result,     \* the Gold datasets the publication result file declares
    table,      \* what PostgreSQL serves
    lock,       \* holder of the pipeline lock
    pc, seen,   \* of every process: its step, and what it has read or built
    owed,       \* history: the Bronze rows a pipeline's run found or loaded
    disturbed,  \* history: layers to which others published older rows during the run
    arrivals, faults, hands

layers == <<bronze, silver, gold, result, table>>
processes == <<pc, seen>>
history == <<owed, disturbed>>
bounds == <<scenario, arrivals, faults, hands>>
vars == <<market, layers, lock, processes, history, bounds>>

\* rows: the Bronze rows it was computed from.
Content(rows, frame) == [rows |-> rows, frame |-> frame]
Nothing == [id \in {} |-> Content({}, NoFrame)]
Replace(known, new) == [id \in DOMAIN known \cup DOMAIN new |-> IF id \in DOMAIN new THEN new[id] ELSE known[id]]
NoSilver == Content({}, [d \in SilverIds |-> [k \in Months |-> NoFrame]])

Processes == Pipelines \cup ByHand
Idle == {"idle", "done"} \* done: the last run ended well
Live(rows) == {r \in rows : r.src \in LiveSources}

Init ==
    /\ scenario \in Scenarios
    /\ market \in scenario.markets
    /\ bronze = Live(market) /\ silver = NoSilver
    /\ gold = Nothing /\ result = Nothing /\ table = Nothing
    /\ lock = Free
    /\ pc = [p \in Processes |-> "idle"]
    /\ seen = [p \in Processes |-> Nothing]
    /\ owed = [p \in Pipelines |-> {}]
    /\ disturbed = [p \in Pipelines |-> {}]
    /\ arrivals = 0 /\ faults = 0 /\ hands = 0

Go(p, step) == pc' = [pc EXCEPT ![p] = step]

\* A process ends, and what it had read is gone.
Ends(p, how) ==
    /\ Go(p, how) /\ seen' = [seen EXCEPT ![p] = Nothing]
    /\ owed' = [q \in Pipelines |-> IF q = p THEN {} ELSE owed[q]]
    /\ disturbed' = [q \in Pipelines |-> IF q = p THEN {} ELSE disturbed[q]]

\* Something trades.  Rows of the live loader go straight to Bronze.
Arrive(r) ==
    /\ r \in scenario.later /\ r \notin market /\ arrivals < scenario.arrivals
    /\ \A o \in market : o.t <= r.t
    /\ market' = market \cup {r} /\ arrivals' = arrivals + 1
    /\ bronze' = bronze \cup Live({r})
    /\ UNCHANGED <<silver, gold, table, result, lock, processes, history, scenario, faults, hands>>

\* Mutant of StartPipeline: nobody looks at the lock.
StartPipelineUnlocked(p) ==
    /\ p \in scenario.pipelines /\ pc[p] \in Idle
    /\ lock' = p /\ Go(p, "bronze")
    /\ UNCHANGED <<market, layers, seen, history, bounds>>

\* Cron starts a pipeline; when the lock is held it leaves at once.
StartPipeline(p) ==
    /\ p \in scenario.pipelines /\ pc[p] \in Idle /\ lock = Free
    /\ lock' = p /\ Go(p, "bronze")
    /\ UNCHANGED <<market, layers, seen, history, bounds>>

\* bronze-trades-minute-gap and bronze load what is missing (ExchangeFetch, BronzeRun).
Bronze(p) ==
    /\ pc[p] = "bronze"
    /\ bronze' = bronze \cup market
    /\ owed' = [owed EXCEPT ![p] = bronze \cup market]
    /\ Go(p, "silver")
    /\ UNCHANGED <<market, silver, gold, table, result, lock, seen, disturbed, bounds>>

\* silver-build: what is scheduled is rebuilt where it changed (SilverBuild).
SilverRead(p) ==
    /\ pc[p] = "silver"
    /\ seen' = [seen EXCEPT ![p] = Content(bronze, Scheduled(silver.frame))]
    /\ Go(p, "silver_publish")
    /\ UNCHANGED <<market, layers, lock, history, bounds>>

\* History: p publishes these rows to a layer while pipelines run.
Disturbs(p, layer, rows) ==
    disturbed' = [q \in Pipelines |->
        IF q # p /\ pc[q] \notin Idle /\ ~(owed[q] \subseteq rows) THEN disturbed[q] \cup {layer} ELSE disturbed[q]]

SilverPublish(p) ==
    /\ pc[p] = "silver_publish"
    /\ silver' = Content(seen[p].rows,
            [d \in SilverIds |-> [k \in Months |->
                IF d \in seen[p].frame \ DerivedDatasets THEN SourceMonth(d, seen[p].rows, k, CalculationKeys(k))
                ELSE silver.frame[d][k]]])
    /\ Disturbs(p, "silver", seen[p].rows)
    /\ Go(p, "silver_derive")
    /\ UNCHANGED <<market, bronze, gold, result, table, lock, seen, owed, bounds>>

\* The datasets computed from other Silver datasets come in a later batch.
SilverDerive(p) ==
    /\ pc[p] = "silver_derive"
    /\ silver' = [silver EXCEPT !.frame = [d \in SilverIds |-> [k \in Months |->
                IF d \in seen[p].frame \cap DerivedDatasets THEN DerivedMonth(d, silver.frame, k, CalculationKeys(k))
                ELSE silver.frame[d][k]]]]
    /\ IF p \in Pipelines THEN Go(p, "gold") /\ UNCHANGED <<seen, history>> ELSE Ends(p, "idle")
    /\ UNCHANGED <<market, bronze, gold, result, table, lock, bounds>>

\* gold-build: a command with --publication-result removes the previous result first; the
\* one by hand has none.  A dataset that lacks a required source is skipped.
GoldRead(p) ==
    /\ pc[p] = "gold"
    /\ LET ids == {i \in Ids \cup IF p \in ByHand THEN LibraryIds ELSE {} :
                        i \notin DOMAIN M1Of /\ Buildable(i, silver.frame)}
       IN seen' = [seen EXCEPT ![p] = [id \in ids |-> Content(silver.rows, Joined(id, silver.frame))]]
    /\ result' = IF p \in Pipelines THEN Nothing ELSE result
    /\ Go(p, "gold_publish")
    /\ UNCHANGED <<market, bronze, silver, gold, table, lock, history, bounds>>

GoldPublish(p) ==
    /\ pc[p] = "gold_publish"
    /\ seen' = [seen EXCEPT ![p] =
            [id \in DOMAIN @ |-> Content(@[id].rows, Derived(id, @[id].frame))]]
    /\ gold' = Replace(gold, seen'[p])
    /\ Disturbs(p, "gold", UNION {seen[p][id].rows : id \in DOMAIN seen[p]})
    /\ Go(p, "gold_fan_out")
    /\ UNCHANGED <<market, bronze, silver, result, table, lock, owed, bounds>>

\* The coarser timeframes come from the newest minute dataset in the Gold lake.
GoldFanOut(p) ==
    /\ pc[p] = "gold_fan_out"
    /\ LET ids == {i \in Ids \cap DOMAIN M1Of : M1Of[i] \in DOMAIN gold}
           coarse == [id \in ids |-> Content(gold[M1Of[id]].rows, Resampled(gold[M1Of[id]].frame))]
       IN /\ gold' = Replace(gold, coarse)
          /\ result' = IF p \in Pipelines THEN Replace(seen[p], coarse) ELSE result
    /\ IF p \in Pipelines THEN Go(p, "sync") /\ UNCHANGED <<seen, history>> ELSE Ends(p, "idle")
    /\ UNCHANGED <<market, bronze, silver, table, lock, bounds>>

\* Mutant of Sync: whatever Gold is newest, as the sync without a publication result does.
SyncCurrent(p) ==
    /\ pc[p] = "sync"
    /\ table' = Replace(table, gold)
    /\ Ends(p, "done") /\ lock' = Free
    /\ UNCHANGED <<market, bronze, silver, gold, result, bounds>>

\* gold-sync-postgres serves what the publication result declares (PostgresSync); without
\* one it fails, and so does the pipeline.
Sync(p) ==
    /\ pc[p] = "sync"
    /\ table' = Replace(table, result)
    /\ Ends(p, IF result = Nothing THEN "idle" ELSE "done") /\ lock' = Free
    /\ UNCHANGED <<market, bronze, silver, gold, result, bounds>>

\* Mutant of Fail: the lock is released on success only.
FailHoldingLock(p) ==
    /\ p \in Pipelines /\ pc[p] \notin Idle
    /\ faults < scenario.faults /\ faults' = faults + 1
    /\ Ends(p, "idle")
    /\ UNCHANGED <<market, layers, lock, scenario, arrivals, hands>>

\* A step exits with an error or the pipeline is interrupted: no later step runs, and the
\* lock is released.  The command that a killed pipeline leaves running (its lock goes with
\* it, its child does not) ends here.
Fail(p) ==
    /\ p \in Pipelines /\ pc[p] \notin Idle
    /\ faults < scenario.faults /\ faults' = faults + 1
    /\ Ends(p, "idle") /\ lock' = Free
    /\ UNCHANGED <<market, layers, scenario, arrivals, hands>>

\* An operator starts a command by hand.
StartByHand(h) ==
    /\ h \in scenario.commands /\ pc[h] \in Idle
    /\ hands < scenario.hands /\ hands' = hands + 1
    /\ Go(h, h)
    /\ UNCHANGED <<market, layers, lock, seen, history, scenario, arrivals, faults>>

Step(p) == Bronze(p) \/ SilverRead(p) \/ SilverPublish(p) \/ SilverDerive(p) \/ GoldRead(p)
              \/ GoldPublish(p) \/ GoldFanOut(p) \/ Sync(p)

Next ==
    \/ \E r \in scenario.later : Arrive(r)
    \/ \E p \in Pipelines : StartPipeline(p) \/ Fail(p)
    \/ \E h \in ByHand : StartByHand(h)
    \/ \E p \in Processes : Step(p)

Spec == Init /\ [][Next]_vars

\* cron starts pipelines for ever, and a command that has been started ends.
FairSpec ==
    /\ Spec
    /\ WF_vars(\E p \in Pipelines : StartPipeline(p))
    /\ \A p \in Processes : WF_vars(Step(p))

-----------------------------------------------------------------------------
(* Properties.                                                             *)

SilverSteps == {"silver_publish", "silver_derive"}
GoldSteps == {"gold_publish", "gold_fan_out"}
StepsOf(p) ==
    IF p \in Pipelines
    THEN Idle \cup {"bronze", "silver", "gold", "sync"} \cup SilverSteps \cup GoldSteps
    ELSE {"idle", p} \cup IF p = "silver" THEN SilverSteps ELSE GoldSteps

Positions ==
    /\ \A p \in Processes : pc[p] \in StepsOf(p)
    /\ lock \in Pipelines \cup {Free}

LayersHoldRows ==
    /\ bronze \subseteq market /\ silver.rows \subseteq bronze
    /\ DOMAIN silver.frame = SilverIds
    /\ DOMAIN gold \subseteq Ids \cup LibraryIds
    /\ \A id \in DOMAIN gold : gold[id].rows \subseteq bronze
    /\ DOMAIN result \cup DOMAIN table \subseteq DOMAIN gold \cap Ids

\* Every process is at a step of its own, and every layer holds rows that were there.
TypeOK == Positions /\ LayersHoldRows

\* A pipeline that ends well has served, for every dataset it built, every row its Bronze
\* step found or loaded, whatever other pipelines and the commands run by hand did
\* meanwhile; only a command by hand that had read older rows before and replaced Silver
\* (or, for the coarser timeframes, Gold) during the run can lose some of them
\* (_run_pipeline, the lock of main, the publication result).
RunServesItsData ==
    [][\A p \in Pipelines : pc[p] = "sync" /\ pc'[p] = "done" /\ "silver" \notin disturbed[p] =>
        \A id \in DOMAIN seen[p]
                    \cup IF "gold" \in disturbed[p] THEN {} ELSE {i \in DOMAIN M1Of : M1Of[i] \in DOMAIN seen[p]} :
            id \in Ids => id \in DOMAIN table' /\ owed[p] \subseteq table'[id].rows]_vars

\* When nothing arrives any more the table ends up with every row, for good: the pipeline
\* that cron starts next repairs whatever failures, interruptions and older rows
\* published by hand have left (main and _run_pipeline release the lock on every way out).
Converges == <>[](table # Nothing /\ \A id \in DOMAIN table : market \subseteq table[id].rows)

\* The cells a frame had before the rows from t0 on were there are still what they were, but
\* for the columns remade.  A row is complete once its width has passed.
Settled(before, after, width, t0, remade) ==
    \A t \in {x \in DOMAIN before : x + width <= t0} :
        /\ t \in DOMAIN after
        /\ \A c \in {x \in DOMAIN before[t] \ remade : before[t][x] # {}} : Cell(after[t], c) = before[t][c]

OnlyLater(before, after) == before \subseteq after /\ before # after
NewFrom(before, after) == Min({r.t : r \in after \ before})
Canonical(rows) == CanonicalSource(Over(rows, "perps_ohlcv", Months))

\* What Silver and Gold say of a minute that is over does not change because something
\* happens afterwards, so that what is trained on the table saw what was known at the
\* time: a rebuild with later rows keeps every number of the minutes before them
\* (the as-of joins and trailing windows of silver_*, build_minute_grid, the strategy
\* and live features and resample_history_full_frame).  The rv of a symbol is remade when its
\* first perpetual candle changes the canonical source.  Targets are about the future,
\* historical_prediction is PredictorsAreSettled, and Gold's one future of a minute is
\* the last name listed by then.
PastIsSettled ==
    [][OnlyLater(silver.rows, silver'.rows) =>
        LET t0 == NewFrom(silver.rows, silver'.rows)
            remade == IF Canonical(silver.rows) = Canonical(silver'.rows) THEN {} ELSE {"rv"}
        IN \A d \in SilverIds \ (DerivedDatasets \cup PerContract), k \in Months :
            Settled(silver.frame[d][k], silver'.frame[d][k], 1, IF d \in LiveSnapshots THEN t0 ELSE Minute(t0), remade)]_silver

GoldPastIsSettled ==
    [][\A id \in DOMAIN gold \ {"gold.market.prediction_targets.m1"} :
        /\ id \in DOMAIN gold'
        /\ OnlyLater(gold[id].rows, gold'[id].rows) =>
                Settled(gold[id].frame, gold'[id].frame, Ticks * (IF id \in DOMAIN M1Of THEN Bucket ELSE 1),
                        NewFrom(gold[id].rows, gold'[id].rows), {})]_gold

\* The same of the predictors, which the README calls trailing and ex-ante (they are
\* derived after their sources): a prediction of a minute keeps the numbers it had before
\* the later rows of this behaviour existed.
PredictorsAreSettled ==
    [][\A k \in Months :
        LET d == "historical_prediction_1m_feature"
        IN Settled(silver.frame[d][k], silver'.frame[d][k], 1, Minute(Min({r.t : r \in scenario.later})), {})]_silver

\* Returns are taken from the price before, however old it is.  A month k has it when there
\* is one before its windows begin in the first month they reach into, or no older month.
ReachesBack(ms, k) ==
    LET from == MonthStart(k) - Window IN
    \/ \E m \in ms : m <= from /\ Month(m) = Month(from)
    \/ \A m \in ms : Month(m) >= Month(from)

ObservedMinutes(rows, sources) == {Minute(r.t) : r \in UNION {Over(rows, src, Months) : src \in sources}}

\* The rolling features of a month, built from the months its windows reach into, are
\* those of the whole history.  Only what is made of returns can differ, and only after a
\* gap longer than that (lookback_month_keys, silver_volatility, silver_realized_volatility,
\* silver_iv_rv).
MonthsMatchHistory ==
    [][\A p \in Processes, k \in Months :
        LET builds(d, step) == pc[p] = step /\ pc'[p] # step /\ d \in SilverIds \cap seen[p].frame
            iv == "volatility_index_1m_feature"
            rv == "realized_volatility_1m_feature"
            ivrv == "iv_rv_1m_feature"
            whole(d) == SourceMonth(d, silver'.rows, k, Months)
            back(sources) == ReachesBack(ObservedMinutes(silver'.rows, sources), k)
        IN
        /\ builds(iv, "silver_publish") =>
            /\ DOMAIN silver'.frame[iv][k] = DOMAIN whole(iv)
            /\ \A m \in DOMAIN whole(iv), c \in {"iv", "iv_zscore", "iv_percentile"} :
                silver'.frame[iv][k][m][c] = whole(iv)[m][c]
            /\ back({"volatility_index_data", "volatility_index_snapshot_1m"}) => silver'.frame[iv][k] = whole(iv)
        /\ builds(rv, "silver_publish") /\ back({"spot_ohlcv"}) /\ back({"perps_ohlcv"}) =>
            silver'.frame[rv][k] = whole(rv)
        /\ builds(ivrv, "silver_derive") => silver'.frame[ivrv][k] = DerivedMonth(ivrv, silver'.frame, k, Months)]_silver

\* A prediction target of minute t is about minute t + Horizon, although the code counts
\* rows: the price then, the lowest price until then, the volatility then.
TargetsAreTheFuture ==
    [][LET id == "gold.market.prediction_targets.m1"
           target == gold'[id].frame
           candle(t) == {r \in Over(gold'[id].rows, "perps_ohlcv", Months) : r.t = t}
       IN id \in DOMAIN gold' =>
            \A t \in DOMAIN target :
                LET then == t + Horizon * Ticks IN
                /\ target[t].forward_return = Both(candle(t), candle(then))
                /\ target[t].drawdown =
                    IF then \notin DOMAIN target THEN {}
                    ELSE Both(candle(t), UNION {candle(x) : x \in t + 1..then})]_gold
=============================================================================
