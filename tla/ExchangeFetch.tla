--------------------------- MODULE ExchangeFetch ---------------------------
(***************************************************************************)
(* One Bronze fetch task: the planner turns what the lake holds into time  *)
(* windows, an adapter pages through each window, every page is asked for  *)
(* with retries and fallback routes, and the executor runs all of it       *)
(* inline or in a worker process with a deadline.                          *)
(*                                                                         *)
(* A row is its timestamp, its position in trade-id order (0 for series)   *)
(* and whether it is of the requested instrument.  Series rows lie on      *)
(* multiples of Interval.                                                  *)
(***************************************************************************)
EXTENDS Integers, Sequences, FiniteSets, FiniteSetsExt

CONSTANTS
    Series,        \* datasets of the run among ohlcv, open_interest, funding, volatility
    Trades,        \* datasets of the run among perps, options
    Now,           \* bound: the current instant; history starts at 0
    Interval,      \* instants per series row
    Day,           \* instants per UTC day
    Points,        \* rows per request of the series endpoints
    Bounds,        \* start bounds a series task may have, besides None
    MaxTrades,     \* bound: trades of the exchange
    TradeSpan,     \* bound: instants of the window of a trade task
    PageSize,      \* trades per page
    MaxPages,      \* page cap per trade range, 0 for none
    RouteAttempts, \* attempts per route
    HttpRetries,   \* retries per attempt
    PipeRows,      \* rows that fit into the pipe of the result queue
    None

ASSUME FetchAssumption ==
    /\ Series \subseteq {"ohlcv", "open_interest", "funding", "volatility"}
    /\ Trades \subseteq {"perps", "options"}
    /\ {Interval, Day, Points, PageSize, RouteAttempts} \subseteq Nat \ {0}
    /\ Bounds \subseteq 0..Now /\ TradeSpan <= Now
    /\ {Now, MaxTrades, TradeSpan, MaxPages, HttpRetries, PipeRows} \subseteq Nat
    /\ None \notin Nat \cup {"ok", "rows"}

VARIABLES
    task,    \* [dataset, bound, tail, worker]: the task and how it runs
    world,   \* the rows the exchange holds
    stored,  \* the rows the lake held when the task began
    todo,    \* windows still to fetch, <<first, last>>, in ascending order
    at,      \* the open window: cursor, pages, tokens seen, route, attempt, try; or None
    rows,    \* rows collected for the open window
    got,     \* rows of the finished windows
    cache,   \* _OPEN_INTEREST_HISTORY_CACHE of the process, or None
    saved,   \* rows persisted by chunk and completion callbacks
    worker,  \* fetching, flushing, exited, killed
    result,  \* ok, error or None: what the fetch put into the result queue
    late,    \* the deadline of the task has passed
    outcome, \* rows, error, timeout or None: how the task ended for its caller
    odd      \* history: irregular answers met, "fallback", "swallowed", "repeated"

vars == <<task, world, stored, todo, at, rows, got, cache, saved, worker, result, late, outcome, odd>>

Row(t) == [ts |-> t, id |-> 0, own |-> TRUE]
Times(rs) == {r.ts : r \in rs}
Within(rs, w) == {r \in rs : r.ts \in w[1]..w[2]}
Stop == -1
IsTrades == task.dataset \in {"perps", "options"}

-----------------------------------------------------------------------------
(* Planning.                                                               *)

\* _last_closed_open_ms
End == (Now \div Interval - 1) * Interval

\* split_range_into_utc_days: the windows of a range, one per UTC day it touches.
DayWindows(first, last) ==
    IF last < first THEN {}
    ELSE {<<Max({first, d * Day}), Min({last, d * Day + Day - 1})>> :
             d \in (first \div Day)..(last \div Day)}

\* Mutant of MissingRanges: the range after the last stored row is forgotten.
InnerRanges(times) ==
    {<<p[1] + Interval, p[2] - Interval>> : p \in
        {q \in times \X times : q[1] + Interval < q[2] /\ times \cap (q[1] + 1)..(q[2] - 1) = {}}}

\* _missing_ranges_ms: the runs of absent open times between stored ones, and after the last.
MissingRanges(times) ==
    InnerRanges(times)
        \cup (IF Max(times) + Interval <= End THEN {<<Max(times) + Interval, End>>} ELSE {})

\* build_missing_ranges_with_optional_head_gap
WithHeadGap(times) ==
    LET known == {t \in times : t <= End}
        head  == <<task.bound, Min({Min(times) - Interval, End})>>
    IN (IF known = {} THEN {} ELSE MissingRanges(known))
           \cup (IF task.bound # None /\ head[1] < Min(times) /\ head[1] <= head[2] THEN {head} ELSE {})

\* day_windows_in_random_order
PerDay(ranges) == UNION {DayWindows(v[1], v[2]) : v \in ranges}

\* An empty lake without start bound is filled from the whole history of the exchange.
Bootstraps == stored = {} /\ task.bound = None

\* fetch_bounded_daily_rows: with a start bound it is filled from there, day by day.
BoundedWindows == DayWindows(task.bound, End)

\* The windows of a series task; Cut says how the dataset splits its ranges.
SeriesWindows(Cut(_)) ==
    LET times == Times(stored)
        lower == Max({Max(times) + Interval} \cup ({task.bound} \ {None}))
    IN CASE task.bound # None /\ End < task.bound  -> {}
         [] Bootstraps                             -> {<<0, Now>>}
         [] stored = {} /\ task.bound \in 0..End   -> BoundedWindows
         [] OTHER ->
             CASE task.tail /\ lower <= End         -> Cut({<<lower, End>>})
               [] ~task.tail /\ Min(times) <= End   -> Cut(WithHeadGap(times))
               [] OTHER                             -> {}

Whole(ranges) == ranges

CandleWindows       == SeriesWindows(PerDay)
OpenInterestWindows == SeriesWindows(PerDay)
FundingWindows      == SeriesWindows(Whole)
VolatilityWindows   == SeriesWindows(Whole)

Plan == CASE task.dataset = "ohlcv"         -> CandleWindows
          [] task.dataset = "open_interest" -> OpenInterestWindows
          [] task.dataset = "funding"       -> FundingWindows
          [] task.dataset = "volatility"    -> VolatilityWindows
          [] IsTrades                       -> {<<1, TradeSpan>>}

\* ranges_in_random_order, day_windows_in_random_order: windows are fetched in ascending order.
Window == CHOOSE w \in todo : \A v \in todo : w[1] <= v[1]

-----------------------------------------------------------------------------
(* Paging: the page an open window asks for, and the cursor after it.      *)

Closed == [cursor |-> Stop, pages |-> 0, seen |-> {}, route |-> 1, attempt |-> 1, try |-> 0]
Open(cursor) == [Closed EXCEPT !.cursor = cursor]

\* Perps ask for the instrument and then for the currency, on the archive and then on the
\* main host; options ask both hosts for the currency; a series has one route.
Routes == CASE task.dataset = "perps"   -> <<"instrument", "currency", "instrument", "currency">>
            [] task.dataset = "options" -> <<"currency", "currency">>
            [] ~IsTrades                -> <<"series">>

\* The exchange orders trades by trade id, also where timestamps disagree.
First(n, rs) == {r \in rs : Cardinality({x \in rs : x.id < r.id}) < n}
Earliest(n, rs) == {r \in rs : Cardinality({x \in rs : x.ts < r.ts}) < n}
Latest(n, rs) == {r \in rs : Cardinality({x \in rs : x.ts > r.ts}) < n}

\* get_last_trades_by_instrument_and_time, get_last_trades_by_currency_and_time
TradeMatches == {r \in world : /\ r.ts \in at.cursor..Window[2]
                               /\ Routes[at.route] = "instrument" => r.own}

\* Mutant of OfInstrument: the rows of the whole currency.
OfCurrency(page) == page

\* Rows a trade page leaves after _extract_rows_for_instrument.
OfInstrument(page) == IF task.dataset = "perps" /\ Routes[at.route] = "currency"
                      THEN {r \in page : r.own} ELSE page

\* fetch_perps_trades_range, fetch_options_trades_range: on from the largest timestamp,
\* unless the page is short, the last one, or the page cap is reached.
AfterTrades(kept, more) ==
    IF kept = {} THEN Stop
    ELSE LET next == Max(Times(kept)) + 1
         IN IF \/ next > Window[2] \/ Cardinality(kept) < PageSize \/ ~more
               \/ MaxPages > 0 /\ at.pages + 1 >= MaxPages
            THEN Stop ELSE next

\* _fetch_chart_page and _fetch_funding_page answer a span completely.
ChartPage(span) == Within(world, span)
FundingPage(span) == Within(world, span)

\* fetch_klines_range: the span of one request, and the cursor after its page.
CandleSpan == <<at.cursor, Min({Window[2] + Interval, at.cursor + Points * Interval}) - 1>>
AfterCandles(page) ==
    LET next == Max({CandleSpan[2] + 1} \cup {t + Interval : t \in Times(page)})
    IN IF next <= Window[2] THEN next ELSE Stop

\* fetch_klines_all: backwards, until a page is empty or short.
CandleHistorySpan == <<at.cursor - Points * Interval, at.cursor>>
AfterCandleHistory(page) ==
    IF page = {} \/ Cardinality(page) < Points THEN Stop ELSE Min(Times(page)) - 1

\* fetch_funding_range: a small range is one request; otherwise the cursor first moves to
\* the first row of the window, then past its last.  It always grows.
FundingFits == Window[1] > 0 /\ Window[2] - Window[1] + 1 <= Points * Interval
FundingSpan == IF FundingFits THEN Window
               ELSE <<at.cursor, Min({Window[2], at.cursor + Points * Interval - 1})>>
AfterFunding(page) ==
    LET next == CASE page = {}                    -> FundingSpan[2] + 1
                  [] page # {} /\ Min(Times(page)) > at.cursor -> Min(Times(page))
                  [] OTHER -> Max({at.cursor, Max(Times(page))}) + Interval
    IN IF FundingFits \/ next > Window[2] THEN Stop ELSE next

\* fetch_funding_all: backwards, until a window of the request's span is empty.
FundingHistorySpan == <<Max({0, at.cursor - Points * Interval + 1}), at.cursor>>
AfterFundingHistory(page) ==
    IF page = {} THEN Stop ELSE Max({Stop, Min(Times(page)) - Interval})

\* Mutant of AfterOpenInterest: tokens seen before are followed again, and so are repeated pages.
AfterAnyToken(page, token) == IF page = {} \/ token = None THEN Stop ELSE token

\* fetch_open_interest_all: newest first; the cursor is the number of the continuation token.
\* A page that begins and ends like the one before is the last, and is dropped.
PageAt(n) == Latest(Points * (n + 1), world) \ Latest(Points * n, world)
OpenInterestPage == PageAt(at.cursor)
Edges(page) == {r \in page : r.ts \in {Min(Times(page)), Max(Times(page))}}
AfterOpenInterest(page, token) ==
    IF page = {} \/ token = None \/ token \in at.seen \/ Edges(page) = Edges(PageAt(at.cursor - 1))
    THEN Stop ELSE token

\* fetch_volatility_index_data_range: on from the latest row while there is a continuation.
AfterVolatility(page, more) ==
    LET next == Max({at.cursor} \cup Times(page)) + 1
    IN IF page # {} /\ more /\ next <= Window[2] THEN next ELSE Stop

-----------------------------------------------------------------------------
(* The fetch, in this process or in the worker.                            *)

TypeOK ==
    /\ task.dataset \in Series \cup Trades /\ {task.tail, task.worker, late} \subseteq BOOLEAN
    /\ task.bound \in Bounds \cup {None}
    /\ UNION {stored, rows, got, saved} \subseteq world
    /\ at # None => /\ at.cursor \in Stop..(Now + Day) /\ at.route \in DOMAIN Routes
                    /\ at.attempt \in 1..RouteAttempts /\ at.try \in 0..HttpRetries
    /\ worker \in {"fetching", "flushing", "exited", "killed"}
    /\ result \in {"ok", "error", None} /\ outcome \in {"rows", "error", "timeout", None}

SeriesWorlds == {{Row(t) : t \in ts} : ts \in SUBSET {t \in 0..Now : t % Interval = 0}}
TradeWorlds  == UNION {{{[f[i] EXCEPT !.id = i] : i \in 1..n} :
                           f \in [1..n -> [ts : 1..TradeSpan, id : {0}, own : BOOLEAN]]} : n \in 0..MaxTrades}

\* How the task executors run a fetch: only open interest asks for a worker process, which it
\* gets if a timeout is configured and the process can be started (no EIO).
SeriesTasks(dataset, workers) ==
    [dataset : {dataset} \cap Series, bound : Bounds \cup {None}, tail : BOOLEAN, worker : workers]
CandleTasks       == SeriesTasks("ohlcv", {FALSE})
OpenInterestTasks == SeriesTasks("open_interest", BOOLEAN)
FundingTasks      == SeriesTasks("funding", {FALSE})
VolatilityTasks   == SeriesTasks("volatility", {FALSE})
TradeTasks        == [dataset : Trades, bound : {None}, tail : {FALSE}, worker : {FALSE}]

\* A lake that holds nothing but the row in progress is left out.
Init ==
    /\ task \in UNION {CandleTasks, OpenInterestTasks, FundingTasks, VolatilityTasks, TradeTasks}
    /\ world \in IF IsTrades THEN TradeWorlds ELSE SeriesWorlds
    /\ stored \in IF IsTrades THEN {{}}
                  ELSE {rs \in SUBSET world : rs # {} => Min(Times(rs)) <= End}
    /\ todo = Plan
    /\ at = None /\ rows = {} /\ got = {} /\ saved = {} /\ cache = None
    /\ worker = "fetching" /\ result = None /\ late = FALSE /\ outcome = None /\ odd = {}

fixed == <<task, world, stored>>
parentVars == <<late, outcome>>

\* How a history fetch hands over its rows: to the chunk callback, page by page or all at
\* once, and again as its return value or not.
CandleHistory       == [perPage |-> TRUE,  returned |-> TRUE]
FundingHistory      == [perPage |-> TRUE,  returned |-> FALSE]
OpenInterestHistory == [perPage |-> TRUE,  returned |-> FALSE]
VolatilityHistory   == [perPage |-> FALSE, returned |-> FALSE]

History == CASE task.dataset = "ohlcv"         -> CandleHistory
             [] task.dataset = "funding"       -> FundingHistory
             [] task.dataset = "open_interest" -> OpenInterestHistory
             [] task.dataset = "volatility"    -> VolatilityHistory

StreamsPages == ~IsTrades /\ Bootstraps /\ History.perPage

FirstCursor == CASE task.dataset = "open_interest" -> 0
                 [] Bootstraps /\ task.dataset \in {"ohlcv", "funding"} -> Window[2]
                 [] OTHER -> Window[1]

\* fetch_open_interest_range asks the exchange only if the process holds no history yet.
OpenWindow ==
    /\ worker = "fetching" /\ at = None /\ todo # {}
    /\ IF cache = None THEN at' = Open(FirstCursor) /\ rows' = {}
                       ELSE at' = Closed /\ rows' = cache
    /\ UNCHANGED <<fixed, todo, got, cache, saved, worker, result, parentVars, odd>>

Asking == worker = "fetching" /\ at # None /\ at.cursor # Stop

Absorb(page, next, oddity) ==
    /\ rows' = rows \cup page
    /\ saved' = IF StreamsPages THEN saved \cup page ELSE saved
    /\ at' = [Open(next) EXCEPT !.pages = IF IsTrades THEN at.pages + 1 ELSE 0,
                                !.seen = at.seen \cup {next}]
    /\ odd' = odd \cup oddity
    /\ UNCHANGED <<fixed, todo, got, cache, worker, result, parentVars>>

AnswerTrades ==
    /\ Asking /\ IsTrades
    /\ LET page == First(PageSize, TradeMatches)
           kept == OfInstrument(page)
       IN Absorb(kept, AfterTrades(kept, page # TradeMatches),
                 IF task.dataset = "perps" /\ Routes[at.route] = "currency" THEN {"fallback"} ELSE {})

AnswerCandles ==
    /\ Asking /\ task.dataset = "ohlcv"
    /\ LET page == ChartPage(IF Bootstraps THEN CandleHistorySpan ELSE CandleSpan)
       IN Absorb(page, IF Bootstraps THEN AfterCandleHistory(page) ELSE AfterCandles(page), {})

AnswerFunding ==
    /\ Asking /\ task.dataset = "funding"
    /\ LET page == FundingPage(IF Bootstraps THEN FundingHistorySpan ELSE FundingSpan)
       IN Absorb(page, IF Bootstraps THEN AfterFundingHistory(page) ELSE AfterFunding(page), {})

\* The exchange's next token, one it already gave, or the page before under a new token,
\* whose rows are in already; bound: tokens up to Now + 1.
AnswerOpenInterest ==
    /\ Asking /\ task.dataset = "open_interest"
    /\ LET more == Cardinality(world) > Points * (at.cursor + 1)
       IN \/ LET token == IF more THEN at.cursor + 1 ELSE None
             IN Absorb(OpenInterestPage, AfterOpenInterest(OpenInterestPage, token), {})
          \/ \E token \in at.seen :
                Absorb(OpenInterestPage, AfterOpenInterest(OpenInterestPage, token),
                       IF more THEN {"repeated"} ELSE {})
          \/ LET page == PageAt(at.cursor - 1)
             IN /\ at.cursor \in 1..Now
                /\ Absorb(page, AfterOpenInterest(page, at.cursor + 1), {"repeated"})

AnswerVolatility ==
    /\ Asking /\ task.dataset = "volatility"
    /\ LET wanted == Within(world, <<at.cursor, Window[2]>>)
           page   == Earliest(Points, wanted)
       IN Absorb(page, AfterVolatility(page, page # wanted), {})

\* timeout: no answer in time or no route; unavailable: HTTP 429, 5xx or a refused connection;
\* badRequest: HTTP 400; rejected: another HTTP error or invalid JSON; dropped: the
\* connection breaks while the answer is read, which get_json does not catch.
Failures == {"timeout", "unavailable", "badRequest", "rejected", "dropped"}

\* Mutant of RetriesRequest: one retry too many.
RetriesOnceMore(kind) == kind \in {"timeout", "unavailable"} /\ at.try <= HttpRetries

\* get_json: transient failures are retried.
RetriesRequest(kind) == kind \in {"timeout", "unavailable"} /\ at.try < HttpRetries

\* is_route_failure: of what get_json raises, timeouts count as failures of the route.
RouteFails(kind) == IsTrades /\ kind = "timeout" /\ ~RetriesRequest(kind)

RetryRequest ==
    /\ Asking
    /\ \E kind \in Failures :
          \/ RetriesRequest(kind) /\ at' = [at EXCEPT !.try = @ + 1]
          \/ RouteFails(kind) /\ at.attempt < RouteAttempts
             /\ at' = [at EXCEPT !.attempt = @ + 1, !.try = 0]
          \/ RouteFails(kind) /\ at.attempt = RouteAttempts /\ at.route < Len(Routes)
             /\ at' = [at EXCEPT !.route = @ + 1, !.attempt = 1, !.try = 0]
    /\ UNCHANGED <<fixed, todo, rows, got, cache, saved, worker, result, parentVars, odd>>

Raises(kind) == /\ ~RetriesRequest(kind)
                /\ RouteFails(kind) => at.attempt = RouteAttempts /\ at.route = Len(Routes)

\* fetch_volatility_index_range returns no rows when the client fails, fetch_funding_range
\* and _fetch_open_interest_page when the exchange calls the request bad.
Swallows(kind) == \/ task.dataset = "volatility" /\ kind # "dropped"
                  \/ task.dataset \in {"funding", "open_interest"} /\ kind = "badRequest"

SwallowFailure ==
    /\ Asking
    /\ \E kind \in Failures : Raises(kind) /\ Swallows(kind)
    /\ at' = Closed /\ odd' = odd \cup {"swallowed"}
    /\ rows' = IF task.dataset = "open_interest" THEN rows ELSE {}
    /\ UNCHANGED <<fixed, todo, got, cache, saved, worker, result, parentVars>>

\* timeout_worker puts the result into the queue; inline it is simply returned.
Finished == IF task.worker THEN "flushing" ELSE "exited"

RaiseFailure ==
    /\ Asking
    /\ \E kind \in Failures : Raises(kind) /\ ~Swallows(kind)
    /\ result' = "error" /\ worker' = Finished
    /\ UNCHANGED <<fixed, todo, at, rows, got, cache, saved, parentVars, odd>>

\* The rows of the window; a bounded history is streamed per window (fetch_bounded_daily_rows).
CloseWindow ==
    /\ worker = "fetching" /\ at # None /\ at.cursor = Stop
    /\ LET asked == IF Bootstraps THEN rows ELSE Within(rows, Window)
       IN /\ got' = got \cup asked
          /\ saved' = IF stored = {} /\ ~IsTrades THEN saved \cup asked ELSE saved
    /\ cache' = IF task.dataset = "open_interest" /\ ~Bootstraps THEN rows ELSE cache
    /\ todo' = todo \ {Window} /\ at' = None /\ rows' = {}
    /\ UNCHANGED <<fixed, worker, result, parentVars, odd>>

\* What the fetch returns.
Returned == IF ~IsTrades /\ Bootstraps /\ ~History.returned THEN {} ELSE got

FinishFetch ==
    /\ worker = "fetching" /\ at = None /\ todo = {}
    /\ result' = "ok" /\ worker' = Finished
    /\ UNCHANGED <<fixed, todo, at, rows, got, cache, saved, parentVars, odd>>

\* The worker exits once its result is in the pipe; nobody reads the pipe before that.
Flush ==
    /\ worker = "flushing"
    /\ result = "error" \/ Cardinality(Returned) <= PipeRows
    /\ worker' = "exited"
    /\ UNCHANGED <<fixed, todo, at, rows, got, cache, saved, result, parentVars, odd>>

\* The worker process ends without a result.
Die ==
    /\ task.worker /\ worker \in {"fetching", "flushing"}
    /\ worker' = "exited" /\ result' = None
    /\ UNCHANGED <<fixed, todo, at, rows, got, cache, saved, parentVars, odd>>

-----------------------------------------------------------------------------
(* The caller of the fetch.                                                *)

\* The fetch has ended: its rows go to the completion callback, which persists them.
Collect ==
    /\ outcome = None /\ worker = "exited"
    /\ outcome' = IF result = "ok" THEN "rows" ELSE "error"
    /\ saved' = IF result = "ok" THEN saved \cup Returned ELSE saved
    /\ UNCHANGED <<fixed, todo, at, rows, got, cache, worker, result, late, odd>>

TimePasses ==
    /\ task.worker /\ ~late /\ outcome = None
    /\ late' = TRUE
    /\ UNCHANGED <<fixed, todo, at, rows, got, cache, saved, worker, result, outcome, odd>>

\* Mutant of Timeout: the worker is left running.
TimeoutLeavesWorker ==
    /\ late /\ outcome = None
    /\ outcome' = "timeout"
    /\ UNCHANGED <<fixed, todo, at, rows, got, cache, saved, worker, result, late, odd>>

\* The deadline is looked at before the worker is: it may have exited in the meantime.
Timeout ==
    /\ late /\ outcome = None
    /\ outcome' = "timeout"
    /\ worker' = IF worker = "exited" THEN "exited" ELSE "killed"
    /\ UNCHANGED <<fixed, todo, at, rows, got, cache, saved, result, late, odd>>

Done == outcome # None /\ worker \notin {"fetching", "flushing"} /\ UNCHANGED vars

Fetch == \/ OpenWindow \/ AnswerTrades \/ AnswerCandles \/ AnswerFunding
         \/ AnswerOpenInterest \/ AnswerVolatility \/ RetryRequest
         \/ SwallowFailure \/ RaiseFailure \/ CloseWindow \/ FinishFetch

Next == Fetch \/ Flush \/ Die \/ Collect \/ TimePasses \/ Timeout \/ Done

Spec == Init /\ [][Next]_vars
             /\ WF_vars(Fetch) /\ WF_vars(Flush) /\ WF_vars(Collect)
             /\ WF_vars(TimePasses) /\ WF_vars(Timeout)

-----------------------------------------------------------------------------
(* Properties.                                                             *)

\* The exchange's rows are such that the paging rules cannot lose any: trades whose
\* timestamps grow with their ids and fit under the page cap, series without holes.
Regular ==
    IF IsTrades
    THEN /\ \A r, x \in world : r.id < x.id => r.ts < x.ts
         /\ MaxPages = 0 \/ Cardinality(world) <= MaxPages * PageSize
    ELSE Bootstraps => \A t \in 0..Now : t % Interval = 0 /\ world # {} /\ t >= Min(Times(world))
                                            => Row(t) \in world

\* What the task set out to bring into the lake.
Wanted ==
    LET first == CASE IsTrades                         -> 1
                   [] ~IsTrades /\ stored = {}         -> IF task.bound = None THEN 0 ELSE task.bound
                   [] stored # {} /\ task.tail         -> Max({Max(Times(stored)) + 1} \cup ({task.bound} \ {None}))
                   [] stored # {} /\ ~task.tail        -> IF task.bound = None THEN Min(Times(stored)) ELSE task.bound
    IN {r \in world : r.own /\ r.ts \in first..(IF IsTrades THEN Now ELSE End)}

\* A task reported as successful has brought every wanted row of the exchange into the lake,
\* whatever the windows, pages, retries and routes were, unless a client failure was taken
\* for an empty answer, perps fell back to the currency route, or a token or a page came twice.
SuccessIsComplete == outcome = "rows" /\ Regular /\ odd = {} => Wanted \subseteq stored \cup saved

\* A task persists rows of its own instrument and range only: a row still in progress, or one
\* before both the start bound and the lake, gets there by an unbounded bootstrap alone.
PersistsOnlyAsked ==
    \A r \in saved : /\ task.dataset = "perps" => r.own
                     /\ ~Bootstraps /\ ~IsTrades =>
                            r.ts \in Min(Times(stored) \cup ({task.bound} \ {None}))..End

\* Once a task has ended for its caller nothing writes on its behalf: the worker of a
\* timed-out task is dead, it does not go on streaming chunks beside the next tasks.
NothingWritesAfterwards == [][outcome # None => saved' = saved]_vars

\* Every task ends: the paging loops move on whatever the exchange answers, retries are
\* bounded, and a worker that cannot hand over a large result runs into its deadline.
Terminates == <>(outcome # None)
=============================================================================
