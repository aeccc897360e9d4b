--------------------------- MODULE TradeCoverage ---------------------------
(***************************************************************************)
(* Bronze coverage of the trades of one symbol.  Runs of bronze-build      *)
(* fetch trades window by window: a full-gap run fetches the minutes with  *)
(* neither a stored trade nor a "confirmed empty" mark, a tail run what    *)
(* follows the latest stored trade (fetch_symbol_trades).                  *)
(*                                                                         *)
(* Time is counted in instants, PerMinute of them in a minute; instants    *)
(* stand for milliseconds.  One UTC day; history starts at instant 0, the  *)
(* configured start bound.  The exchange answers a request completely.     *)
(***************************************************************************)
EXTENDS Integers, FiniteSets, FiniteSetsExt

CONSTANTS Minutes,      \* bound: minutes of history
          PerMinute,    \* instants of a minute
          WindowSize,   \* minutes per fetch window
          TailRuns,     \* some runs are --tail-delta-only
          MaxRuns,      \* bound: runs of bronze-build
          MaxFailures   \* bound: failing windows, crashes

ASSUME CoverageAssumption ==
    /\ {Minutes, PerMinute, WindowSize} \subseteq Nat \ {0}
    /\ TailRuns \in BOOLEAN /\ {MaxRuns, MaxFailures} \subseteq Nat

VARIABLES
    traded,   \* instants of all trades, past and future
    clock,    \* instants elapsed
    stored,   \* trades in the lake
    empty,    \* minutes marked confirmed_empty
    pc,       \* idle, gap, tail
    horizon,  \* end_open_ms of the run: the first instant of the last closed minute
    windows,  \* windows still to fetch, <<first, last>> instant
    fetched,  \* rows a tail run holds in memory
    failed,   \* windows that failed in this run
    tried,    \* windows tried in this run
    cut,      \* history: minutes that some planned window covers only in part
    filled,   \* history: the horizon of the latest full-gap run without failures
    runs, failures

runVars == <<pc, horizon, windows, fetched, failed, tried>>
vars == <<traded, clock, stored, empty, runVars, cut, filled, runs, failures>>

Instants == 0..(Minutes * PerMinute - 1)
Minute(t) == t \div PerMinute
FirstOf(m) == m * PerMinute
InMinute(m) == FirstOf(m)..(FirstOf(m) + PerMinute - 1)
MinutesOf(ts) == {Minute(t) : t \in ts}

\* _last_closed_open_ms: the open of the minute before the one in progress.
LastClosedOpen == FirstOf(Minute(clock) - 1)

\* split_range_into_trade_windows: windows of fixed length from the range's start.
TradeWindows(first, last) ==
    {<<s, Min({s + WindowSize * PerMinute - 1, last})>> :
        s \in {t \in first..last : (t - first) % (WindowSize * PerMinute) = 0}}

\* Mutant of MissingRanges: the range still open after the loop is forgotten.
ClosedRanges(covered, last) ==
    LET missing == (0..Minute(last)) \ covered IN
    {<<FirstOf(run[1]), FirstOf(run[2]) + PerMinute - 1>> :
        run \in {ab \in missing \X missing :
            /\ ab[1]..ab[2] \subseteq missing
            /\ ab[1] <= ab[2] /\ ab[1] - 1 \notin missing
            /\ ab[2] + 1 \in (0..Minute(last)) \ missing}}

\* missing_trade_minute_ranges: maximal runs of uncovered minutes up to the
\* horizon's, clipped to the requested instants.
MissingRanges(covered, last) ==
    LET missing == (0..Minute(last)) \ covered IN
    {<<FirstOf(run[1]), Min({last, FirstOf(run[2]) + PerMinute - 1})>> :
        run \in {ab \in missing \X missing :
            /\ ab[1]..ab[2] \subseteq missing
            /\ ab[1] <= ab[2] /\ ab[1] - 1 \notin missing /\ ab[2] + 1 \notin missing}}

Covered == MinutesOf(stored) \cup empty

\* Windows of a full-gap run; without a stored trade the whole history is fetched
\* again, confirmed-empty minutes included.
GapWindows(last) ==
    IF stored = {} THEN TradeWindows(0, last)
    ELSE UNION {TradeWindows(range[1], range[2]) : range \in MissingRanges(Covered, last)}

\* The rows of a window that was answered, and minute_starts_for_window.
Rows(w) == traded \cap (w[1]..w[2])
MinuteStarts(w) == Minute(w[1])..Minute(w[2])

\* The minutes a window begins or ends within.
CutBy(w) == {m \in {Minute(w[1]), Minute(w[2])} : ~(InMinute(m) \subseteq w[1]..w[2])}

\* write_grouped_rows and write_empty_trade_minutes: rows and marks are merged with
\* those of the same partition.
Persist(rows) == stored' = stored \cup rows
MarkEmpty(w) == empty' = empty \cup MinuteStarts(w)

Init ==
    /\ traded \in SUBSET Instants
    /\ clock = 0 /\ stored = {} /\ empty = {}
    /\ pc = "idle" /\ horizon = 0 /\ windows = {} /\ fetched = {} /\ failed = {} /\ tried = {}
    /\ cut = {} /\ filled = 0 /\ runs = 0 /\ failures = 0

Tick ==
    /\ clock < Minutes * PerMinute
    /\ clock' = clock + 1
    /\ UNCHANGED <<traded, stored, empty, runVars, cut, filled, runs, failures>>

Begin(mode, plan) ==
    /\ pc = "idle" /\ runs < MaxRuns /\ LastClosedOpen >= 0
    /\ runs' = runs + 1
    /\ pc' = mode
    /\ horizon' = LastClosedOpen
    /\ windows' = plan
    /\ fetched' = {} /\ failed' = {} /\ tried' = {}
    /\ cut' = cut \cup UNION {CutBy(w) : w \in plan}
    /\ UNCHANGED <<traded, clock, stored, empty, filled, failures>>

BeginGap == Begin("gap", GapWindows(LastClosedOpen))

\* A tail run starts after the latest stored trade.
BeginTail ==
    /\ TailRuns /\ stored # {}
    /\ Begin("tail", TradeWindows(Max(stored) + 1, LastClosedOpen))

\* A tail run over an empty lake fetches and stores all history up to now, the
\* minute in progress included.
BootstrapTail ==
    /\ TailRuns /\ stored = {} /\ pc = "idle" /\ runs < MaxRuns /\ LastClosedOpen >= 0
    /\ runs' = runs + 1
    /\ Persist({t \in traded : t < clock})
    /\ cut' = cut \cup {Minute(clock)}
    /\ UNCHANGED <<traded, clock, empty, runVars, filled, failures>>

Earliest(w) == w \in windows /\ \A v \in windows : w[1] <= v[1]

\* Mutant of FetchGap: every answered window is marked confirmed_empty.
MarkAllWindows(w) ==
    /\ pc = "gap" /\ Earliest(w)
    /\ Persist(Rows(w)) /\ MarkEmpty(w)
    /\ windows' = windows \ {w} /\ tried' = tried \cup {w}
    /\ UNCHANGED <<traded, clock, pc, horizon, fetched, failed, cut, filled, runs, failures>>

\* A window is answered: its rows go to the lake at once, and a window without
\* rows marks its minutes confirmed_empty.
FetchGap(w) ==
    /\ pc = "gap" /\ Earliest(w)
    /\ Persist(Rows(w))
    /\ IF Rows(w) = {} THEN MarkEmpty(w) ELSE UNCHANGED empty
    /\ windows' = windows \ {w} /\ tried' = tried \cup {w}
    /\ UNCHANGED <<traded, clock, pc, horizon, fetched, failed, cut, filled, runs, failures>>

\* A tail run keeps its rows until the task is complete.
FetchTail(w) ==
    /\ pc = "tail" /\ Earliest(w)
    /\ fetched' = fetched \cup Rows(w)
    /\ windows' = windows \ {w} /\ tried' = tried \cup {w}
    /\ UNCHANGED <<traded, clock, stored, empty, pc, horizon, failed, cut, filled, runs, failures>>

\* A recoverable error (timeout, unreachable network) skips the window.
FailWindow(w) ==
    /\ pc # "idle" /\ Earliest(w) /\ failures < MaxFailures
    /\ failures' = failures + 1
    /\ failed' = failed \cup {w}
    /\ windows' = windows \ {w} /\ tried' = tried \cup {w}
    /\ UNCHANGED <<traded, clock, stored, empty, pc, horizon, fetched, cut, filled, runs>>

\* Any other error, or a crash, ends the task.
Abort ==
    /\ pc # "idle" /\ failures < MaxFailures
    /\ failures' = failures + 1
    /\ pc' = "idle" /\ windows' = {}
    /\ UNCHANGED <<traded, clock, stored, empty, horizon, fetched, failed, tried, cut, filled, runs>>

\* raise_if_all_trade_windows_failed, or the rows of a tail run are persisted.
AllFailed == tried # {} /\ failed = tried

\* Every window was tried.
Finish ==
    /\ pc # "idle" /\ windows = {}
    /\ pc' = "idle"
    /\ IF pc = "tail" /\ ~AllFailed THEN Persist(fetched) ELSE UNCHANGED stored
    /\ filled' = IF pc = "gap" /\ failed = {} THEN horizon ELSE filled
    /\ UNCHANGED <<traded, clock, empty, horizon, windows, fetched, failed, tried, cut, runs, failures>>

Next ==
    \/ Tick \/ BeginGap \/ BeginTail \/ BootstrapTail \/ Abort \/ Finish
    \/ \E w \in windows : FetchGap(w) \/ FetchTail(w) \/ FailWindow(w)

Spec == Init /\ [][Next]_vars

\* Type invariant: every variable keeps the shape fetch_symbol_trades and the lake give it.
TypeOK ==
    /\ traded \subseteq Instants /\ clock \in 0..(Minutes * PerMinute)
    /\ stored \subseteq Instants /\ fetched \subseteq Instants
    /\ empty \subseteq 0..(Minutes - 1) /\ cut \subseteq 0..Minutes
    /\ pc \in {"idle", "gap", "tail"}
    /\ horizon \in Instants /\ filled \in Instants
    /\ {windows, failed, tried} \subseteq SUBSET (Instants \X Instants)
    /\ runs \in 0..MaxRuns /\ failures \in 0..MaxFailures

\* Full-gap runs decide by the minute what is covered, so outside the minutes within
\* which some window began or ended, a minute holds all of its trades or none, and
\* one marked confirmed_empty had none - whichever windows failed and wherever a run
\* was aborted (missing_trade_minute_ranges, write_empty_trade_minutes).
WholeMinutes ==
    \A m \in (0..(Minutes - 1)) \ cut :
        LET trades == traded \cap InMinute(m) IN
        /\ stored \cap trades \in {{}, trades}
        /\ m \in empty => trades = {}

\* Once a full-gap run ended without a failed window, no trade before its horizon
\* is missing, whatever holes earlier runs of either kind left behind: internal,
\* head and tail gaps are rescanned (README.md:261), again by the minute.
RescansGaps ==
    \A t \in traded : t < filled /\ Minute(t) \notin cut => t \in stored

\* A minute marked confirmed_empty is quiet: the exchange has no trade in it
\* (write_empty_trade_minutes after a successful zero-row fetch).
EmptyIsQuiet == \A m \in empty : traded \cap InMinute(m) = {}
=============================================================================
