------------------------ MODULE ExchangeFetchProofs ------------------------
(***************************************************************************)
(* Proofs about ExchangeFetch, for every dataset, history and bound.  The  *)
(* plan has a window for every row that is wanted and not stored, an       *)
(* answer brings what was pending or leaves it at the next cursor, and so  *)
(* a task that succeeds is complete.  It persists what it was asked for    *)
(* only, and nothing once it has ended for its caller.                     *)
(***************************************************************************)
EXTENDS ExchangeFetch, NumberLemmas

Ended == {"exited", "killed"}

\* The strengthening: no outcome while the worker fetches or flushes.
EndedIsQuiet == outcome # None => worker \in Ended

\* Answers were regular so far: nothing was swallowed, repeated or taken from a fallback.
Sound == Regular /\ odd = {}

\* The exchange's rows are finitely many, on the grid of their dataset and inside the history.
WorldOK ==
    /\ task.bound \in Bounds \cup {None}
    /\ IsFiniteSet(world) /\ stored \subseteq world
    /\ IsTrades => /\ stored = {} /\ task.bound = None
                   /\ \A r \in world : r.ts \in 1..TradeSpan /\ r.id \in Nat
    /\ ~IsTrades => /\ \A r \in world : /\ r.ts \in 0..Now /\ r.ts % Interval = 0
                                        /\ r = Row(r.ts)
                    /\ stored # {} => Min(Times(stored)) <= End

\* The first instant a series task may ask for.
LowerBound == Min(Times(stored) \cup ({task.bound} \ {None}))

\* The windows left to fetch lie in the range of the task.
WindowsOK ==
    /\ todo \subseteq (0..(Now + 1)) \X (0..Now)
    /\ IsTrades => todo \subseteq {<<1, TradeSpan>>}
    /\ ~IsTrades => IF Bootstraps THEN todo \subseteq {<<0, Now>>}
                    ELSE \A w \in todo : LowerBound <= w[1] /\ w[2] <= End

\* The states of a paging loop.
Cursors == [cursor : Stop..(Now + 1), pages : Nat, seen : SUBSET Int, route : Nat,
            attempt : 1..RouteAttempts, try : 0..HttpRetries]

\* The histories that are read backwards in time.
Backward == Bootstraps /\ task.dataset \in {"ohlcv", "funding"}

\* An open window has a request to make; trades before its cursor have been collected, at
\* least a full page per request, and open interest has seen no token beyond its cursor.
CursorOK ==
    at # None =>
        /\ todo # {} /\ at \in Cursors /\ at.route \in DOMAIN Routes
        /\ Backward => at.cursor <= Now
        /\ at.cursor # Stop /\ task.dataset = "open_interest" => at.seen \subseteq 1..at.cursor
        /\ at.cursor # Stop /\ IsTrades => /\ at.pages * PageSize <= Cardinality(rows)
                                           /\ \A r \in rows : r.ts < at.cursor

\* What has been collected is of the task's own instrument and range.
RowsOK ==
    /\ rows \cup got \cup saved \subseteq world
    /\ task.dataset = "perps" => \A r \in rows \cup got \cup saved : r.own
    /\ ~IsTrades /\ ~Bootstraps => \A r \in got \cup saved : r.ts \in LowerBound..End
    /\ ~IsTrades /\ stored = {} => got \subseteq saved
    /\ cache # None => task.dataset = "open_interest" /\ ~Bootstraps /\ cache \subseteq world

\* The paging loop has yet to bring row r when it is at the cursor.
PendingAt(cursor, r) ==
    /\ cursor # Stop
    /\ CASE Backward                        -> r.ts <= cursor
         [] task.dataset = "open_interest"  -> r \notin Latest(Points * cursor, world)
         [] OTHER                           -> r.ts >= cursor

\* Rows the open window has to bring; open interest is paged as a whole.
Expected == {r \in world : r.own /\ (task.dataset = "open_interest" \/ r.ts \in Window[1]..Window[2])}

\* What the open window has to bring is collected or pending, and a cached history is whole.
PagesCover ==
    Sound => /\ at # None => \A r \in Expected : r \in rows \/ PendingAt(at.cursor, r)
             /\ cache # None => world \subseteq cache

\* What is wanted is in the lake, collected, or in a window still to fetch.
WindowsCover ==
    Sound => \A r \in Wanted : r \in stored \cup got \/ \E w \in todo : r.ts \in w[1]..w[2]

\* A fetch has no result before it ends, and none but an error before its last window is closed.
ResultOK ==
    /\ worker = "fetching" => result = None
    /\ result = "ok" => todo = {}

\* The inductive invariant.
IInv ==
    /\ TypeOK /\ WorldOK /\ WindowsOK /\ CursorOK /\ RowsOK
    /\ PagesCover /\ WindowsCover /\ ResultOK /\ EndedIsQuiet
    /\ SuccessIsComplete

-----------------------------------------------------------------------------
(* Times and bounds.                                                       *)

\* The bounds are natural numbers, and what divides or counts is positive.
LEMMA Positive == /\ {Interval, Day, Points, PageSize, RouteAttempts} \subseteq Nat \ {0}
                  /\ {Now, MaxTrades, TradeSpan, MaxPages, HttpRetries, PipeRows} \subseteq Nat
BY FetchAssumption

\* Max and Min of a finite set of integers are members of it that bound it.
LEMMA MaxIsGreatest ==
    ASSUME NEW S, S \subseteq Int, IsFiniteSet(S), S # {}
    PROVE  Max(S) \in S /\ \A x \in S : x <= Max(S)
<1>1. \E x \in S : \A y \in S : x >= y
  BY GreatestInteger
<1> QED BY <1>1 DEF Max

\* The same for the least.
LEMMA MinIsLeast ==
    ASSUME NEW S, S \subseteq Int, IsFiniteSet(S), S # {}
    PROVE  Min(S) \in S /\ \A x \in S : Min(S) <= x
<1>1. \E x \in S : \A y \in S : x =< y
  BY LeastInteger
<1> QED BY <1>1 DEF Min

\* The larger and the smaller of two integers.
LEMMA PairMinMax ==
    ASSUME NEW a \in Int, NEW b \in Int
    PROVE  /\ Max({a, b}) = IF a >= b THEN a ELSE b
           /\ Min({a, b}) = IF a <= b THEN a ELSE b
<1>1. IsFiniteSet({a, b})
  <2>1. IsFiniteSet({a} \cup {b})
    BY FS_Singleton, FS_AddElement
  <2>2. {a} \cup {b} = {a, b}
    OBVIOUS
  <2> QED BY <2>1, <2>2
<1>2. Max({a, b}) \in {a, b} /\ Min({a, b}) \in {a, b}
      /\ \A x \in {a, b} : x <= Max({a, b}) /\ Min({a, b}) <= x
  BY <1>1, MaxIsGreatest, MinIsLeast
<1> QED BY <1>2

\* The timestamps of finitely many rows.
LEMMA FiniteTimes ==
    ASSUME NEW rs, IsFiniteSet(rs)
    PROVE  IsFiniteSet(Times(rs))
<1> DEFINE time == [r \in rs |-> r.ts]
<1>1. time \in Surjection(rs, Times(rs))
  BY DEF Surjection, Times
<1> HIDE DEF time
<1> QED BY <1>1, FS_Surjection

\* The timestamps of some rows of the exchange, the first and the last of them.
LEMMA WorldTimes ==
    ASSUME WorldOK, NEW rs, rs \subseteq world
    PROVE  /\ IsFiniteSet(rs) /\ IsFiniteSet(Times(rs)) /\ Times(rs) \subseteq 0..Now
           /\ rs # {} <=> Times(rs) # {}
           /\ \A r \in rs : r.ts \in Times(rs)
           /\ \A t \in Times(rs) : \E r \in rs : t = r.ts
           /\ rs # {} => /\ Max(Times(rs)) \in Times(rs)
                         /\ Min(Times(rs)) \in Times(rs)
                         /\ \A r \in rs : Min(Times(rs)) <= r.ts /\ r.ts <= Max(Times(rs))
<1>1. IsFiniteSet(rs)
  BY FS_Subset DEF WorldOK
<1>2. IsFiniteSet(Times(rs))
  BY <1>1, FiniteTimes
<1>3. \A r \in world : r.ts \in 0..Now
  BY FetchAssumption DEF WorldOK
<1>4. Times(rs) \subseteq 0..Now
  BY <1>3 DEF Times
<1>5. /\ rs # {} <=> Times(rs) # {}
      /\ \A r \in rs : r.ts \in Times(rs)
      /\ \A t \in Times(rs) : \E r \in rs : t = r.ts
  BY DEF Times
<1>6. Times(rs) \subseteq Int
  BY <1>4
<1>7. ASSUME rs # {}
      PROVE  /\ Max(Times(rs)) \in Times(rs) /\ \A t \in Times(rs) : t <= Max(Times(rs))
             /\ Min(Times(rs)) \in Times(rs) /\ \A t \in Times(rs) : Min(Times(rs)) <= t
  BY <1>2, <1>5, <1>6, <1>7, MaxIsGreatest, MinIsLeast
<1> QED BY <1>1, <1>2, <1>4, <1>5, <1>7

\* Rows of a series lie Interval apart.
LEMMA MultiplesApart ==
    ASSUME NEW s \in Int, NEW t \in Int, s % Interval = 0, t % Interval = 0, s < t
    PROVE  s + Interval <= t
<1>1. Interval \in Nat \ {0}
  BY Positive
<1>2. s = (s \div Interval) * Interval /\ t = (t \div Interval) * Interval
      /\ s \div Interval \in Int /\ t \div Interval \in Int
  BY <1>1, Quotient
<1>3. s \div Interval < t \div Interval
  BY <1>1, <1>2, Multiples
<1> QED BY <1>1, <1>2, <1>3, Multiples

-----------------------------------------------------------------------------
(* Planning: the windows lie in the range of the task and leave out nothing *)
(* that is wanted and not stored.                                          *)

\* The last closed interval begins an interval at least before now.
LEMMA EndIsClosed == /\ End \in Int /\ End + Interval <= Now /\ End <= Now
                     /\ End % Interval = 0
<1>1. Interval \in Nat \ {0} /\ Now \in Nat
  BY Positive
<1> DEFINE q == Now \div Interval
<1>2. q \in Int /\ q * Interval <= Now
  BY <1>1, Quotient
<1>3. End \in Int /\ q * Interval \in Int /\ End = q * Interval - Interval
  <2>1. (q - 1) * Interval = q * Interval - Interval
    BY <1>1, <1>2
  <2> QED BY <1>1, <1>2, <2>1, Multiples DEF End
<1>4. ((q - 1) * Interval) % Interval = 0
  <2> HIDE DEF q
  <2> QED BY <1>1, <1>2
<1> QED BY <1>1, <1>2, <1>3, <1>4 DEF End

\* The day windows of a range lie in it and leave out no instant of it.
LEMMA DayWindowsCover ==
    ASSUME NEW first \in Int, NEW last \in Int
    PROVE  /\ DayWindows(first, last) \subseteq (first..last) \X (first..last)
           /\ \A t \in first..last : \E w \in DayWindows(first, last) : t \in w[1]..w[2]
<1>1. CASE last < first
  BY <1>1 DEF DayWindows
<1>2. CASE first <= last
  <2>1. Day \in Nat \ {0}
    BY Positive
  <2> DEFINE window(d) == <<Max({first, d * Day}), Min({last, d * Day + Day - 1})>>
             days == (first \div Day)..(last \div Day)
  <2>2. DayWindows(first, last) = {window(d) : d \in days}
    BY <1>2 DEF DayWindows
  <2>3. /\ first \div Day \in Int /\ (first \div Day) * Day <= first
        /\ first < (first \div Day) * Day + Day
        /\ last \div Day \in Int /\ (last \div Day) * Day <= last
        /\ (first \div Day) * Day \in Int /\ (last \div Day) * Day \in Int
    BY <2>1, Quotient, Multiples
  <2>4. ASSUME NEW d \in days
        PROVE  /\ d \in Int /\ d * Day \in Int
               /\ (first \div Day) * Day <= d * Day /\ d * Day <= (last \div Day) * Day
               /\ window(d)[1] = IF first >= d * Day THEN first ELSE d * Day
               /\ window(d)[2] = IF last <= d * Day + Day - 1 THEN last ELSE d * Day + Day - 1
    <3>1. d \in Int /\ first \div Day <= d /\ d <= last \div Day
      BY <2>3
    <3>2. d * Day \in Int /\ d * Day + Day - 1 \in Int
      BY <2>1, <3>1, Multiples
    <3> HIDE DEF days
    <3>3. /\ Max({first, d * Day}) = IF first >= d * Day THEN first ELSE d * Day
          /\ Min({last, d * Day + Day - 1}) = IF last <= d * Day + Day - 1 THEN last ELSE d * Day + Day - 1
      BY <3>2, PairMinMax
    <3>4. (first \div Day) * Day <= d * Day /\ d * Day <= (last \div Day) * Day
      BY <2>1, <2>3, <3>1, Multiples
    <3> QED BY <3>1, <3>2, <3>3, <3>4
  <2>5. ASSUME NEW w \in DayWindows(first, last)
        PROVE  w \in (first..last) \X (first..last)
    <3>1. PICK d \in days : w = window(d)
      BY <2>2
    <3>2. w = <<w[1], w[2]>>
      BY <3>1
    <3>3. w[1] \in first..last /\ w[2] \in first..last
      <4> HIDE DEF days, window
      <4> QED BY <1>2, <2>1, <2>3, <2>4, <3>1
    <3> QED BY <3>2, <3>3
  <2>6. ASSUME NEW t \in first..last
        PROVE  \E w \in DayWindows(first, last) : t \in w[1]..w[2]
    <3> DEFINE d == t \div Day
    <3>1. t \in Int /\ d \in Int /\ d * Day <= t /\ t < d * Day + Day /\ d * Day \in Int
      BY <2>1, Quotient, Multiples
    <3>2. first \div Day <= d /\ d <= last \div Day
      BY <2>1, <3>1, QuotientsOrdered
    <3>3. d \in days
      BY <2>3, <3>1, <3>2
    <3>4. window(d)[1] <= t /\ t <= window(d)[2] /\ window(d)[1] \in Int /\ window(d)[2] \in Int
      <4> HIDE DEF days, window, d
      <4> QED BY <2>1, <2>4, <3>1, <3>3
    <3>5. window(d) \in DayWindows(first, last)
      BY <2>2, <3>3
    <3> HIDE DEF window, days, d
    <3> QED BY <3>4, <3>5
  <2> QED BY <2>5, <2>6
<1> QED BY <1>1, <1>2

\* A start bound, when there is one, is an instant of the history.
LEMMA BoundIsInstant ==
    ASSUME WorldOK
    PROVE  /\ task.bound # None => task.bound \in 0..Now
           /\ {task.bound} \ {None} = IF task.bound = None THEN {} ELSE {task.bound}
BY FetchAssumption DEF WorldOK

\* The lower bound of a task that does not bootstrap is the least of what it knows.
LEMMA LowerBoundIsLeast ==
    ASSUME WorldOK, ~Bootstraps
    PROVE  /\ LowerBound \in 0..Now
           /\ \A t \in Times(stored) : LowerBound <= t
           /\ task.bound # None => LowerBound <= task.bound
           /\ task.bound = None => LowerBound = Min(Times(stored))
<1> DEFINE known == Times(stored) \cup ({task.bound} \ {None})
<1>1. /\ IsFiniteSet(Times(stored)) /\ Times(stored) \subseteq 0..Now
      /\ stored # {} => Times(stored) # {}
  BY WorldTimes DEF WorldOK
<1>2. IsFiniteSet({task.bound} \ {None})
  <2>1. IsFiniteSet({}) /\ IsFiniteSet({task.bound})
    BY FS_EmptySet, FS_Singleton
  <2> QED BY <2>1, BoundIsInstant
<1>3. IsFiniteSet(known)
  BY <1>1, <1>2, FS_Union
<1>4. known \subseteq 0..Now
  BY <1>1, BoundIsInstant
<1>5. known # {}
  BY <1>1, BoundIsInstant DEF Bootstraps
<1>6. Now \in Nat
  BY Positive
<1>7. Min(known) \in known /\ \A t \in known : Min(known) <= t
  <2>1. known \subseteq Int
    BY <1>4, <1>6
  <2> HIDE DEF known
  <2> QED BY <1>3, <1>5, <2>1, MinIsLeast
<1>8. Times(stored) \subseteq known /\ (task.bound # None => task.bound \in known)
      /\ (task.bound = None => known = Times(stored))
  OBVIOUS
<1>9. LowerBound = Min(known)
  BY DEF LowerBound
<1> HIDE DEF known
<1> QED BY <1>4, <1>7, <1>8, <1>9

\* Where the last known row is followed by nothing, and where two neighbours are apart.
LEMMA MissingRangesCover ==
    ASSUME WorldOK, NEW times, times \subseteq Times(stored), times # {},
           \A x \in times : x <= End,
           NEW t \in 0..End, t % Interval = 0, t \notin times, Min(times) < t, ~IsTrades
    PROVE  \E v \in MissingRanges(times) : v[1] <= t /\ t <= v[2]
<1>1. /\ IsFiniteSet(times) /\ times \subseteq 0..Now /\ Now \in Nat
  BY WorldTimes, FS_Subset, Positive DEF WorldOK
<1>2. times \subseteq Int /\ t \in Int /\ Interval \in Nat \ {0} /\ End \in Int
  BY <1>1, EndIsClosed, Positive
<1>3. Max(times) \in times /\ Min(times) \in times /\ \A x \in times : x <= Max(times)
  BY <1>1, <1>2, MaxIsGreatest, MinIsLeast
<1>4. \A x \in times : x % Interval = 0
  BY DEF Times, WorldOK
<1>7. Max(times) \in Int /\ t <= End /\ Max(times) # t
  <2>1. Max(times) \in Int
    BY <1>2, <1>3
  <2>2. t <= End
    BY <1>2
  <2>3. Max(times) # t
    BY <1>3
  <2> QED BY <2>1, <2>2, <2>3
<1>5. CASE Max(times) < t
  <2>1. Max(times) + Interval <= t
    BY <1>2, <1>3, <1>4, <1>5, MultiplesApart
  <2>2. Max(times) + Interval <= End
    BY <1>2, <1>7, <2>1
  <2>3. <<Max(times) + Interval, End>> \in MissingRanges(times)
    BY <2>2 DEF MissingRanges
  <2> DEFINE v == <<Max(times) + Interval, End>>
  <2>4. v[1] <= t /\ t <= v[2]
    BY <1>2, <2>1
  <2> QED BY <2>3, <2>4
<1>6. CASE t < Max(times)
  <2> DEFINE before == {x \in times : x < t}
             after == {x \in times : t < x}
             p == Max(before)
             q == Min(after)
  <2>1. IsFiniteSet(before) /\ IsFiniteSet(after)
    BY <1>1, FS_Subset
  <2>2. before # {} /\ after # {} /\ before \subseteq Int /\ after \subseteq Int
    BY <1>2, <1>3, <1>6
  <2>3. /\ p \in before /\ \A x \in before : x <= p
        /\ q \in after /\ \A x \in after : q <= x
    <3> HIDE DEF before, after
    <3> QED BY <2>1, <2>2, MaxIsGreatest, MinIsLeast
  <2>4. p \in times /\ q \in times /\ p < t /\ t < q
        /\ (\A x \in times : x < t => x <= p) /\ (\A x \in times : t < x => q <= x)
    <3> HIDE DEF p, q
    <3> QED BY <2>3
  <2> HIDE DEF p, q, before, after
  <2>5. p + Interval <= t /\ t + Interval <= q
    BY <1>2, <1>4, <2>4, MultiplesApart
  <2>6. p + Interval < q
    BY <1>2, <2>4, <2>5
  <2>7. times \cap (p + 1)..(q - 1) = {}
    <3> SUFFICES ASSUME NEW x \in times, x \in (p + 1)..(q - 1) PROVE FALSE
      OBVIOUS
    <3> QED BY <1>2, <2>4
  <2> DEFINE v == <<p + Interval, q - Interval>>
  <2>8. <<p, q>> \in {r \in times \X times : r[1] + Interval < r[2] /\ times \cap (r[1] + 1)..(r[2] - 1) = {}}
    BY <2>4, <2>6, <2>7
  <2>9. v \in InnerRanges(times)
    BY <2>8 DEF InnerRanges
  <2>10. v \in MissingRanges(times)
    BY <2>9 DEF MissingRanges
  <2>11. v[1] <= t /\ t <= v[2]
    BY <1>2, <2>4, <2>5
  <2> QED BY <2>10, <2>11
<1> QED BY <1>2, <1>7, <1>5, <1>6

\* The ranges a series task with a lake asks for, before they are cut into days.
TailStart == Max({Max(Times(stored)) + Interval} \cup ({task.bound} \ {None}))
Gaps == IF ~task.tail THEN WithHeadGap(Times(stored))
        ELSE IF TailStart <= End THEN {<<TailStart, End>>} ELSE {}

\* What the plan of a series task is, case by case.
LEMMA PlanOfSeries ==
    ASSUME WorldOK, ~IsTrades, task.dataset \in Series \cup Trades, task.tail \in BOOLEAN
    PROVE  /\ task.bound # None /\ End < task.bound => Plan = {}
           /\ Bootstraps => Plan = {<<0, Now>>}
           /\ stored = {} /\ task.bound # None /\ task.bound <= End => Plan = DayWindows(task.bound, End)
           /\ stored # {} /\ ~(task.bound # None /\ End < task.bound) => Plan \in {PerDay(Gaps), Gaps}
<1>1. Plan \in {SeriesWindows(PerDay), SeriesWindows(Whole)}
  BY FetchAssumption DEF Plan, CandleWindows, OpenInterestWindows, FundingWindows, VolatilityWindows, IsTrades
<1>2. End \in Int /\ PerDay({}) = {}
  BY EndIsClosed DEF PerDay
<1>3. CASE task.bound # None /\ End < task.bound
  BY <1>1, <1>2, <1>3, BoundIsInstant DEF SeriesWindows, Bootstraps
<1>4. CASE Bootstraps
  <2>1. None \notin 0..End
    BY <1>2, FetchAssumption
  <2> QED BY <1>1, <1>4, <2>1 DEF SeriesWindows, Bootstraps
<1>5. CASE stored = {} /\ task.bound # None /\ task.bound <= End
  <2>1. task.bound \in 0..End /\ ~(End < task.bound)
    BY <1>2, <1>5, BoundIsInstant
  <2> QED BY <1>1, <1>5, <2>1 DEF SeriesWindows, Bootstraps, BoundedWindows
<1>6. CASE stored # {} /\ ~(task.bound # None /\ End < task.bound)
  <2>1. Min(Times(stored)) <= End
    BY <1>6 DEF WorldOK
  <2>2. ~Bootstraps
    BY <1>6 DEF Bootstraps
  <2>3. CASE task.tail
    BY <1>1, <1>2, <1>6, <2>2, <2>3 DEF SeriesWindows, Gaps, TailStart, Whole
  <2>4. CASE ~task.tail
    BY <1>1, <1>2, <1>6, <2>1, <2>2, <2>4 DEF SeriesWindows, Gaps, Whole
  <2> QED BY <1>3, <1>6, <2>2, <2>3, <2>4
<1> QED BY <1>2, <1>3, <1>4, <1>5, <1>6 DEF Bootstraps

\* Cut by day or not, the windows lie where the ranges do and cover them.
LEMMA PerDayCovers ==
    ASSUME NEW ranges, NEW lo \in Int, ranges \subseteq (lo..End) \X (lo..End)
    PROVE  /\ PerDay(ranges) \subseteq (lo..End) \X (lo..End)
           /\ \A v \in ranges : \A t \in v[1]..v[2] : \E w \in PerDay(ranges) : t \in w[1]..w[2]
<1>1. End \in Int
  BY EndIsClosed
<1>2. ASSUME NEW v \in ranges
      PROVE  /\ v[1] \in lo..End /\ v[2] \in lo..End
             /\ DayWindows(v[1], v[2]) \subseteq (v[1]..v[2]) \X (v[1]..v[2])
             /\ \A t \in v[1]..v[2] : \E w \in DayWindows(v[1], v[2]) : t \in w[1]..w[2]
  <2>1. v[1] \in lo..End /\ v[2] \in lo..End
    OBVIOUS
  <2>2. v[1] \in Int /\ v[2] \in Int
    BY <1>1, <2>1
  <2> QED BY <2>1, <2>2, DayWindowsCover
<1>3. ASSUME NEW w \in PerDay(ranges) PROVE w \in (lo..End) \X (lo..End)
  <2>1. PICK v \in ranges : w \in DayWindows(v[1], v[2])
    BY DEF PerDay
  <2>2. w \in (v[1]..v[2]) \X (v[1]..v[2])
    BY <1>2, <2>1
  <2>3. v[1] \in lo..End /\ v[2] \in lo..End
    BY <1>2
  <2>4. w[1] \in lo..End /\ w[2] \in lo..End /\ w = <<w[1], w[2]>>
    BY <1>1, <2>2, <2>3
  <2> QED BY <2>4
<1>4. \A v \in ranges : DayWindows(v[1], v[2]) \subseteq PerDay(ranges)
  BY DEF PerDay
<1> QED BY <1>2, <1>3, <1>4

\* The ranges lie between the lower bound and the end.
LEMMA GapsInRange ==
    ASSUME WorldOK, ~IsTrades, stored # {}, ~(task.bound # None /\ End < task.bound)
    PROVE  Gaps \subseteq (LowerBound..End) \X (LowerBound..End)
<1> DEFINE times == Times(stored)
           known == {t \in times : t <= End}
<1>1. /\ LowerBound \in Int /\ End \in Int /\ Interval \in Nat \ {0} /\ Now \in Nat
      /\ \A t \in times : LowerBound <= t
      /\ task.bound # None => task.bound \in Int /\ LowerBound <= task.bound /\ task.bound <= End
      /\ {task.bound} \ {None} = IF task.bound = None THEN {} ELSE {task.bound}
  <2>1. ~Bootstraps
    BY DEF Bootstraps
  <2> QED BY <2>1, EndIsClosed, Positive, BoundIsInstant, LowerBoundIsLeast
<1>2. /\ times \subseteq Int /\ Max(times) \in times /\ Min(times) \in times
      /\ Min(times) <= End /\ IsFiniteSet(times)
  BY WorldTimes, Positive DEF WorldOK
<1>3. known \subseteq Int /\ IsFiniteSet(known) /\ known # {} /\ known \subseteq times
  BY <1>2, FS_Subset
<1>4. Max(known) \in known /\ Max(known) \in Int /\ LowerBound <= Max(known)
  <2>1. Max(known) \in known
    <3> HIDE DEF known
    <3> QED BY <1>3, MaxIsGreatest
  <2> QED BY <1>1, <1>3, <2>1
<1>5. CASE task.tail
  <2>1. CASE TailStart <= End
    <3> DEFINE starts == {Max(times) + Interval} \cup ({task.bound} \ {None})
    <3>1. Max(times) \in Int /\ LowerBound <= Max(times)
      BY <1>1, <1>2
    <3>2. \A x \in starts : x \in Int /\ LowerBound <= x
      BY <1>1, <3>1
    <3>3. IsFiniteSet(starts)
      <4>1. IsFiniteSet({task.bound} \ {None})
        BY FS_Singleton, FS_Difference
      <4>2. IsFiniteSet({Max(times) + Interval})
        BY FS_Singleton
      <4> QED BY <4>1, <4>2, FS_Union
    <3>4. starts # {} /\ starts \subseteq Int
      BY <3>2
    <3>5. TailStart = Max(starts)
      BY DEF TailStart
    <3>6. TailStart \in starts
      <4> HIDE DEF starts
      <4> QED BY <3>3, <3>4, <3>5, MaxIsGreatest
    <3>7. TailStart \in LowerBound..End
      <4> HIDE DEF starts
      <4> QED BY <1>1, <2>1, <3>2, <3>6
    <3>8. End \in LowerBound..End
      BY <1>1, <3>7
    <3> QED BY <1>5, <2>1, <3>7, <3>8 DEF Gaps
  <2>2. CASE ~(TailStart <= End)
    BY <1>5, <2>2 DEF Gaps
  <2> QED BY <2>1, <2>2
<1>6. CASE ~task.tail
  <2>1. InnerRanges(known) \subseteq (LowerBound..End) \X (LowerBound..End)
    <3> SUFFICES ASSUME NEW p \in known \X known, p[1] + Interval < p[2]
                 PROVE  <<p[1] + Interval, p[2] - Interval>> \in (LowerBound..End) \X (LowerBound..End)
      BY DEF InnerRanges
    <3>1. p[1] \in known /\ p[2] \in known
      OBVIOUS
    <3>2. p[1] \in Int /\ p[2] \in Int /\ LowerBound <= p[1] /\ p[2] <= End
      BY <1>1, <1>2, <3>1
    <3>3. p[1] + Interval \in LowerBound..End /\ p[2] - Interval \in LowerBound..End
      BY <1>1, <3>2
    <3> QED BY <3>3
  <2>2. Max(known) + Interval <= End => <<Max(known) + Interval, End>> \in (LowerBound..End) \X (LowerBound..End)
    <3> HIDE DEF known, times
    <3>1. ASSUME Max(known) + Interval <= End
          PROVE  Max(known) + Interval \in LowerBound..End /\ End \in LowerBound..End
      BY <1>1, <1>4, <3>1
    <3> QED BY <3>1
  <2>3. MissingRanges(known) \subseteq (LowerBound..End) \X (LowerBound..End)
    <3> HIDE DEF known, times
    <3> QED BY <2>1, <2>2 DEF MissingRanges
  <2> DEFINE head == <<task.bound, Min({Min(times) - Interval, End})>>
  <2>4. ASSUME task.bound # None, head[1] <= head[2]
        PROVE  head \in (LowerBound..End) \X (LowerBound..End)
    <3>1. Min(times) - Interval \in Int
      BY <1>1, <1>2
    <3>2. head[2] \in Int /\ head[2] <= End
      <4> DEFINE a == Min(times) - Interval
      <4>1. a \in Int /\ End \in Int /\ head[2] = Min({a, End})
        BY <1>1, <3>1
      <4> HIDE DEF a, head, times
      <4>2. Min({a, End}) = IF a <= End THEN a ELSE End
        BY <4>1, PairMinMax
      <4> QED BY <4>1, <4>2
    <3>3. head[1] \in LowerBound..End /\ head[2] \in LowerBound..End
      <4> HIDE DEF times
      <4> QED BY <1>1, <2>4, <3>2
    <3> QED BY <3>3
  <2>5. Gaps \subseteq MissingRanges(known) \cup
                (IF task.bound # None /\ head[1] <= head[2] THEN {head} ELSE {})
    BY <1>6 DEF Gaps, WithHeadGap
  <2> HIDE DEF head, known, times
  <2> QED BY <2>3, <2>4, <2>5
<1> QED BY <1>5, <1>6

\* Of the absent rows from the first wanted one on, each lies in a range.
LEMMA GapsCover ==
    ASSUME WorldOK, ~IsTrades, stored # {}, ~(task.bound # None /\ End < task.bound),
           NEW r \in Wanted, r \notin stored
    PROVE  \E v \in Gaps : v[1] <= r.ts /\ r.ts <= v[2]
<1> DEFINE times == Times(stored)
           known == {t \in times : t <= End}
           t == r.ts
<1>1. /\ End \in Int /\ Interval \in Nat \ {0} /\ Now \in Nat
      /\ task.bound # None => task.bound \in Int /\ task.bound <= End
      /\ {task.bound} \ {None} = IF task.bound = None THEN {} ELSE {task.bound}
  BY EndIsClosed, Positive, BoundIsInstant
<1>2. /\ times \subseteq 0..Now /\ Max(times) \in times /\ Min(times) \in times
      /\ Min(times) <= End /\ IsFiniteSet(times)
      /\ \A x \in times : Min(times) <= x /\ x <= Max(times)
  <2>1. \A x \in times : \E s \in stored : x = s.ts
    BY WorldTimes DEF WorldOK
  <2> QED BY <2>1, WorldTimes DEF WorldOK
<1>3. /\ r \in world /\ t <= End /\ t \in 0..Now /\ t % Interval = 0 /\ r = Row(t)
      /\ t \in Int
  BY <1>1 DEF Wanted, WorldOK
<1>4. \A x \in times : x \in Int /\ x % Interval = 0
  BY <1>1, <1>2 DEF WorldOK, Times
<1>5. t \notin times
  <2> SUFFICES ASSUME NEW s \in stored, s.ts = t PROVE FALSE
    BY DEF Times
  <2>1. s = Row(t)
    BY DEF WorldOK
  <2> QED BY <1>3, <2>1
<1>6. CASE task.tail
  <2> DEFINE starts == {Max(times) + Interval} \cup ({task.bound} \ {None})
             firsts == {Max(times) + 1} \cup ({task.bound} \ {None})
  <2>1. Max(times) \in Int
    BY <1>2, <1>4
  <2>2. IsFiniteSet(starts) /\ IsFiniteSet(firsts)
    <3>1. IsFiniteSet({task.bound} \ {None})
      BY FS_Singleton, FS_Difference
    <3>2. IsFiniteSet({Max(times) + Interval}) /\ IsFiniteSet({Max(times) + 1})
      BY FS_Singleton
    <3> QED BY <3>1, <3>2, FS_Union
  <2>3. starts \subseteq Int /\ firsts \subseteq Int /\ starts # {} /\ firsts # {}
    BY <1>1, <2>1
  <2>4. Max(firsts) \in Int /\ (\A x \in firsts : x <= Max(firsts)) /\ Max(starts) \in starts
    <3> HIDE DEF starts, firsts
    <3> QED BY <2>2, <2>3, MaxIsGreatest
  <2>5. t >= Max(firsts)
    BY <1>3, <1>6, <2>4 DEF Wanted, IsTrades
  <2>6. Max(times) < t /\ (task.bound # None => task.bound <= t)
    <3>1. Max(times) + 1 <= Max(firsts) /\ (task.bound # None => task.bound <= Max(firsts))
      BY <2>4
    <3> HIDE DEF firsts, times, t
    <3> QED BY <1>1, <1>3, <2>1, <2>4, <2>5, <3>1
  <2>7. Max(times) + Interval <= t
    <3>1. Max(times) % Interval = 0
      BY <1>2, <1>4
    <3> HIDE DEF times, t
    <3> QED BY <1>3, <2>1, <2>6, <3>1, MultiplesApart
  <2>8. TailStart <= t /\ TailStart \in Int
    <3>1. TailStart = Max(starts)
      BY DEF TailStart
    <3>2. \A x \in starts : x <= t
      BY <2>6, <2>7
    <3> HIDE DEF starts, t
    <3> QED BY <2>3, <2>4, <3>1, <3>2
  <2>9. TailStart <= End
    <3> HIDE DEF t
    <3> QED BY <1>1, <1>3, <2>8
  <2>10. <<TailStart, End>> \in Gaps
    BY <1>6, <2>9 DEF Gaps
  <2> QED BY <1>3, <2>8, <2>10
<1>7. CASE ~task.tail
  <2>1. Gaps = WithHeadGap(times)
    BY <1>7 DEF Gaps
  <2>2. IF task.bound = None THEN t >= Min(times) ELSE t >= task.bound
    BY <1>3, <1>7 DEF Wanted, IsTrades
  <2>3. Min(times) \in known /\ known # {} /\ known \subseteq times
    BY <1>2
  <2>4. Min(known) = Min(times)
    <3>1. IsFiniteSet(known) /\ known \subseteq Int
      BY <1>2, <1>4, <2>3, FS_Subset
    <3>2. Min(known) \in known /\ \A x \in known : Min(known) <= x
      <4> HIDE DEF known
      <4> QED BY <2>3, <3>1, MinIsLeast
    <3>3. Min(known) \in times /\ Min(times) <= Min(known) /\ Min(known) <= Min(times)
      <4> HIDE DEF known, times
      <4> QED BY <1>2, <2>3, <3>2
    <3>4. Min(known) \in Int /\ Min(times) \in Int
      BY <1>2, <1>4, <3>3
    <3> HIDE DEF known, times
    <3> QED BY <3>3, <3>4
  <2>5. CASE Min(times) < t
    <3>1. \E v \in MissingRanges(known) : v[1] <= t /\ t <= v[2]
      <4>1. /\ known \subseteq Times(stored) /\ known # {} /\ (\A x \in known : x <= End)
            /\ t \in 0..End /\ t \notin known /\ Min(known) < t
        BY <1>1, <1>3, <1>5, <2>3, <2>4, <2>5
      <4> HIDE DEF known, t
      <4> QED BY <1>3, <4>1, MissingRangesCover
    <3>2. MissingRanges(known) \subseteq WithHeadGap(times)
      BY <2>3 DEF WithHeadGap
    <3> HIDE DEF known, times
    <3> QED BY <2>1, <3>1, <3>2
  <2>6. CASE t < Min(times)
    <3> DEFINE last == Min(times) - Interval
               head == <<task.bound, Min({last, End})>>
    <3>1. Min(times) \in Int /\ Min(times) % Interval = 0
      BY <1>2, <1>4
    <3>2. task.bound # None /\ task.bound \in Int /\ task.bound <= t
      <4> HIDE DEF t, times
      <4> QED BY <1>1, <1>3, <2>2, <2>6, <3>1
    <3>3. t <= last /\ last \in Int
      <4>1. t + Interval <= Min(times)
        <5> HIDE DEF t, times
        <5> QED BY <1>3, <2>6, <3>1, MultiplesApart
      <4> HIDE DEF t, times
      <4> QED BY <1>1, <1>3, <3>1, <4>1
    <3>4. Min({last, End}) = IF last <= End THEN last ELSE End
      <4> HIDE DEF last
      <4> QED BY <1>1, <3>3, PairMinMax
    <3>5. t <= Min({last, End}) /\ Min({last, End}) \in Int
      <4> HIDE DEF last, t
      <4> QED BY <1>1, <1>3, <3>3, <3>4
    <3>6. head[1] < Min(times) /\ head[1] <= head[2]
      <4> HIDE DEF last, t, times
      <4> QED BY <1>3, <2>6, <3>1, <3>2, <3>5
    <3>7. head \in WithHeadGap(times)
      BY <3>2, <3>6 DEF WithHeadGap
    <3>8. head[1] <= t /\ t <= head[2]
      BY <3>2, <3>5
    <3> HIDE DEF head
    <3> QED BY <2>1, <3>7, <3>8
  <2>7. t # Min(times)
    BY <1>2, <1>5
  <2>8. Min(times) \in Int
    BY <1>2, <1>4
  <2> HIDE DEF t, times, known
  <2> QED BY <1>3, <2>5, <2>6, <2>7, <2>8
<1> QED BY <1>6, <1>7

\* The plan of a task lies in its range, and has a window for every row that is wanted
\* and not stored.
LEMMA PlanIsComplete ==
    ASSUME WorldOK, task.dataset \in Series \cup Trades, task.tail \in BOOLEAN, todo = Plan
    PROVE  /\ WindowsOK
           /\ \A r \in Wanted : r \in stored \/ \E w \in todo : r.ts \in w[1]..w[2]
<1>1. /\ End \in Int /\ End <= Now /\ Now \in Nat /\ TradeSpan \in Nat /\ TradeSpan <= Now
  BY EndIsClosed, Positive, FetchAssumption
<1>2. CASE IsTrades
  <2>1. todo = {<<1, TradeSpan>>}
    BY <1>2, FetchAssumption DEF Plan, IsTrades
  <2>2. <<1, TradeSpan>> \in (0..(Now + 1)) \X (0..Now)
    BY <1>1
  <2>3. \A r \in Wanted : r.ts \in 1..TradeSpan
    BY <1>2 DEF Wanted, WorldOK
  <2>4. WindowsOK
    BY <1>2, <2>1, <2>2 DEF WindowsOK
  <2>5. ASSUME NEW r \in Wanted PROVE \E w \in todo : r.ts \in w[1]..w[2]
    <3> DEFINE w == <<1, TradeSpan>>
    <3>1. r.ts \in w[1]..w[2]
      BY <2>3
    <3> QED BY <2>1, <3>1
  <2> QED BY <2>4, <2>5
<1>3. CASE ~IsTrades /\ Bootstraps
  <2>1. todo = {<<0, Now>>}
    BY <1>3, PlanOfSeries
  <2>2. <<0, Now>> \in (0..(Now + 1)) \X (0..Now)
    BY <1>1
  <2>3. \A r \in Wanted : r.ts \in 0..Now
    BY DEF Wanted, WorldOK, IsTrades
  <2>4. WindowsOK
    BY <1>3, <2>1, <2>2 DEF WindowsOK
  <2>5. ASSUME NEW r \in Wanted PROVE \E w \in todo : r.ts \in w[1]..w[2]
    <3> DEFINE w == <<0, Now>>
    <3>1. r.ts \in w[1]..w[2]
      BY <1>3, <2>3 DEF Wanted, WorldOK
    <3> QED BY <2>1, <3>1
  <2> QED BY <2>4, <2>5
<1>4. CASE ~IsTrades /\ ~Bootstraps
  <2>1. /\ LowerBound \in 0..Now /\ (task.bound # None => task.bound \in 0..Now)
        /\ (task.bound # None => LowerBound <= task.bound)
    BY <1>4, LowerBoundIsLeast, BoundIsInstant
  <2>2. ASSUME todo \subseteq (LowerBound..End) \X (LowerBound..End) PROVE WindowsOK
    <3>1. ASSUME NEW w \in todo
          PROVE  w \in (0..(Now + 1)) \X (0..Now) /\ LowerBound <= w[1] /\ w[2] <= End
      <4>1. w = <<w[1], w[2]>> /\ w[1] \in LowerBound..End /\ w[2] \in LowerBound..End
        BY <2>2
      <4>2. w[1] \in 0..(Now + 1) /\ w[2] \in 0..Now /\ LowerBound <= w[1] /\ w[2] <= End
        BY <1>1, <2>1, <4>1
      <4> QED BY <4>1, <4>2
    <3> QED BY <1>4, <3>1 DEF WindowsOK
  <2>3. CASE task.bound # None /\ End < task.bound
    <3>1. todo = {}
      BY <1>4, <2>3, PlanOfSeries
    <3>2. Wanted = {}
      <4> SUFFICES ASSUME NEW r \in Wanted PROVE FALSE
        OBVIOUS
      <4>1. r.ts \in Int /\ r.ts <= End
        BY <1>1, <1>4 DEF Wanted, WorldOK
      <4>2. CASE stored # {} /\ task.tail
        <5> DEFINE firsts == {Max(Times(stored)) + 1} \cup ({task.bound} \ {None})
        <5>1. Max(Times(stored)) \in Int
          BY <1>1, <4>2, WorldTimes DEF WorldOK
        <5>2. IsFiniteSet(firsts)
          <6>1. IsFiniteSet({task.bound} \ {None}) /\ IsFiniteSet({Max(Times(stored)) + 1})
            BY FS_Singleton, FS_Difference
          <6> QED BY <6>1, FS_Union
        <5>3. firsts \subseteq Int /\ firsts # {} /\ task.bound \in firsts
          BY <2>1, <2>3, <5>1
        <5>4. task.bound <= Max(firsts) /\ Max(firsts) \in Int
          <6> HIDE DEF firsts
          <6> QED BY <5>2, <5>3, MaxIsGreatest
        <5>5. Max(firsts) <= r.ts
          BY <1>4, <4>2, <5>4, <4>1 DEF Wanted
        <5> HIDE DEF firsts
        <5> QED BY <1>1, <2>1, <2>3, <4>1, <5>4, <5>5
      <4>3. CASE ~(stored # {} /\ task.tail)
        <5>1. task.bound <= r.ts
          BY <1>4, <2>1, <2>3, <4>1, <4>3 DEF Wanted
        <5> QED BY <1>1, <2>1, <2>3, <4>1, <5>1
      <4> QED BY <4>2, <4>3
    <3> QED BY <2>2, <3>1, <3>2
  <2>4. CASE stored = {} /\ ~(task.bound # None /\ End < task.bound)
    <3>1. task.bound # None /\ task.bound <= End /\ task.bound \in Int
      BY <1>1, <1>4, <2>1, <2>4 DEF Bootstraps
    <3>2. todo = DayWindows(task.bound, End)
      BY <1>4, <2>4, <3>1, PlanOfSeries
    <3>3. /\ todo \subseteq (task.bound..End) \X (task.bound..End)
          /\ \A t \in task.bound..End : \E w \in todo : t \in w[1]..w[2]
      BY <1>1, <3>1, <3>2, DayWindowsCover
    <3>4. task.bound..End \subseteq LowerBound..End
      BY <1>1, <2>1, <3>1
    <3>5. \A r \in Wanted : r.ts \in task.bound..End
      BY <1>4, <2>4, <3>1 DEF Wanted
    <3>6. todo \subseteq (LowerBound..End) \X (LowerBound..End)
      BY <3>3, <3>4
    <3> QED BY <2>2, <3>3, <3>5, <3>6
  <2>5. CASE stored # {} /\ ~(task.bound # None /\ End < task.bound)
    <3>1. todo \in {PerDay(Gaps), Gaps}
      BY <1>4, <2>5, PlanOfSeries
    <3>2. Gaps \subseteq (LowerBound..End) \X (LowerBound..End)
      BY <1>4, <2>5, GapsInRange
    <3>3. LowerBound \in Int
      BY <1>1, <2>1
    <3>4. /\ todo \subseteq (LowerBound..End) \X (LowerBound..End)
          /\ \A v \in Gaps : \A t \in v[1]..v[2] : \E w \in todo : t \in w[1]..w[2]
      BY <3>1, <3>2, <3>3, PerDayCovers
    <3>5. ASSUME NEW r \in Wanted, r \notin stored PROVE \E w \in todo : r.ts \in w[1]..w[2]
      <4>1. PICK v \in Gaps : v[1] <= r.ts /\ r.ts <= v[2]
        BY <1>4, <2>5, <3>5, GapsCover
      <4>2. v[1] \in Int /\ v[2] \in Int /\ r.ts \in Int
        BY <1>1, <1>4, <3>2, <3>3 DEF Wanted, WorldOK
      <4>3. r.ts \in v[1]..v[2]
        BY <4>1, <4>2
      <4> QED BY <3>4, <4>3
    <3> QED BY <2>2, <3>4, <3>5
  <2> QED BY <2>3, <2>4, <2>5
<1> QED BY <1>2, <1>3, <1>4

-----------------------------------------------------------------------------
(* Paging: an answer brings what was pending or leaves it pending at the   *)
(* next cursor.                                                            *)

\* A page and the cursor after it bring what was pending at the last cursor or leave it pending.
PageOK(page, next, oddity) ==
    /\ page \subseteq world /\ next \in Stop..(Now + 1) /\ (Backward => next <= Now)
    /\ task.dataset = "perps" => \A r \in page : r.own
    /\ next # Stop /\ task.dataset = "open_interest" => next = at.cursor + 1
    /\ next # Stop /\ IsTrades => /\ (at.pages + 1) * PageSize <= Cardinality(rows \cup page)
                                  /\ \A r \in rows \cup page : r.ts < next
    /\ Regular /\ odd \cup oddity = {} =>
          \A r \in Expected : r \in rows \cup page \/ PendingAt(next, r)

\* The window being fetched is the earliest of those left.
LEMMA OpenWindowOK ==
    ASSUME WorldOK, WindowsOK, todo # {}
    PROVE  /\ Window \in todo /\ Window = <<Window[1], Window[2]>>
           /\ Window[1] \in 0..(Now + 1) /\ Window[2] \in 0..Now
           /\ \A v \in todo : Window[1] <= v[1]
           /\ IsTrades => Window = <<1, TradeSpan>>
           /\ ~IsTrades /\ Bootstraps => Window = <<0, Now>>
           /\ ~IsTrades /\ ~Bootstraps => LowerBound <= Window[1] /\ Window[2] <= End
<1> DEFINE firsts == {w[1] : w \in todo}
<1>1. \A w \in todo : w = <<w[1], w[2]>> /\ w[1] \in 0..(Now + 1) /\ w[2] \in 0..Now
  BY DEF WindowsOK
<1>2. firsts \subseteq Nat /\ firsts # {}
  BY <1>1, Positive
<1>3. PICK x \in firsts : \A y \in firsts : x <= y
  <2> HIDE DEF firsts
  <2> QED BY <1>2, LeastNatural
<1>4. \E w \in todo : \A v \in todo : w[1] <= v[1]
  BY <1>3
<1>5. Window \in todo /\ \A v \in todo : Window[1] <= v[1]
  BY <1>4 DEF Window
<1> QED BY <1>1, <1>5 DEF WindowsOK

\* What every request can rely on.
LEMMA AskingOK ==
    ASSUME IInv, Asking
    PROVE  /\ todo # {} /\ at \in Cursors /\ at.cursor \in 0..(Now + 1) /\ at.cursor \in Int
           /\ Window[1] \in 0..(Now + 1) /\ Window[2] \in 0..Now
           /\ {Window[1], Window[2]} \subseteq Int
           /\ Sound => \A r \in Expected : r \in rows \/ PendingAt(at.cursor, r)
           /\ \A r \in world : r.ts \in 0..Now /\ r.ts \in Int
<1>1. at # None /\ at.cursor # Stop
  BY DEF Asking
<1>2. todo # {} /\ at \in Cursors
  BY <1>1 DEF IInv, CursorOK
<1>3. at.cursor \in 0..(Now + 1)
  BY <1>1, <1>2, Positive DEF Cursors, Stop
<1>4. Window[1] \in 0..(Now + 1) /\ Window[2] \in 0..Now
  BY <1>2, OpenWindowOK DEF IInv
<1>5. \A r \in world : r.ts \in 0..Now
  BY FetchAssumption DEF IInv, WorldOK
<1>6. Sound => \A r \in Expected : r \in rows \/ PendingAt(at.cursor, r)
  BY <1>1 DEF IInv, PagesCover
<1> QED BY <1>2, <1>3, <1>4, <1>5, <1>6, Positive

\* Rows of a series at least Interval apart.
LEMMA SeriesApart ==
    ASSUME WorldOK, ~IsTrades, NEW r \in world, NEW x \in world, r.ts < x.ts
    PROVE  r.ts + Interval <= x.ts
<1>1. /\ r.ts \in Int /\ x.ts \in Int /\ r.ts % Interval = 0 /\ x.ts % Interval = 0
  BY DEF WorldOK
<1> QED BY <1>1, MultiplesApart

\* The span of one request is at least one interval.
LEMMA PointsSpan ==
    /\ Points * Interval \in Nat /\ Points * Interval >= Interval /\ Interval \in Nat \ {0}
    /\ Points \in Nat \ {0} /\ Now \in Nat
<1>1. Points \in Nat \ {0} /\ Interval \in Nat \ {0} /\ Now \in Nat
  BY Positive
<1>2. 1 * Interval <= Points * Interval /\ Points * Interval \in Int
  BY <1>1, Multiples
<1> QED BY <1>1, <1>2

\* fetch_klines_range: the cursor moves behind the span it asked for, and no further than
\* the next row.
LEMMA CandlePageOK ==
    ASSUME IInv, Asking, task.dataset = "ohlcv", ~Bootstraps
    PROVE  LET page == ChartPage(CandleSpan) IN PageOK(page, AfterCandles(page), {})
<1> DEFINE page == ChartPage(CandleSpan)
           bound == Min({Window[2] + Interval, at.cursor + Points * Interval})
           steps == {bound} \cup {t + Interval : t \in Times(page)}
           next == Max(steps)
<1>0. ~IsTrades /\ WorldOK /\ ~Backward
  BY DEF IInv, IsTrades, Backward
<1>1. bound \in Int /\ bound >= 0
  <2> DEFINE a == Window[2] + Interval
             b == at.cursor + Points * Interval
  <2>1. a \in Int /\ b \in Int /\ a >= 0 /\ b >= 0
    BY AskingOK, PointsSpan
  <2>2. bound = Min({a, b})
    OBVIOUS
  <2> HIDE DEF a, b, bound
  <2> QED BY <2>1, <2>2, PairMinMax
<1>2. CandleSpan[1] = at.cursor /\ CandleSpan[2] = bound - 1 /\ CandleSpan[2] + 1 = bound
  BY <1>1 DEF CandleSpan
<1>3. page = {r \in world : r.ts \in at.cursor..(bound - 1)}
  BY <1>2 DEF ChartPage, Within
<1>4. page \subseteq world
  BY <1>3
<1>5. AfterCandles(page) = IF next <= Window[2] THEN next ELSE Stop
  BY <1>2 DEF AfterCandles
<1>6. /\ IsFiniteSet(Times(page)) /\ Times(page) \subseteq Int
      /\ \A t \in Times(page) : \E r \in page : t = r.ts
  BY <1>0, <1>4, PointsSpan, WorldTimes
<1>7. IsFiniteSet(steps)
  <2> DEFINE later == {t + Interval : t \in Times(page)}
             step == [t \in Times(page) |-> t + Interval]
  <2>1. step \in Surjection(Times(page), later)
    BY DEF Surjection
  <2>2. IsFiniteSet(later)
    <3> HIDE DEF step, later
    <3> QED BY <1>6, <2>1, FS_Surjection
  <2> QED BY <2>2, FS_Singleton, FS_Union
<1>8. steps \subseteq Int /\ steps # {} /\ bound \in steps
  BY <1>1, <1>6, PointsSpan
<1>9. next \in steps /\ next \in Int /\ next >= bound
  <2> HIDE DEF steps
  <2> QED BY <1>1, <1>7, <1>8, MaxIsGreatest
<1>10. AfterCandles(page) \in Stop..(Now + 1)
  <2> HIDE DEF next, bound, page
  <2> QED BY <1>1, <1>5, <1>9, AskingOK, PointsSpan DEF Stop
<1>11. ASSUME NEW r \in Expected, r.ts >= at.cursor
       PROVE  r \in page \/ PendingAt(AfterCandles(page), r)
  <2>1. r \in world /\ r.ts \in Int /\ r.ts <= Window[2]
    BY AskingOK DEF Expected
  <2>2. CASE r.ts < bound
    <3> HIDE DEF bound, next, page
    <3>1. r.ts \in at.cursor..(bound - 1)
      BY <1>1, <1>11, <2>1, <2>2, AskingOK
    <3> QED BY <1>3, <2>1, <3>1
  <2>3. CASE bound <= r.ts
    <3>1. ASSUME NEW x \in page PROVE x.ts + Interval <= r.ts
      <4>1. x \in world /\ x.ts \in Int /\ x.ts < r.ts
        <5> HIDE DEF bound
        <5> QED BY <1>1, <1>3, <2>1, <2>3, AskingOK
      <4> QED BY <1>0, <2>1, <4>1, SeriesApart
    <3>2. \A s \in steps : s <= r.ts
      BY <1>6, <2>3, <3>1
    <3>3. next <= r.ts
      <4> HIDE DEF steps
      <4> QED BY <1>9, <3>2
    <3>4. AfterCandles(page) = next /\ next # Stop
      <4> HIDE DEF next, bound, page
      <4> QED BY <1>1, <1>5, <1>9, <2>1, <3>3, AskingOK DEF Stop
    <3> HIDE DEF next, bound, page
    <3> QED BY <1>0, <1>9, <2>1, <3>3, <3>4 DEF PendingAt
  <2> HIDE DEF bound, next, page
  <2> QED BY <1>1, <2>1, <2>2, <2>3
<1>12. ASSUME Regular, odd = {}, NEW r \in Expected
       PROVE  r \in rows \cup page \/ PendingAt(AfterCandles(page), r)
  <2> HIDE DEF page, next, bound
  <2>1. r \in rows \/ PendingAt(at.cursor, r)
    BY <1>12, AskingOK DEF Sound
  <2>2. PendingAt(at.cursor, r) => r.ts >= at.cursor
    BY <1>0 DEF PendingAt
  <2> QED BY <1>11, <2>1, <2>2
<1> HIDE DEF page, next, bound
<1>13. PageOK(page, AfterCandles(page), {})
  BY <1>0, <1>4, <1>10, <1>12 DEF PageOK
<1> QED BY <1>13 DEF page

\* What a page of a series has to do.
LEMMA SeriesPage ==
    ASSUME IInv, Asking, ~IsTrades, task.dataset # "open_interest",
           NEW page, page \subseteq world, NEW next, next \in Stop..(Now + 1),
           Backward => next <= Now,
           \A r \in Expected : Regular /\ PendingAt(at.cursor, r) => r \in page \/ PendingAt(next, r)
    PROVE  PageOK(page, next, {})
<1>1. task.dataset # "perps"
  BY DEF IsTrades
<1>2. ASSUME Regular, odd = {}, NEW r \in Expected
      PROVE  r \in rows \cup page \/ PendingAt(next, r)
  <2>1. r \in rows \/ PendingAt(at.cursor, r)
    BY <1>2, AskingOK DEF Sound
  <2> QED BY <1>2, <2>1
<1> QED BY <1>1, <1>2 DEF PageOK

\* A history without holes has a row at every multiple between one of its rows and now.
LEMMA NoHoles ==
    ASSUME WorldOK, Bootstraps, ~IsTrades, Regular,
           NEW r \in world, NEW t \in Int, r.ts <= t, t <= Now, t % Interval = 0
    PROVE  Row(t) \in world
<1>1. Min(Times(world)) <= r.ts /\ Min(Times(world)) \in Int /\ r.ts \in 0..Now
  BY WorldTimes, Positive DEF WorldOK
<1>2. t \in 0..Now /\ t >= Min(Times(world)) /\ world # {}
  BY <1>1, PointsSpan
<1> QED BY <1>2 DEF Regular

\* fetch_klines_all: in a history without holes a short page is the last one.
LEMMA CandleHistoryPageOK ==
    ASSUME IInv, Asking, task.dataset = "ohlcv", Bootstraps
    PROVE  LET page == ChartPage(CandleHistorySpan)
           IN PageOK(page, AfterCandleHistory(page), {})
<1> DEFINE page == ChartPage(CandleHistorySpan)
           low == at.cursor - Points * Interval
           next == AfterCandleHistory(page)
<1>0. ~IsTrades /\ WorldOK /\ Backward /\ at.cursor \in 0..Now
  <2>1. at.cursor <= Now
    BY DEF IInv, CursorOK, Asking, Backward
  <2> QED BY <2>1, AskingOK, Positive DEF IInv, IsTrades, Backward
<1>1. low \in Int /\ low < at.cursor
  BY <1>0, PointsSpan
<1>2. page = {r \in world : r.ts \in low..at.cursor}
  BY DEF ChartPage, Within, CandleHistorySpan
<1>3. page \subseteq world
  BY <1>2
<1>4. /\ page # {} => /\ Min(Times(page)) \in Times(page)
                      /\ \A r \in page : Min(Times(page)) <= r.ts
      /\ \A t \in Times(page) : \E r \in page : t = r.ts
      /\ Times(page) \subseteq 0..Now
      /\ IsFiniteSet(page) /\ Cardinality(page) \in Nat
  BY <1>0, <1>3, WorldTimes, FS_CardinalityType
<1>5. next \in Stop..Now
  <2> HIDE DEF page
  <2> QED BY <1>4, PointsSpan DEF AfterCandleHistory, Stop
<1>6. ASSUME Regular, NEW r \in Expected, PendingAt(at.cursor, r), r \notin page
      PROVE  PendingAt(next, r)
  <2>1. r \in world /\ r.ts \in Nat /\ r.ts <= at.cursor
    BY <1>0, <1>6, AskingOK, PointsSpan DEF Expected, PendingAt
  <2>2. r.ts < low
    <3> HIDE DEF page, low
    <3> QED BY <1>0, <1>1, <1>2, <1>6, <2>1
  <2> DEFINE q == at.cursor \div Interval
             time(i) == (q - i) * Interval
             answer == [i \in 0..(Points - 1) |-> Row(time(i))]
  <2>3. q \in Int /\ q * Interval <= at.cursor /\ at.cursor < q * Interval + Interval
        /\ q * Interval \in Int
    <3>1. at.cursor \in Int
      BY AskingOK
    <3>2. Interval \in Nat \ {0}
      BY PointsSpan
    <3>3. q \in Int /\ q * Interval <= at.cursor /\ at.cursor < q * Interval + Interval
      BY <3>1, <3>2, Quotient
    <3> HIDE DEF q
    <3> QED BY <3>2, <3>3, Multiples
  <2>4. ASSUME NEW i \in 0..(Points - 1)
        PROVE  /\ time(i) \in Int /\ low <= time(i) /\ time(i) <= at.cursor
               /\ time(i) % Interval = 0
    <3>1. i \in Int /\ i + 1 <= Points /\ 0 <= i /\ q - i \in Int
      BY <2>3, PointsSpan
    <3>2. (i + 1) * Interval <= Points * Interval /\ 0 * Interval <= i * Interval
          /\ i * Interval \in Int
      BY <3>1, PointsSpan, Multiples
    <3>3. (i + 1) * Interval = i * Interval + Interval /\ 0 * Interval = 0
          /\ (q - i) * Interval = q * Interval - i * Interval
      BY <2>3, <3>1, PointsSpan
    <3>4. time(i) % Interval = 0
      <4> HIDE DEF q
      <4> QED BY <3>1, PointsSpan
    <3> HIDE DEF q
    <3> QED BY <1>0, <2>3, <3>1, <3>2, <3>3, <3>4, PointsSpan
  <2>5. ASSUME NEW i \in 0..(Points - 1) PROVE answer[i] \in page
    <3>1. time(i) \in Int /\ r.ts <= time(i) /\ time(i) <= Now /\ time(i) % Interval = 0
          /\ time(i) \in low..at.cursor
      <4> HIDE DEF time, low
      <4> QED BY <1>0, <1>1, <2>1, <2>2, <2>4, PointsSpan
    <3>2. Row(time(i)) \in world
      <4> HIDE DEF time
      <4> QED BY <1>0, <1>6, <2>1, <3>1, NoHoles
    <3>3. Row(time(i)).ts \in low..at.cursor
      BY <3>1 DEF Row
    <3> HIDE DEF time, low, page
    <3> QED BY <1>2, <3>2, <3>3
  <2>6. answer \in Injection(0..(Points - 1), page)
    <3>1. ASSUME NEW i \in 0..(Points - 1), NEW j \in 0..(Points - 1), i < j
          PROVE  answer[i] # answer[j]
      <4>1. (q - j) * Interval + Interval <= (q - i) * Interval
            /\ (q - j) * Interval \in Int /\ (q - i) * Interval \in Int
        <5>1. q - j \in Int /\ q - i \in Int /\ q - j < q - i
          BY <2>3, <3>1, PointsSpan
        <5> HIDE DEF q
        <5> QED BY <5>1, PointsSpan, Multiples
      <4>2. time(i) # time(j)
        <5> HIDE DEF q
        <5> QED BY <4>1, PointsSpan
      <4>3. answer[i].ts = time(i) /\ answer[j].ts = time(j)
        <5> HIDE DEF time
        <5> QED BY DEF Row
      <4> HIDE DEF answer, time
      <4> QED BY <4>2, <4>3
    <3>2. \A i, j \in 0..(Points - 1) : answer[i] = answer[j] => i = j
      <4> HIDE DEF answer
      <4>1. ASSUME NEW i \in 0..(Points - 1), NEW j \in 0..(Points - 1), answer[i] = answer[j]
            PROVE  i = j
        <5>1. ~(i < j) /\ ~(j < i)
          BY <3>1, <4>1
        <5> QED BY <5>1, PointsSpan
      <4> QED BY <4>1
    <3>3. answer \in [0..(Points - 1) -> page]
      <4> HIDE DEF time, page
      <4> QED BY <2>5
    <3> HIDE DEF answer, page
    <3> QED BY <3>2, <3>3 DEF Injection, IsInjective
  <2>7. Points <= Cardinality(page)
    <3>1. Cardinality(0..(Points - 1)) <= Cardinality(page)
      <4> HIDE DEF answer, page
      <4> QED BY <1>4, <2>6, FS_Injection
    <3>2. Cardinality(0..(Points - 1)) = Points
      BY PointsSpan, FS_Interval
    <3> QED BY <3>1, <3>2
  <2>8. page # {}
    <3>1. 0 \in 0..(Points - 1)
      BY PointsSpan
    <3> HIDE DEF answer, page
    <3> QED BY <2>5, <3>1
  <2>9. next = Min(Times(page)) - 1
    <3> HIDE DEF page
    <3> QED BY <1>4, <2>7, <2>8, PointsSpan DEF AfterCandleHistory
  <2>10. PICK x \in page : Min(Times(page)) = x.ts
    <3> HIDE DEF page
    <3> QED BY <1>4, <2>8
  <2>11. x.ts \in Int /\ low <= x.ts
    <3> HIDE DEF low, page
    <3> QED BY <1>0, <1>1, <1>2, AskingOK
  <2>12. r.ts <= next /\ next # Stop
    <3> HIDE DEF low, page, next
    <3> QED BY <1>1, <2>1, <2>2, <2>9, <2>10, <2>11 DEF Stop
  <2> HIDE DEF next, page, low
  <2> QED BY <1>0, <2>12 DEF PendingAt
<1>7. next \in Stop..(Now + 1) /\ next <= Now
  BY <1>5, PointsSpan DEF Stop
<1>8. task.dataset # "open_interest"
  OBVIOUS
<1> HIDE DEF next, page, low
<1>9. PageOK(page, next, {})
  BY <1>0, <1>3, <1>6, <1>7, <1>8, SeriesPage
<1> QED BY <1>9 DEF page, next

\* fetch_funding_range: the cursor jumps to the first row of a page, then past its last.
LEMMA FundingPageOK ==
    ASSUME IInv, Asking, task.dataset = "funding", ~Bootstraps
    PROVE  LET page == FundingPage(FundingSpan) IN PageOK(page, AfterFunding(page), {})
<1> DEFINE page == FundingPage(FundingSpan)
           next == AfterFunding(page)
<1>0. ~IsTrades /\ WorldOK /\ ~Backward /\ task.dataset # "open_interest"
  BY DEF IInv, IsTrades, Backward
<1>1. page = {r \in world : r.ts \in FundingSpan[1]..FundingSpan[2]}
  BY DEF FundingPage, Within
<1>2. page \subseteq world
  BY <1>1
<1>3. CASE FundingFits
  <2>1. next = Stop
    BY <1>3 DEF AfterFunding
  <2>2. FundingSpan = Window
    BY <1>3 DEF FundingSpan
  <2>3. \A r \in Expected : r \in page
    <3> HIDE DEF page
    <3> QED BY <1>0, <1>1, <2>2 DEF Expected
  <2>4. next \in Stop..(Now + 1)
    <3> HIDE DEF next
    <3> QED BY <2>1, PointsSpan DEF Stop
  <2> HIDE DEF page, next
  <2>5. PageOK(page, next, {})
    BY <1>0, <1>2, <2>3, <2>4, SeriesPage
  <2> QED BY <2>5 DEF page, next
<1>4. CASE ~FundingFits
  <2> DEFINE last == Min({Window[2], at.cursor + Points * Interval - 1})
             after == CASE page = {} -> last + 1
                        [] page # {} /\ Min(Times(page)) > at.cursor -> Min(Times(page))
                        [] OTHER -> Max({at.cursor, Max(Times(page))}) + Interval
  <2>1. FundingSpan = <<at.cursor, last>>
    BY <1>4 DEF FundingSpan
  <2>2. FundingSpan[1] = at.cursor /\ FundingSpan[2] = last
    BY <2>1
  <2>3. next = IF after > Window[2] THEN Stop ELSE after
    BY <1>4, <2>2 DEF AfterFunding
  <2>4. page = {r \in world : r.ts \in at.cursor..last}
    BY <1>1, <2>2
  <2>5. last \in Int /\ last >= 0
    <3> DEFINE b == at.cursor + Points * Interval - 1
    <3>1. b \in Int /\ b >= 0
      BY AskingOK, PointsSpan
    <3>2. last = Min({Window[2], b})
      OBVIOUS
    <3>3. Window[2] \in Int /\ Window[2] >= 0
      BY AskingOK, PointsSpan
    <3> HIDE DEF b, last
    <3>4. Min({Window[2], b}) = IF Window[2] <= b THEN Window[2] ELSE b
      BY <3>1, <3>3, PairMinMax
    <3> QED BY <3>1, <3>2, <3>3, <3>4
  <2>6. /\ page # {} => /\ Max(Times(page)) \in Times(page) /\ Min(Times(page)) \in Times(page)
                        /\ \A r \in page : Min(Times(page)) <= r.ts
        /\ \A t \in Times(page) : \E r \in page : t = r.ts
        /\ Times(page) \subseteq 0..Now
    BY <1>0, <1>2, WorldTimes
  <2> HIDE DEF page
  <2>7. ASSUME page # {}
        PROVE  /\ Max(Times(page)) \in Int /\ at.cursor <= Max(Times(page))
               /\ Min(Times(page)) \in Int /\ at.cursor <= Min(Times(page))
               /\ \E x \in page : x.ts = Max(Times(page))
               /\ \E x \in page : x.ts = Min(Times(page))
               /\ Max({at.cursor, Max(Times(page))}) = Max(Times(page))
    <3>1. PICK x \in page : x.ts = Max(Times(page))
      BY <2>6, <2>7
    <3>2. PICK y \in page : y.ts = Min(Times(page))
      BY <2>6, <2>7
    <3>3. /\ x.ts \in Int /\ y.ts \in Int /\ at.cursor <= x.ts /\ at.cursor <= y.ts
      BY <2>4, <2>5, <3>1, <3>2, AskingOK
    <3>4. Max({at.cursor, x.ts}) = x.ts
      <4>1. Max({at.cursor, x.ts}) = IF at.cursor >= x.ts THEN at.cursor ELSE x.ts
        BY <3>3, AskingOK, PairMinMax
      <4> QED BY <3>3, <4>1, AskingOK
    <3> QED BY <3>1, <3>2, <3>3, <3>4
  <2>8. after \in Int /\ after >= 0
    <3>1. CASE page = {}
      <4> HIDE DEF last
      <4> QED BY <2>5, <3>1
    <3>2. CASE page # {}
      <4> HIDE DEF last
      <4> QED BY <2>7, <3>2, AskingOK, PointsSpan
    <3> QED BY <3>1, <3>2
  <2>9. next \in Stop..(Now + 1)
    <3> HIDE DEF after, next
    <3> QED BY <2>3, <2>8, AskingOK, PointsSpan DEF Stop
  <2>10. ASSUME NEW r \in Expected, PendingAt(at.cursor, r), r \notin page
         PROVE  PendingAt(next, r)
    <3>1. r \in world /\ r.ts \in Int /\ r.ts <= Window[2] /\ at.cursor <= r.ts
      BY <1>0, <2>10, AskingOK DEF Expected, PendingAt
    <3>2. last < r.ts
      <4> HIDE DEF last
      <4> QED BY <2>4, <2>5, <2>10, <3>1, AskingOK
    <3>3. CASE page = {}
      <4> HIDE DEF last
      <4>1. after <= r.ts
        BY <2>5, <3>1, <3>2, <3>3
      <4> HIDE DEF after, next
      <4> QED BY <1>0, <2>3, <2>8, <3>1, <4>1, AskingOK DEF PendingAt, Stop
    <3>4. CASE page # {}
      <4>1. ASSUME NEW x \in page PROVE x.ts \in Int /\ x.ts < r.ts /\ x.ts + Interval <= r.ts
        <5>1. x \in world /\ x.ts \in Int /\ x.ts < r.ts
          <6> HIDE DEF last
          <6> QED BY <2>4, <2>5, <3>1, <3>2, AskingOK
        <5> QED BY <1>0, <3>1, <5>1, SeriesApart
      <4>2. after <= r.ts
        <5>1. /\ Min(Times(page)) \in Int /\ Min(Times(page)) <= r.ts
              /\ Max(Times(page)) + Interval <= r.ts
          BY <2>7, <3>4, <4>1, <3>1
        <5> HIDE DEF last
        <5> QED BY <2>7, <3>4, <5>1
      <4> HIDE DEF after, next
      <4> QED BY <1>0, <2>3, <2>8, <3>1, <4>2, AskingOK DEF PendingAt, Stop
    <3> QED BY <3>3, <3>4
  <2> HIDE DEF next
  <2>11. PageOK(page, next, {})
    BY <1>0, <1>2, <2>9, <2>10, SeriesPage
  <2> QED BY <2>11 DEF page, next
<1> QED BY <1>3, <1>4

\* fetch_funding_all: in a history without holes only the page before its first row is empty.
LEMMA FundingHistoryPageOK ==
    ASSUME IInv, Asking, task.dataset = "funding", Bootstraps
    PROVE  LET page == FundingPage(FundingHistorySpan)
           IN PageOK(page, AfterFundingHistory(page), {})
<1> DEFINE page == FundingPage(FundingHistorySpan)
           low == Max({0, at.cursor - Points * Interval + 1})
           next == AfterFundingHistory(page)
<1>0. ~IsTrades /\ WorldOK /\ Backward /\ at.cursor \in 0..Now /\ at.cursor \in Int
      /\ task.dataset # "open_interest"
  <2>1. at.cursor <= Now
    BY DEF IInv, CursorOK, Asking, Backward
  <2> QED BY <2>1, AskingOK, Positive DEF IInv, IsTrades, Backward
<1>1. /\ low \in Int
      /\ low = IF 0 >= at.cursor - Points * Interval + 1 THEN 0 ELSE at.cursor - Points * Interval + 1
  <2> DEFINE b == at.cursor - Points * Interval + 1
  <2>1. b \in Int /\ low = Max({0, b})
    BY <1>0, PointsSpan
  <2>2. Max({0, b}) = IF 0 >= b THEN 0 ELSE b
    <3> HIDE DEF b
    <3> QED BY <2>1, PairMinMax
  <2>3. low = IF 0 >= b THEN 0 ELSE b
    BY <2>1, <2>2
  <2> HIDE DEF low
  <2> QED BY <2>1, <2>3
<1>2. page = {r \in world : r.ts \in low..at.cursor}
  BY DEF FundingPage, Within, FundingHistorySpan
<1>3. page \subseteq world
  BY <1>2
<1>4. /\ page # {} => /\ Min(Times(page)) \in Times(page)
                      /\ \A r \in page : Min(Times(page)) <= r.ts
      /\ \A t \in Times(page) : \E r \in page : t = r.ts
      /\ Times(page) \subseteq 0..Now
  BY <1>0, <1>3, WorldTimes
<1>5. ASSUME page # {}
      PROVE  /\ Min(Times(page)) \in 0..Now
             /\ next = IF Min(Times(page)) - Interval >= Stop THEN Min(Times(page)) - Interval ELSE Stop
  <2> DEFINE m == Min(Times(page)) - Interval
  <2>1. Min(Times(page)) \in 0..Now /\ Min(Times(page)) \in Int
    <3> HIDE DEF page
    <3> QED BY <1>4, <1>5, PointsSpan
  <2>2. m \in Int /\ Stop \in Int
    <3> HIDE DEF page
    <3> QED BY <2>1, PointsSpan DEF Stop
  <2>3. next = Max({Stop, m})
    <3> HIDE DEF page
    <3> QED BY <1>5 DEF AfterFundingHistory
  <2>4. Max({Stop, m}) = IF Stop >= m THEN Stop ELSE m
    <3> HIDE DEF m
    <3> QED BY <2>2, PairMinMax
  <2> HIDE DEF next, page
  <2> QED BY <2>1, <2>2, <2>3, <2>4
<1>6. page = {} => next = Stop
  <2> HIDE DEF page
  <2> QED BY DEF AfterFundingHistory
<1>7. next \in Stop..(Now + 1) /\ next <= Now
  <2> HIDE DEF page, next
  <2> QED BY <1>5, <1>6, PointsSpan DEF Stop
<1>8. ASSUME Regular, NEW r \in Expected, PendingAt(at.cursor, r), r \notin page
      PROVE  PendingAt(next, r)
  <2>1. r \in world /\ r.ts \in Nat /\ r.ts <= at.cursor
    BY <1>0, <1>8, AskingOK, PointsSpan DEF Expected, PendingAt
  <2>2. r.ts < low
    <3> HIDE DEF page, low
    <3> QED BY <1>0, <1>1, <1>2, <1>8, <2>1
  <2>3. low = at.cursor - Points * Interval + 1
    <3> HIDE DEF low
    <3> QED BY <1>0, <1>1, <2>1, <2>2, PointsSpan
  <2> DEFINE q == at.cursor \div Interval
             t == q * Interval
  <2>4. q \in Int /\ t \in Int /\ t <= at.cursor /\ at.cursor < t + Interval /\ t % Interval = 0
    <3>1. Interval \in Nat \ {0}
      BY PointsSpan
    <3>2. q \in Int /\ q * Interval <= at.cursor /\ at.cursor < q * Interval + Interval
      BY <1>0, <3>1, Quotient
    <3> HIDE DEF q
    <3> QED BY <3>1, <3>2, Multiples
  <2>5. low <= t /\ r.ts <= t /\ t <= Now
    <3> HIDE DEF t, low
    <3> QED BY <1>0, <2>1, <2>2, <2>3, <2>4, PointsSpan
  <2>6. Row(t) \in world
    <3> HIDE DEF t
    <3> QED BY <1>0, <1>8, <2>1, <2>4, <2>5, NoHoles
  <2>7. Row(t) \in page
    <3>1. Row(t).ts \in low..at.cursor
      <4> HIDE DEF t, low
      <4> QED BY <1>0, <1>1, <2>4, <2>5 DEF Row
    <3> HIDE DEF t, low, page
    <3> QED BY <1>2, <2>6, <3>1
  <2>8. page # {}
    BY <2>7
  <2>9. PICK x \in page : Min(Times(page)) = x.ts
    <3> HIDE DEF page
    <3> QED BY <1>4, <2>8
  <2>10. x \in world /\ x.ts \in Int /\ r.ts < x.ts
    <3> HIDE DEF low, page
    <3> QED BY <1>0, <1>1, <1>2, <2>1, <2>2, AskingOK
  <2>11. r.ts + Interval <= x.ts
    BY <1>0, <2>1, <2>10, SeriesApart
  <2>12. r.ts <= next /\ next # Stop
    <3> HIDE DEF page, next
    <3> QED BY <1>5, <2>1, <2>8, <2>9, <2>10, <2>11, PointsSpan DEF Stop
  <2> HIDE DEF next, page, low
  <2> QED BY <1>0, <2>12 DEF PendingAt
<1> HIDE DEF next, page, low
<1>9. PageOK(page, next, {})
  BY <1>0, <1>3, <1>7, <1>8, SeriesPage
<1> QED BY <1>9 DEF page, next


\* What a page of open interest has to do when no token is repeated.
LEMMA QuietPage ==
    ASSUME ~IsTrades, ~Backward, task.dataset # "perps",
           NEW page, page \subseteq world, NEW next, next \in Stop..(Now + 1),
           next # Stop => next = at.cursor + 1,
           ASSUME odd = {}, Regular, NEW r \in Expected, r \notin rows, r \notin page
           PROVE  PendingAt(next, r)
    PROVE  PageOK(page, next, {})
<1>1. ASSUME Regular, odd \cup {} = {}, NEW r \in Expected
      PROVE  r \in rows \cup page \/ PendingAt(next, r)
  <2>1. odd = {}
    BY <1>1
  <2> QED BY <1>1, <2>1
<1> QED BY <1>1 DEF PageOK

\* The rows of a page by age, newest first, and how many rows a history can have.
LEMMA LatestRows ==
    ASSUME WorldOK, ~IsTrades, NEW n \in Nat
    PROVE  /\ Latest(n, world) \subseteq world
           /\ Cardinality(Latest(n, world)) \in Nat /\ Cardinality(Latest(n, world)) <= n
           /\ n <= Cardinality(world) => Cardinality(Latest(n, world)) >= n
           /\ Cardinality(world) <= n => Latest(n, world) = world
           /\ Cardinality(world) \in Nat /\ Cardinality(world) <= Now + 1
<1> DEFINE newer == [r \in world |-> {x \in world : x.ts > r.ts}]
<1>1. IsFiniteSet(world) /\ \A r \in world : r.ts \in 0..Now /\ r.ts \in Int /\ r = Row(r.ts)
  BY PointsSpan DEF WorldOK
<1>2. StrictOrder(world, newer)
  BY <1>1 DEF StrictOrder
<1>3. \A x, y \in world : x # y => x \in newer[y] \/ y \in newer[x]
  BY <1>1
<1>4. Latest(n, world) = {r \in world : Cardinality(newer[r]) < n}
  BY DEF Latest
<1>5. \A r \in world : newer[r] \subseteq world /\ r \notin newer[r]
  BY <1>1
<1> HIDE DEF newer
<1>6. Latest(n, world) \subseteq world
  BY <1>4
<1>7. Cardinality(Latest(n, world)) \in Nat /\ Cardinality(world) \in Nat
  BY <1>1, <1>6, FS_Subset, FS_CardinalityType
<1>8. Cardinality(Latest(n, world)) <= n
  BY <1>1, <1>2, <1>3, <1>4, FirstFew
<1>9. n <= Cardinality(world) => Cardinality(Latest(n, world)) >= n
  BY <1>1, <1>2, <1>4, FirstMany
<1>10. ASSUME Cardinality(world) <= n, NEW r \in world PROVE r \in Latest(n, world)
  <2>1. Cardinality(newer[r]) <= Cardinality(world) /\ Cardinality(newer[r]) # Cardinality(world)
        /\ Cardinality(newer[r]) \in Nat
    BY <1>1, <1>5, FS_Subset, FS_CardinalityType
  <2> QED BY <1>4, <1>7, <1>10, <2>1
<1>11. Cardinality(world) <= Now + 1
  <2> DEFINE time == [r \in world |-> r.ts]
  <2>1. time \in Injection(world, 0..Now)
    BY <1>1 DEF Injection, IsInjective
  <2>2. IsFiniteSet(0..Now) /\ Cardinality(0..Now) = Now + 1
    BY PointsSpan, FS_Interval
  <2>3. Cardinality(world) <= Cardinality(0..Now)
    <3> HIDE DEF time
    <3> QED BY <2>1, <2>2, FS_Injection
  <2> QED BY <2>2, <2>3
<1> QED BY <1>6, <1>7, <1>8, <1>9, <1>10, <1>11

\* The pages of the open-interest history cut it into runs of Points rows; only the last
\* one has nothing older behind it.
LEMMA OpenInterestPages ==
    ASSUME IInv, Asking, task.dataset = "open_interest"
    PROVE  LET more == Cardinality(world) > Points * (at.cursor + 1)
           IN  /\ OpenInterestPage \subseteq world /\ at.cursor + 1 \in Nat
               /\ more => OpenInterestPage # {} /\ at.cursor + 1 <= Now
               /\ \A r \in world : r \notin Latest(Points * at.cursor, world) =>
                      r \in OpenInterestPage \/ (more /\ r \notin Latest(Points * (at.cursor + 1), world))
<1> DEFINE c == at.cursor
           m == Points * c
           n == Points * (c + 1)
           more == Cardinality(world) > n
<1>0. ~IsTrades /\ WorldOK
  BY DEF IInv, IsTrades
<1>1. c \in Nat /\ c + 1 \in Nat
  BY AskingOK, PointsSpan
<1>2. m \in Nat /\ n \in Nat /\ n = m + Points /\ c + 1 <= n
  <2> HIDE DEF c
  <2>1. Points \in Nat \ {0}
    BY PointsSpan
  <2>2. Points * c \in Nat /\ Points * (c + 1) = Points * c + Points
    BY <1>1, <2>1
  <2>3. (c + 1) * 1 <= (c + 1) * Points
    BY <1>1, <2>1
  <2> QED BY <1>1, <2>1, <2>2, <2>3
<1>3. OpenInterestPage = Latest(n, world) \ Latest(m, world)
  BY DEF OpenInterestPage, PageAt
<1>4. m \in Nat /\ n \in Nat
  BY <1>2
<1>5. m < n
  <2> HIDE DEF m, n
  <2> QED BY <1>2, PointsSpan
<1> HIDE DEF m, n, c
<1>6. /\ Latest(n, world) \subseteq world /\ Latest(m, world) \subseteq world
      /\ Cardinality(Latest(m, world)) \in Nat /\ Cardinality(Latest(m, world)) <= m
      /\ n <= Cardinality(world) => Cardinality(Latest(n, world)) >= n
      /\ Cardinality(world) <= n => Latest(n, world) = world
      /\ Cardinality(world) \in Nat /\ Cardinality(world) <= Now + 1
      /\ Cardinality(Latest(n, world)) \in Nat
  BY <1>0, <1>4, LatestRows
<1>7. ASSUME more PROVE OpenInterestPage # {} /\ c + 1 <= Now
  <2>1. Cardinality(Latest(n, world)) >= n
    BY <1>4, <1>6, <1>7
  <2>2. ~(Latest(n, world) \subseteq Latest(m, world))
    <3> SUFFICES ASSUME Latest(n, world) \subseteq Latest(m, world) PROVE FALSE
      OBVIOUS
    <3>1. IsFiniteSet(Latest(m, world))
      BY <1>0, <1>6, FS_Subset DEF WorldOK
    <3>2. Cardinality(Latest(n, world)) <= Cardinality(Latest(m, world))
      BY <3>1, FS_Subset
    <3> QED BY <1>4, <1>5, <1>6, <2>1, <3>2
  <2>3. c + 1 <= Now
    BY <1>1, <1>2, <1>6, <1>7, PointsSpan
  <2> QED BY <1>3, <2>2, <2>3
<1>8. ASSUME NEW r \in world, r \notin Latest(m, world)
      PROVE  r \in OpenInterestPage \/ (more /\ r \notin Latest(n, world))
  <2>1. ~more => Latest(n, world) = world
    BY <1>4, <1>6
  <2> HIDE DEF more
  <2> QED BY <1>3, <1>8, <2>1
<1>9. OpenInterestPage \subseteq world
  BY <1>3, <1>6
<1> QED BY <1>1, <1>7, <1>8, <1>9 DEF more, m, n, c

\* The rows at the edges of a page are of the page, which is not the one before.
LEMMA EdgesDiffer ==
    ASSUME WorldOK, ~IsTrades, at.cursor \in Nat, OpenInterestPage \subseteq world, OpenInterestPage # {}
    PROVE  Edges(OpenInterestPage) # Edges(PageAt(at.cursor - 1))
<1> DEFINE page == OpenInterestPage
<1>1. PICK r \in page : r.ts = Max(Times(page))
  BY WorldTimes
<1>2. r \in Edges(page)
  BY <1>1 DEF Edges
<1>3. r \notin Latest(Points * at.cursor, world)
  BY DEF OpenInterestPage, PageAt
<1>4. at.cursor - 1 + 1 = at.cursor
  OBVIOUS
<1>5. PageAt(at.cursor - 1) \subseteq Latest(Points * at.cursor, world)
  BY <1>4 DEF PageAt
<1>6. r \notin Edges(PageAt(at.cursor - 1))
  BY <1>3, <1>5 DEF Edges
<1> QED BY <1>2, <1>6

\* fetch_open_interest_all: a new token leads to the next page, a repeated one is odd only
\* where there was more, and a repeated page is the last.
LEMMA OpenInterestPageOK ==
    ASSUME IInv, Asking, task.dataset = "open_interest"
    PROVE  LET more == Cardinality(world) > Points * (at.cursor + 1)
           IN  /\ LET token == IF more THEN at.cursor + 1 ELSE None
                  IN  PageOK(OpenInterestPage, AfterOpenInterest(OpenInterestPage, token), {})
               /\ \A token \in at.seen :
                     PageOK(OpenInterestPage, AfterOpenInterest(OpenInterestPage, token),
                            IF more THEN {"repeated"} ELSE {})
               /\ LET last == PageAt(at.cursor - 1)
                  IN  PageOK(last, AfterOpenInterest(last, at.cursor + 1), {"repeated"})
<1> DEFINE more == Cardinality(world) > Points * (at.cursor + 1)
           page == OpenInterestPage
           last == PageAt(at.cursor - 1)
<1>0. ~IsTrades /\ ~Backward /\ task.dataset # "perps" /\ at.seen \subseteq 1..at.cursor
  BY DEF IInv, IsTrades, Backward, CursorOK, Asking
<1>1. /\ page \subseteq world /\ at.cursor + 1 \in Nat
      /\ more => page # {} /\ at.cursor + 1 <= Now
      /\ \A r \in world : r \notin Latest(Points * at.cursor, world) =>
             r \in page \/ (more /\ r \notin Latest(Points * (at.cursor + 1), world))
  BY OpenInterestPages
<1>2. \A r \in Expected : r \in world
  BY DEF Expected
<1>3. ASSUME odd = {}, Regular, NEW r \in Expected, r \notin rows
      PROVE  r \in page \/ (more /\ r \notin Latest(Points * (at.cursor + 1), world))
  <2>1. PendingAt(at.cursor, r)
    BY <1>3, AskingOK DEF Sound
  <2>2. r \notin Latest(Points * at.cursor, world)
    BY <1>0, <2>1 DEF PendingAt
  <2> HIDE DEF page, more
  <2> QED BY <1>1, <1>2, <2>2
<1>6. page # {} => Edges(page) # Edges(last)
  <2>1. at.cursor \in Nat
    BY AskingOK, PointsSpan
  <2> QED BY <1>0, <1>1, <2>1, EdgesDiffer DEF IInv
<1>7. PageOK(last, AfterOpenInterest(last, at.cursor + 1), {"repeated"})
  <2>1. AfterOpenInterest(last, at.cursor + 1) = Stop
    BY DEF AfterOpenInterest
  <2>2. Stop \in Stop..(Now + 1)
    BY PointsSpan DEF Stop
  <2>3. last \subseteq world
    BY DEF PageAt, Latest
  <2> HIDE DEF last
  <2> QED BY <1>0, <2>1, <2>2, <2>3 DEF PageOK
<1> HIDE DEF page, more, last
<1>4. PageOK(page, AfterOpenInterest(page, IF more THEN at.cursor + 1 ELSE None), {})
  <2> DEFINE next == AfterOpenInterest(page, IF more THEN at.cursor + 1 ELSE None)
  <2>1. CASE more
    <3>1. at.cursor + 1 \notin at.seen /\ at.cursor + 1 # None /\ at.cursor + 1 # Stop
      BY <1>0, <1>1, AskingOK, FetchAssumption DEF Stop
    <3>2. next = at.cursor + 1
      BY <1>1, <1>6, <2>1, <3>1 DEF AfterOpenInterest, last
    <3>3. next \in Stop..(Now + 1)
      <4> HIDE DEF next
      <4> QED BY <1>1, <2>1, <3>2, AskingOK, PointsSpan DEF Stop
    <3> HIDE DEF next
    <3>4. ASSUME odd = {}, Regular, NEW r \in Expected, r \notin rows, r \notin page
          PROVE  PendingAt(next, r)
      BY <1>0, <1>3, <3>1, <3>2, <3>4 DEF PendingAt
    <3>5. PageOK(page, next, {})
      BY <1>0, <1>1, <3>2, <3>3, <3>4, QuietPage
    <3> QED BY <2>1, <3>5 DEF next
  <2>2. CASE ~more
    <3>1. next = Stop
      BY <2>2 DEF AfterOpenInterest
    <3>2. next \in Stop..(Now + 1)
      <4> HIDE DEF next
      <4> QED BY <3>1, PointsSpan DEF Stop
    <3> HIDE DEF next
    <3>3. ASSUME odd = {}, Regular, NEW r \in Expected, r \notin rows, r \notin page
          PROVE  PendingAt(next, r)
      BY <1>3, <2>2, <3>3
    <3>4. PageOK(page, next, {})
      BY <1>0, <1>1, <3>1, <3>2, <3>3, QuietPage
    <3> QED BY <2>2, <3>4 DEF next
  <2> QED BY <2>1, <2>2
<1>5. ASSUME NEW token \in at.seen
      PROVE  PageOK(page, AfterOpenInterest(page, token), IF more THEN {"repeated"} ELSE {})
  <2> DEFINE next == AfterOpenInterest(page, token)
  <2>1. next = Stop
    BY <1>5 DEF AfterOpenInterest
  <2>2. next \in Stop..(Now + 1)
    <3> HIDE DEF next
    <3> QED BY <2>1, PointsSpan DEF Stop
  <2> HIDE DEF next
  <2>3. CASE more
    <3>1. PageOK(page, next, {"repeated"})
      BY <1>0, <1>1, <2>1, <2>2 DEF PageOK
    <3> QED BY <2>3, <3>1 DEF next
  <2>4. CASE ~more
    <3>1. ASSUME odd = {}, Regular, NEW r \in Expected, r \notin rows, r \notin page
          PROVE  PendingAt(next, r)
      BY <1>3, <2>4, <3>1
    <3>2. PageOK(page, next, {})
      BY <1>0, <1>1, <2>1, <2>2, <3>1, QuietPage
    <3> QED BY <2>4, <3>2 DEF next
  <2> QED BY <2>3, <2>4
<1> QED BY <1>4, <1>5, <1>7 DEF more, page, last


\* fetch_volatility_index_data_range: what a full page leaves out comes after its last row.
LEMMA VolatilityPageOK ==
    ASSUME IInv, Asking, task.dataset = "volatility"
    PROVE  LET wanted == Within(world, <<at.cursor, Window[2]>>)
               page   == Earliest(Points, wanted)
           IN  PageOK(page, AfterVolatility(page, page # wanted), {})
<1> DEFINE wanted == Within(world, <<at.cursor, Window[2]>>)
           page == Earliest(Points, wanted)
           older == [r \in wanted |-> {x \in wanted : x.ts < r.ts}]
           next == AfterVolatility(page, page # wanted)
<1>0. ~IsTrades /\ WorldOK /\ ~Backward /\ task.dataset # "open_interest"
      /\ Points \in Nat \ {0}
  BY PointsSpan DEF IInv, IsTrades, Backward
<1>1. wanted = {r \in world : r.ts \in at.cursor..Window[2]}
  BY DEF Within
<1>2. wanted \subseteq world /\ \A r \in wanted : r.ts \in Int /\ at.cursor <= r.ts
  <2> HIDE DEF wanted
  <2> QED BY <1>1, AskingOK
<1>3. page = {r \in wanted : Cardinality(older[r]) < Points}
  <2> HIDE DEF wanted
  <2> QED BY DEF Earliest
<1>4. StrictOrder(wanted, older)
  <2> HIDE DEF wanted
  <2> QED BY <1>2 DEF StrictOrder
<1>5. \A r, x \in wanted : x.ts >= r.ts => older[r] \subseteq older[x]
  <2> HIDE DEF wanted
  <2> QED BY <1>2
<1>6. page \subseteq wanted /\ page \subseteq world /\ IsFiniteSet(wanted)
  <2> HIDE DEF wanted, older, page
  <2> QED BY <1>0, <1>2, <1>3, FS_Subset DEF WorldOK
<1> HIDE DEF wanted, older, page
<1> DEFINE seen == {at.cursor} \cup Times(page)
           after == Max(seen) + 1
<1>7. next = IF page # {} /\ page # wanted /\ after <= Window[2] THEN after ELSE Stop
  BY DEF AfterVolatility
<1>8. /\ IsFiniteSet(Times(page)) /\ Times(page) \subseteq Int
      /\ \A t \in Times(page) : \E r \in page : t = r.ts
  BY <1>0, <1>6, PointsSpan, WorldTimes
<1>9. Max(seen) \in seen /\ Max(seen) \in Int /\ at.cursor <= Max(seen)
  <2>1. seen \subseteq Int /\ seen # {} /\ at.cursor \in seen
    BY <1>8, AskingOK
  <2>2. IsFiniteSet(seen)
    BY <1>8, FS_Singleton, FS_Union
  <2> HIDE DEF seen
  <2> QED BY <2>1, <2>2, MaxIsGreatest
<1>10. next \in Stop..(Now + 1)
  <2> HIDE DEF next, seen
  <2> QED BY <1>7, <1>9, AskingOK, PointsSpan DEF Stop
<1>11. ASSUME NEW r \in Expected, PendingAt(at.cursor, r), r \notin page
       PROVE  PendingAt(next, r)
  <2>1. r \in world /\ r.ts \in Int /\ at.cursor <= r.ts /\ r.ts <= Window[2]
    BY <1>0, <1>11, AskingOK DEF Expected, PendingAt
  <2>2. r \in wanted
    BY <1>1, <2>1, AskingOK
  <2>3. ~(Cardinality(older[r]) < Points)
    BY <1>3, <1>11, <2>2
  <2>4. page # {} /\ \A x \in page : ~(older[r] \subseteq older[x])
    <3> DEFINE first == {x \in wanted : Cardinality(older[x]) < Points}
    <3>3. IsFiniteSet(wanted) /\ Points \in Nat \ {0}
      BY <1>0, <1>6
    <3>1. /\ first # {} /\ Cardinality(first) >= Points
          /\ \A x \in first : ~(older[r] \subseteq older[x])
      BY <1>4, <2>2, <2>3, <3>3, FullPage
    <3>2. first = page
      BY <1>3
    <3> HIDE DEF first
    <3> QED BY <3>1, <3>2
  <2>5. \A x \in page : x.ts \in Int /\ x.ts < r.ts
    BY <1>2, <1>5, <1>6, <2>1, <2>2, <2>4
  <2>6. \A t \in seen : t < r.ts
    <3>1. at.cursor < r.ts
      BY <1>2, <1>6, <2>1, <2>4, <2>5, AskingOK
    <3> QED BY <1>8, <2>5, <3>1
  <2>7. after <= r.ts /\ after # Stop
    <3> HIDE DEF seen
    <3> QED BY <1>9, <2>1, <2>6, AskingOK, PointsSpan DEF Stop
  <2>8. next = after
    <3> HIDE DEF next, after
    <3>1. after \in Int
      BY <1>9 DEF after
    <3> QED BY <1>7, <1>11, <2>1, <2>2, <2>4, <2>7, <3>1, AskingOK
  <2> HIDE DEF next, after
  <2> QED BY <1>0, <2>7, <2>8 DEF PendingAt
<1> HIDE DEF next
<1>12. PageOK(page, next, {})
  BY <1>0, <1>6, <1>10, <1>11, SeriesPage
<1> QED BY <1>12 DEF page, wanted, next

\* What a page of trades leaves: rows before the next cursor, and as many as the pages so far
\* hold when the paging goes on.
LEMMA TradesKept ==
    ASSUME IInv, Asking, IsTrades,
           NEW kept, kept \subseteq TradeMatches, NEW more \in BOOLEAN,
           NEW next, next = AfterTrades(kept, more)
    PROVE  /\ kept \subseteq world /\ IsFiniteSet(kept) /\ rows \cap kept = {}
           /\ next \in Stop..(Now + 1)
           /\ Cardinality(rows \cup kept) = Cardinality(rows) + Cardinality(kept)
           /\ {Cardinality(rows), Cardinality(kept), at.pages} \subseteq Nat
           /\ at.pages * PageSize <= Cardinality(rows) /\ at.pages * PageSize \in Nat
           /\ kept # {} => /\ Max(Times(kept)) \in 0..Now
                           /\ \A r \in rows \cup kept : r.ts <= Max(Times(kept))
                           /\ \E x \in kept : x.ts = Max(Times(kept))
           /\ next # Stop => /\ kept # {} /\ Cardinality(kept) >= PageSize
                             /\ next = Max(Times(kept)) + 1
<1>0. WorldOK
  BY DEF IInv
<1>1. kept \subseteq world /\ \A r \in kept : r.ts \in Int /\ at.cursor <= r.ts
  BY AskingOK DEF TradeMatches
<1>2. at.pages \in Nat /\ at.pages * PageSize <= Cardinality(rows) /\ \A r \in rows : r.ts < at.cursor
  <2>1. at.pages \in Nat
    BY AskingOK DEF Cursors
  <2> QED BY <2>1 DEF IInv, CursorOK, Asking
<1>3. rows \subseteq world
  BY DEF IInv, RowsOK
<1>4. rows \cap kept = {}
  BY <1>1, <1>2, <1>3, AskingOK
<1>5. IsFiniteSet(rows) /\ IsFiniteSet(kept) /\ Cardinality(rows) \in Nat /\ Cardinality(kept) \in Nat
  BY <1>0, <1>1, <1>3, FS_Subset, FS_CardinalityType DEF WorldOK
<1>6. Cardinality(rows \cup kept) = Cardinality(rows) + Cardinality(kept)
  <2>1. Cardinality(rows \cap kept) = 0
    BY <1>4, FS_EmptySet
  <2>2. Cardinality(rows \cup kept) = Cardinality(rows) + Cardinality(kept) - Cardinality(rows \cap kept)
    BY <1>5, FS_Union
  <2> QED BY <1>5, <2>1, <2>2
<1>7. ASSUME kept # {}
      PROVE  /\ Max(Times(kept)) \in 0..Now
             /\ \A r \in rows \cup kept : r.ts <= Max(Times(kept))
             /\ \E x \in kept : x.ts = Max(Times(kept))
  <2>1. /\ Max(Times(kept)) \in Times(kept) /\ Times(kept) \subseteq 0..Now
        /\ \A r \in kept : r.ts <= Max(Times(kept))
        /\ \A t \in Times(kept) : \E r \in kept : t = r.ts
    BY <1>0, <1>1, <1>7, WorldTimes
  <2>2. Max(Times(kept)) \in 0..Now /\ Max(Times(kept)) \in Int
    BY <2>1, PointsSpan
  <2>3. PICK x \in kept : x.ts = Max(Times(kept))
    BY <2>1
  <2>4. ASSUME NEW r \in rows PROVE r.ts <= Max(Times(kept))
    <3>1. r.ts < at.cursor /\ at.cursor <= x.ts /\ r.ts \in Int
      BY <1>1, <1>2, <1>3, AskingOK
    <3> QED BY <2>2, <2>3, <3>1, AskingOK
  <2> QED BY <2>1, <2>2, <2>3, <2>4
<1>8. next # Stop => /\ kept # {} /\ ~(Cardinality(kept) < PageSize) /\ next = Max(Times(kept)) + 1
  BY DEF AfterTrades
<1>9. PageSize \in Nat \ {0} /\ at.pages * PageSize \in Nat
  BY <1>2, Positive
<1>10. next \in Stop..(Now + 1)
  <2>1. CASE next = Stop
    BY <2>1, PointsSpan DEF Stop
  <2>2. CASE next # Stop
    BY <1>7, <1>8, <2>2, PointsSpan DEF Stop
  <2> QED BY <2>1, <2>2
<1>11. next # Stop => Cardinality(kept) >= PageSize
  BY <1>5, <1>8, <1>9
<1> QED BY <1>1, <1>2, <1>4, <1>5, <1>6, <1>7, <1>8, <1>9, <1>10, <1>11


\* fetch_perps_trades_range, fetch_options_trades_range: a full page in trade-id order leaves
\* out later trades only, and the page cap is not reached before the trades run out.
LEMMA TradePageOK ==
    ASSUME IInv, Asking, IsTrades
    PROVE  LET page == First(PageSize, TradeMatches)
               kept == OfInstrument(page)
           IN  PageOK(kept, AfterTrades(kept, page # TradeMatches),
                      IF task.dataset = "perps" /\ Routes[at.route] = "currency" THEN {"fallback"} ELSE {})
<1> DEFINE matches == TradeMatches
           earlier == [r \in matches |-> {x \in matches : x.id < r.id}]
           page == First(PageSize, matches)
           kept == OfInstrument(page)
           more == page # matches
           next == AfterTrades(kept, more)
           fallback == task.dataset = "perps" /\ Routes[at.route] = "currency"
<1>0. WorldOK /\ ~Backward /\ task.dataset # "open_interest" /\ Regular \in BOOLEAN
      /\ PageSize \in Nat \ {0}
  BY Positive DEF IInv, IsTrades, Backward, Regular
<1>1. matches = {r \in world : /\ r.ts \in at.cursor..Window[2]
                               /\ Routes[at.route] = "instrument" => r.own}
  BY DEF TradeMatches
<1>2. matches \subseteq world /\ \A r \in matches : r.id \in Int /\ r.ts \in Int
  <2> HIDE DEF matches
  <2> QED BY <1>0, <1>1, AskingOK DEF WorldOK
<1>3. page = {r \in matches : Cardinality(earlier[r]) < PageSize}
  <2> HIDE DEF matches
  <2> QED BY DEF First
<1>4. StrictOrder(matches, earlier)
  <2> HIDE DEF matches
  <2> QED BY <1>2 DEF StrictOrder
<1>5. \A r, x \in matches : x.id >= r.id => earlier[r] \subseteq earlier[x]
  <2> HIDE DEF matches
  <2> QED BY <1>2
<1>6. IsFiniteSet(matches) /\ page \subseteq matches
  <2> HIDE DEF matches, earlier, page
  <2> QED BY <1>0, <1>2, <1>3, FS_Subset DEF WorldOK
<1>7. matches = TradeMatches
  OBVIOUS
<1> HIDE DEF matches, earlier, page
<1>8. kept \subseteq page /\ (fallback => \A r \in kept : r.own) /\ (~fallback => kept = page)
  BY DEF OfInstrument
<1>9. task.dataset = "perps" => \A r \in kept : r.own
  <2> SUFFICES ASSUME task.dataset = "perps", ~fallback PROVE \A r \in kept : r.own
    BY <1>8
  <2>1. Routes = <<"instrument", "currency", "instrument", "currency">>
    BY DEF Routes
  <2>2. at.route \in DOMAIN Routes
    BY DEF IInv, CursorOK, Asking
  <2>3. Routes[at.route] = "instrument"
    BY <2>1, <2>2
  <2> HIDE DEF kept
  <2> QED BY <1>1, <1>6, <1>8, <2>3
<1> HIDE DEF kept, fallback
<1>10. kept \subseteq TradeMatches /\ more \in BOOLEAN
  BY <1>6, <1>7, <1>8
<1> HIDE DEF more
<1>11. /\ kept \subseteq world /\ IsFiniteSet(kept) /\ rows \cap kept = {}
       /\ next \in Stop..(Now + 1)
       /\ Cardinality(rows \cup kept) = Cardinality(rows) + Cardinality(kept)
       /\ {Cardinality(rows), Cardinality(kept), at.pages} \subseteq Nat
       /\ at.pages * PageSize <= Cardinality(rows) /\ at.pages * PageSize \in Nat
       /\ kept # {} => /\ Max(Times(kept)) \in 0..Now
                       /\ \A r \in rows \cup kept : r.ts <= Max(Times(kept))
                       /\ \E x \in kept : x.ts = Max(Times(kept))
       /\ next # Stop => /\ kept # {} /\ Cardinality(kept) >= PageSize
                         /\ next = Max(Times(kept)) + 1
  BY <1>10, TradesKept
<1>12. (at.pages + 1) * PageSize = at.pages * PageSize + PageSize
  BY <1>0, <1>11
<1>13. ASSUME next # Stop
       PROVE  /\ (at.pages + 1) * PageSize <= Cardinality(rows \cup kept)
              /\ \A r \in rows \cup kept : r.ts < next
  <2>1. (at.pages + 1) * PageSize <= Cardinality(rows \cup kept)
    <3> DEFINE a == at.pages * PageSize
               b == (at.pages + 1) * PageSize
               u == Cardinality(rows \cup kept)
    <3>1. b = a + PageSize /\ a \in Nat /\ a <= Cardinality(rows)
          /\ u = Cardinality(rows) + Cardinality(kept)
      BY <1>11, <1>12
    <3> HIDE DEF a, b, u
    <3>2. b <= u
      BY <1>0, <1>11, <1>13, <3>1
    <3> QED BY <3>2 DEF b, u
  <2>2. rows \cup kept \subseteq world
    BY <1>11 DEF IInv, RowsOK
  <2>3. \A r \in rows \cup kept : r.ts < next
    <3> HIDE DEF next
    <3> QED BY <1>11, <1>13, <2>2, AskingOK, PointsSpan
  <2> QED BY <2>1, <2>3
<1> HIDE DEF next
<1>14. ASSUME Regular, ~fallback, NEW r \in Expected, PendingAt(at.cursor, r), r \notin rows, r \notin kept
       PROVE  PendingAt(next, r)
  <2>1. r \in world /\ r.own /\ r.ts \in Int /\ at.cursor <= r.ts /\ r.ts <= Window[2]
    BY <1>0, <1>14, AskingOK DEF Expected, PendingAt
  <2>2. r \in matches /\ r \notin page /\ kept = page
    BY <1>1, <1>8, <1>14, <2>1, AskingOK
  <2>3. ~(Cardinality(earlier[r]) < PageSize)
    BY <1>3, <2>2
  <2>4. /\ kept # {} /\ Cardinality(kept) >= PageSize
        /\ \A x \in kept : ~(earlier[r] \subseteq earlier[x])
    <3> DEFINE first == {x \in matches : Cardinality(earlier[x]) < PageSize}
    <3>1. /\ first # {} /\ Cardinality(first) >= PageSize
          /\ \A x \in first : ~(earlier[r] \subseteq earlier[x])
      BY <1>0, <1>4, <1>6, <2>2, <2>3, FullPage
    <3>2. first = kept
      BY <1>3, <2>2
    <3> HIDE DEF first
    <3> QED BY <3>1, <3>2
  <2>5. \A x \in kept : x.ts < r.ts
    <3>1. \A x \in kept : x \in matches /\ x.id < r.id
      BY <1>2, <1>5, <1>6, <2>2, <2>4
    <3>2. \A y, x \in world : x.id < y.id => x.ts < y.ts
      BY <1>14 DEF Regular
    <3> QED BY <1>2, <2>1, <3>1, <3>2
  <2>6. Max(Times(kept)) + 1 <= r.ts
    BY <1>11, <2>1, <2>4, <2>5, PointsSpan
  <2>7. more
    BY <2>2 DEF more
  <2>8. ~(MaxPages > 0 /\ at.pages + 1 >= MaxPages)
    <3> SUFFICES ASSUME MaxPages > 0, at.pages + 1 >= MaxPages PROVE FALSE
      OBVIOUS
    <3> DEFINE all == (rows \cup kept) \cup {r}
               cap == MaxPages * PageSize
               paged == (at.pages + 1) * PageSize
    <3>1. MaxPages \in Nat /\ PageSize \in Nat \ {0}
      BY Positive
    <3>2. cap <= paged /\ cap \in Int /\ paged \in Int
      <4>1. at.pages + 1 \in Int
        BY <1>11
      <4> QED BY <3>1, <4>1, Multiples
    <3>3. Cardinality(world) <= cap /\ Cardinality(world) \in Nat
      BY <1>0, <1>14, <3>1, FS_CardinalityType DEF Regular, WorldOK
    <3>4. all \subseteq world
      BY <1>11, <2>1 DEF IInv, RowsOK
    <3>5. IsFiniteSet(rows \cup kept) /\ r \notin rows \cup kept
      BY <1>0, <1>14, <3>4, FS_Subset DEF WorldOK
    <3>6. Cardinality(all) = Cardinality(rows \cup kept) + 1
      BY <3>5, FS_AddElement
    <3>7. Cardinality(all) <= Cardinality(world)
      BY <1>0, <3>4, FS_Subset DEF WorldOK
    <3>8. paged = at.pages * PageSize + PageSize
      BY <1>12
    <3> HIDE DEF all, cap, paged
    <3> QED BY <1>0, <1>11, <2>4, <3>2, <3>3, <3>6, <3>7, <3>8
  <2>9. Max(Times(kept)) + 1 <= Window[2]
    BY <1>11, <2>1, <2>4, <2>6, AskingOK, PointsSpan
  <2>10. next = Max(Times(kept)) + 1 /\ next # Stop
    <3>1. ~(Max(Times(kept)) + 1 > Window[2]) /\ ~(Cardinality(kept) < PageSize)
          /\ Max(Times(kept)) + 1 # Stop
      BY <1>0, <1>11, <2>4, <2>9, AskingOK, PointsSpan DEF Stop
    <3> QED BY <2>4, <2>7, <2>8, <3>1 DEF AfterTrades, next
  <2> QED BY <1>0, <2>6, <2>10 DEF PendingAt
<1>15. PageOK(kept, next, IF fallback THEN {"fallback"} ELSE {})
  <2>1. ASSUME Regular, odd \cup (IF fallback THEN {"fallback"} ELSE {}) = {}, NEW r \in Expected
        PROVE  r \in rows \cup kept \/ PendingAt(next, r)
    <3>1. ~fallback /\ odd = {}
      BY <2>1
    <3>2. r \in rows \/ PendingAt(at.cursor, r)
      BY <2>1, <3>1, AskingOK DEF Sound
    <3> QED BY <1>14, <2>1, <3>1, <3>2
  <2> QED BY <1>0, <1>9, <1>11, <1>13, <2>1 DEF PageOK
<1> QED BY <1>7, <1>15 DEF next, kept, page, more, fallback, matches


-----------------------------------------------------------------------------
(* The steps of the fetch.                                                 *)

\* The task, the exchange and the lake it found stay as they are.
LEMMA FixedSame ==
    ASSUME UNCHANGED fixed
    PROVE  /\ WorldOK' = WorldOK /\ Regular' = Regular /\ Wanted' = Wanted
           /\ Bootstraps' = Bootstraps /\ IsTrades' = IsTrades /\ Backward' = Backward
           /\ LowerBound' = LowerBound /\ Routes' = Routes
<1> USE DEF fixed
<1>1. IsTrades' = IsTrades /\ Bootstraps' = Bootstraps
  BY DEF IsTrades, Bootstraps
<1>2. WorldOK' = WorldOK
  BY <1>1 DEF WorldOK
<1>3. Regular' = Regular
  BY <1>1 DEF Regular
<1>4. Wanted' = Wanted
  BY <1>1 DEF Wanted
<1>5. Backward' = Backward /\ LowerBound' = LowerBound /\ Routes' = Routes
  BY <1>1 DEF Backward, LowerBound, Routes
<1> QED BY <1>1, <1>2, <1>3, <1>4, <1>5

\* The windows left to fetch determine the open one and what it has to bring.
LEMMA WindowSame ==
    ASSUME UNCHANGED <<fixed, todo>>
    PROVE  /\ Window' = Window /\ Expected' = Expected /\ WindowsOK' = WindowsOK
<1> USE DEF fixed
<1>1. Window' = Window
  BY DEF Window
<1>2. Expected' = Expected
  BY <1>1 DEF Expected
<1>3. WindowsOK' = WindowsOK
  BY FixedSame DEF WindowsOK
<1> QED BY <1>1, <1>2, <1>3

\* Every task has a first route.
LEMMA RoutesOK ==
    ASSUME IInv
    PROVE  1 \in DOMAIN Routes /\ DOMAIN Routes = 1..Len(Routes) /\ Len(Routes) \in Nat
<1>1. CASE task.dataset = "perps"
  BY <1>1 DEF Routes, IsTrades
<1>2. CASE task.dataset = "options"
  BY <1>2 DEF Routes, IsTrades
<1>3. CASE ~IsTrades
  BY <1>3 DEF Routes, IsTrades
<1> QED BY <1>1, <1>2, <1>3 DEF IsTrades


\* A step without outcome before the caller leaves what the outcome is about alone.
LEMMA StillAwaited ==
    ASSUME IInv, UNCHANGED outcome, worker \notin Ended
    PROVE  EndedIsQuiet' /\ SuccessIsComplete' /\ outcome = None
<1>1. outcome = None /\ outcome' = None
  BY DEF IInv, EndedIsQuiet
<1>2. None # "rows"
  BY FetchAssumption
<1> QED BY <1>1, <1>2 DEF EndedIsQuiet, SuccessIsComplete

\* A window is opened on its first route, with nothing tried yet.
LEMMA OpenedCursors ==
    ASSUME NEW cursor \in Stop..(Now + 1)
    PROVE  /\ Open(cursor) \in Cursors /\ Open(cursor).cursor = cursor
           /\ Open(cursor).route = 1 /\ Open(cursor).pages = 0 /\ Open(cursor).seen = {}
           /\ Open(cursor).attempt = 1 /\ Open(cursor).try = 0
           /\ Closed \in Cursors /\ Closed.cursor = Stop
           /\ Closed.route = 1 /\ Closed.attempt = 1 /\ Closed.try = 0
           /\ Stop..(Now + 1) \subseteq Stop..(Now + Day)
<1>1. 1 \in 1..RouteAttempts /\ 0 \in 0..HttpRetries /\ Stop \in Stop..(Now + 1)
  BY Positive DEF Stop
<1>2. Stop..(Now + 1) \subseteq Stop..(Now + Day)
  BY Positive DEF Stop
<1> QED BY <1>1, <1>2 DEF Open, Closed, Cursors

\* Every answer keeps the invariant if its page brings or leaves what was pending.
LEMMA AbsorbIInv ==
    ASSUME IInv, Asking, NEW page, NEW next, NEW oddity, oddity \subseteq {"fallback", "swallowed", "repeated"},
           PageOK(page, next, oddity), Absorb(page, next, oddity)
    PROVE  IInv'
<1> USE DEF fixed, parentVars
<1>0. /\ UNCHANGED <<fixed, todo, got, cache, worker, result, parentVars>>
      /\ rows' = rows \cup page /\ odd' = odd \cup oddity
      /\ saved' = IF StreamsPages THEN saved \cup page ELSE saved
      /\ at' = [Open(next) EXCEPT !.pages = IF IsTrades THEN at.pages + 1 ELSE 0,
                                  !.seen = at.seen \cup {next}]
  BY DEF Absorb
<1>1. /\ page \subseteq world /\ next \in Stop..(Now + 1) /\ (Backward => next <= Now)
      /\ task.dataset = "perps" => \A r \in page : r.own
  BY DEF PageOK
<1>2. todo # {} /\ at \in Cursors /\ worker = "fetching" /\ at # None
  BY AskingOK DEF Asking
<1>3. /\ at' \in Cursors /\ at'.cursor = next /\ at'.route = 1 /\ at'.attempt = 1 /\ at'.try = 0
      /\ at'.pages = (IF IsTrades THEN at.pages + 1 ELSE 0) /\ at'.seen = at.seen \cup {next}
  <2>1. at.pages \in Nat /\ at.seen \subseteq Int /\ next \in Int
    BY <1>1, <1>2, PointsSpan DEF Cursors, Stop
  <2>2. Open(next) \in Cursors /\ Open(next).cursor = next /\ Open(next).route = 1
        /\ Open(next).attempt = 1 /\ Open(next).try = 0
    BY <1>1, OpenedCursors
  <2>3. (IF IsTrades THEN at.pages + 1 ELSE 0) \in Nat /\ at.seen \cup {next} \in SUBSET Int
    BY <2>1
  <2> QED BY <1>0, <2>2, <2>3 DEF Cursors
<1>4. TypeOK'
  <2>1. at'.route \in DOMAIN Routes'
    BY <1>0, <1>3, RoutesOK, FixedSame
  <2>2. at'.cursor \in Stop..(Now + Day) /\ at'.attempt \in 1..RouteAttempts /\ at'.try \in 0..HttpRetries
    BY <1>1, <1>3, OpenedCursors DEF Cursors
  <2>3. UNION {stored', rows', got', saved'} \subseteq world'
    <3>1. UNION {stored, rows, got, saved} \subseteq world
      BY DEF IInv, TypeOK
    <3> QED BY <1>0, <1>1, <3>1
  <2> QED BY <1>0, <2>1, <2>2, <2>3 DEF IInv, TypeOK
<1>5. WorldOK' /\ WindowsOK'
  BY <1>0, FixedSame, WindowSame DEF IInv
<1>6. CursorOK'
  <2>1. at'.route \in DOMAIN Routes' /\ (Backward' => at'.cursor <= Now)
    BY <1>0, <1>1, <1>3, RoutesOK, FixedSame
  <2>2. ASSUME next # Stop, task.dataset = "open_interest" PROVE at'.seen \subseteq 1..next
    <3>1. at.seen \subseteq 1..at.cursor
      BY <1>2, <2>2 DEF IInv, CursorOK, Asking
    <3>2. next = at.cursor + 1
      BY <2>2 DEF PageOK
    <3>3. at.cursor \in Int /\ at.cursor >= 0
      BY AskingOK, PointsSpan
    <3> QED BY <1>3, <3>1, <3>2, <3>3
  <2>3. ASSUME next # Stop, IsTrades
        PROVE  at'.pages * PageSize <= Cardinality(rows') /\ \A r \in rows' : r.ts < next
    <3>1. at'.pages = at.pages + 1
      BY <1>3, <2>3
    <3> QED BY <1>0, <2>3, <3>1 DEF PageOK
  <2> QED BY <1>0, <1>2, <1>3, <2>1, <2>2, <2>3, FixedSame DEF CursorOK
<1>7. RowsOK'
  <2>1. rows' \cup got' \cup saved' \subseteq rows \cup got \cup saved \cup page
    BY <1>0
  <2>2. rows' \cup got' \cup saved' \subseteq world'
    BY <1>0, <1>1, <2>1 DEF IInv, RowsOK
  <2>3. task'.dataset = "perps" => \A r \in rows' \cup got' \cup saved' : r.own
    BY <1>0, <1>1, <2>1 DEF IInv, RowsOK
  <2>4. ~Bootstraps => saved' = saved
    BY <1>0 DEF StreamsPages
  <2>5. saved \subseteq saved'
    BY <1>0
  <2>6. ~IsTrades' /\ ~Bootstraps' => \A r \in got' \cup saved' : r.ts \in LowerBound'..End
    BY <1>0, <2>4, FixedSame DEF IInv, RowsOK
  <2>7. ~IsTrades' /\ stored' = {} => got' \subseteq saved'
    BY <1>0, <2>5, FixedSame DEF IInv, RowsOK
  <2>8. cache' # None => task'.dataset = "open_interest" /\ ~Bootstraps' /\ cache' \subseteq world'
    BY <1>0, FixedSame DEF IInv, RowsOK
  <2>9. End' = End
    BY DEF End
  <2> QED BY <2>2, <2>3, <2>6, <2>7, <2>8, <2>9 DEF RowsOK
<1>8. Sound' => Sound /\ odd \cup oddity = {}
  BY <1>0, FixedSame DEF Sound
<1>9. PagesCover'
  <2>1. ASSUME Sound', NEW r \in Expected' PROVE r \in rows' \/ PendingAt(at.cursor, r)'
    <3>1. r \in Expected
      BY <1>0, WindowSame
    <3>2. Regular /\ odd \cup oddity = {}
      BY <1>8, <2>1 DEF Sound
    <3>3. r \in rows \cup page \/ PendingAt(next, r)
      BY <3>1, <3>2 DEF PageOK
    <3>4. PendingAt(next, r) => PendingAt(at.cursor, r)'
      BY <1>0, <1>3, FixedSame DEF PendingAt
    <3> QED BY <1>0, <3>3, <3>4
  <2>2. Sound' /\ cache' # None => world' \subseteq cache'
    BY <1>0, <1>8 DEF IInv, PagesCover
  <2> QED BY <2>1, <2>2 DEF PagesCover
<1>10. WindowsCover'
  BY <1>0, <1>8, FixedSame DEF IInv, WindowsCover
<1>11. ResultOK'
  BY <1>0 DEF IInv, ResultOK
<1>12. EndedIsQuiet' /\ SuccessIsComplete'
  <2>1. worker \notin Ended /\ UNCHANGED outcome
    BY <1>0, <1>2 DEF Ended
  <2> QED BY <2>1, StillAwaited
<1> QED BY <1>4, <1>5, <1>6, <1>7, <1>9, <1>10, <1>11, <1>12 DEF IInv

\* The answers of the five kinds of endpoints.
LEMMA AnswerIInv ==
    ASSUME IInv,
           AnswerTrades \/ AnswerCandles \/ AnswerFunding \/ AnswerOpenInterest \/ AnswerVolatility
    PROVE  IInv'
<1> DEFINE odds == {"fallback", "swallowed", "repeated"}
<1>1. CASE AnswerTrades
  <2> DEFINE page == First(PageSize, TradeMatches)
             kept == OfInstrument(page)
             next == AfterTrades(kept, page # TradeMatches)
             oddity == IF task.dataset = "perps" /\ Routes[at.route] = "currency" THEN {"fallback"} ELSE {}
  <2>1. Asking /\ IsTrades /\ Absorb(kept, next, oddity)
    BY <1>1 DEF AnswerTrades
  <2>2. PageOK(kept, next, oddity)
    BY <2>1, TradePageOK
  <2>3. oddity \subseteq odds
    OBVIOUS
  <2> HIDE DEF kept, next, oddity
  <2> QED BY <2>1, <2>2, <2>3, AbsorbIInv
<1>2. CASE AnswerCandles
  <2>1. Asking /\ task.dataset = "ohlcv"
    BY <1>2 DEF AnswerCandles
  <2>2. CASE Bootstraps
    <3> DEFINE page == ChartPage(CandleHistorySpan)
    <3>1. Absorb(page, AfterCandleHistory(page), {})
      BY <1>2, <2>2 DEF AnswerCandles
    <3>2. PageOK(page, AfterCandleHistory(page), {})
      BY <2>1, <2>2, CandleHistoryPageOK
    <3> HIDE DEF page
    <3> QED BY <2>1, <3>1, <3>2, AbsorbIInv
  <2>3. CASE ~Bootstraps
    <3> DEFINE page == ChartPage(CandleSpan)
    <3>1. Absorb(page, AfterCandles(page), {})
      BY <1>2, <2>3 DEF AnswerCandles
    <3>2. PageOK(page, AfterCandles(page), {})
      BY <2>1, <2>3, CandlePageOK
    <3> HIDE DEF page
    <3> QED BY <2>1, <3>1, <3>2, AbsorbIInv
  <2> QED BY <2>2, <2>3
<1>3. CASE AnswerFunding
  <2>1. Asking /\ task.dataset = "funding"
    BY <1>3 DEF AnswerFunding
  <2>2. CASE Bootstraps
    <3> DEFINE page == FundingPage(FundingHistorySpan)
    <3>1. Absorb(page, AfterFundingHistory(page), {})
      BY <1>3, <2>2 DEF AnswerFunding
    <3>2. PageOK(page, AfterFundingHistory(page), {})
      BY <2>1, <2>2, FundingHistoryPageOK
    <3> HIDE DEF page
    <3> QED BY <2>1, <3>1, <3>2, AbsorbIInv
  <2>3. CASE ~Bootstraps
    <3> DEFINE page == FundingPage(FundingSpan)
    <3>1. Absorb(page, AfterFunding(page), {})
      BY <1>3, <2>3 DEF AnswerFunding
    <3>2. PageOK(page, AfterFunding(page), {})
      BY <2>1, <2>3, FundingPageOK
    <3> HIDE DEF page
    <3> QED BY <2>1, <3>1, <3>2, AbsorbIInv
  <2> QED BY <2>2, <2>3
<1>4. CASE AnswerOpenInterest
  <2> DEFINE more == Cardinality(world) > Points * (at.cursor + 1)
             page == OpenInterestPage
             last == PageAt(at.cursor - 1)
             token1 == IF more THEN at.cursor + 1 ELSE None
             repeated == IF more THEN {"repeated"} ELSE {}
  <2>1. Asking /\ task.dataset = "open_interest"
    BY <1>4 DEF AnswerOpenInterest
  <2>2. \/ Absorb(page, AfterOpenInterest(page, token1), {})
        \/ \E token \in at.seen : Absorb(page, AfterOpenInterest(page, token), repeated)
        \/ Absorb(last, AfterOpenInterest(last, at.cursor + 1), {"repeated"})
    BY <1>4 DEF AnswerOpenInterest
  <2>3. /\ PageOK(page, AfterOpenInterest(page, token1), {})
        /\ \A token \in at.seen : PageOK(page, AfterOpenInterest(page, token), repeated)
        /\ PageOK(last, AfterOpenInterest(last, at.cursor + 1), {"repeated"})
    BY <2>1, OpenInterestPageOK
  <2>4. repeated \subseteq odds
    OBVIOUS
  <2> HIDE DEF page, repeated, token1, last
  <2>5. CASE Absorb(page, AfterOpenInterest(page, token1), {})
    BY <2>1, <2>3, <2>5, AbsorbIInv
  <2>6. CASE \E token \in at.seen : Absorb(page, AfterOpenInterest(page, token), repeated)
    <3>1. PICK token \in at.seen : Absorb(page, AfterOpenInterest(page, token), repeated)
      BY <2>6
    <3> QED BY <2>1, <2>3, <2>4, <3>1, AbsorbIInv
  <2>7. CASE Absorb(last, AfterOpenInterest(last, at.cursor + 1), {"repeated"})
    <3>1. {"repeated"} \subseteq odds
      OBVIOUS
    <3> QED BY <2>1, <2>3, <2>7, <3>1, AbsorbIInv
  <2> QED BY <2>2, <2>5, <2>6, <2>7
<1>5. CASE AnswerVolatility
  <2> DEFINE wanted == Within(world, <<at.cursor, Window[2]>>)
             page == Earliest(Points, wanted)
             next == AfterVolatility(page, page # wanted)
  <2>1. Asking /\ task.dataset = "volatility" /\ Absorb(page, next, {})
    BY <1>5 DEF AnswerVolatility
  <2>2. PageOK(page, next, {})
    BY <2>1, VolatilityPageOK
  <2> HIDE DEF page, next
  <2> QED BY <2>1, <2>2, AbsorbIInv
<1> QED BY <1>1, <1>2, <1>3, <1>4, <1>5


\* Everything a window has to bring is pending when it is opened.
LEMMA FirstCursorOK ==
    ASSUME IInv, todo # {}
    PROVE  /\ FirstCursor \in 0..(Now + 1) /\ (Backward => FirstCursor <= Now)
           /\ \A r \in Expected : PendingAt(FirstCursor, r)
<1>1. /\ Window[1] \in 0..(Now + 1) /\ Window[2] \in 0..Now
  BY OpenWindowOK DEF IInv
<1>2. FirstCursor = IF task.dataset = "open_interest" THEN 0
                    ELSE IF Backward THEN Window[2] ELSE Window[1]
  BY DEF FirstCursor, Backward
<1>3. task.dataset = "open_interest" => ~Backward
  BY DEF Backward
<1>4. FirstCursor \in 0..(Now + 1) /\ (Backward => FirstCursor <= Now)
  BY <1>1, <1>2, <1>3, PointsSpan
<1>5. ASSUME NEW r \in Expected PROVE PendingAt(FirstCursor, r)
  <2>0. FirstCursor # Stop
    BY <1>4, PointsSpan DEF Stop
  <2>1. CASE task.dataset = "open_interest"
    <3>1. Points * FirstCursor = 0
      BY <1>2, <2>1, PointsSpan
    <3>2. Cardinality(Latest(0, world)) = 0 /\ Latest(0, world) \subseteq world
      <4>1. 0 \in Nat /\ WorldOK /\ ~IsTrades
        BY <2>1 DEF IInv, IsTrades
      <4> QED BY <4>1, LatestRows
    <3>3. Latest(0, world) = {}
      BY <3>2, FS_Subset, FS_EmptySet DEF IInv, WorldOK
    <3> QED BY <1>3, <2>0, <2>1, <3>1, <3>3 DEF PendingAt
  <2>2. CASE task.dataset # "open_interest"
    <3>1. r.ts \in Window[1]..Window[2]
      BY <2>2 DEF Expected
    <3> QED BY <1>1, <1>2, <2>0, <2>2, <3>1, PointsSpan DEF PendingAt
  <2> QED BY <2>1, <2>2
<1> QED BY <1>4, <1>5

\* A window is opened at its first cursor, or closed at once with the cached history.
LEMMA OpenWindowIInv == ASSUME IInv, OpenWindow PROVE IInv'
<1> USE DEF fixed, parentVars
<1>0. /\ worker = "fetching" /\ at = None /\ todo # {}
      /\ UNCHANGED <<fixed, todo, got, cache, saved, worker, result, parentVars, odd>>
  BY DEF OpenWindow
<1>1. cache = None \/ cache # None
  OBVIOUS
<1>2. EndedIsQuiet' /\ SuccessIsComplete'
  <2>1. worker \notin Ended /\ UNCHANGED outcome
    BY <1>0 DEF Ended
  <2> QED BY <2>1, StillAwaited
<1>3. WorldOK' /\ WindowsOK'
  BY <1>0, FixedSame, WindowSame DEF IInv
<1>4. ResultOK' /\ WindowsCover'
  <2>1. ResultOK'
    BY <1>0 DEF IInv, ResultOK
  <2>2. WindowsCover'
    BY <1>0, FixedSame DEF IInv, WindowsCover, Sound
  <2> QED BY <2>1, <2>2
<1>5. 1 \in DOMAIN Routes'
  BY <1>0, RoutesOK, FixedSame
<1>6. End' = End
  BY DEF End
<1>7. rows' = {} \/ (cache # None /\ rows' = cache)
  BY DEF OpenWindow
<1>8. RowsOK'
  <2>1. rows' \subseteq world /\ (task.dataset = "perps" => rows' = {})
    BY <1>7 DEF IInv, RowsOK
  <2>2. rows' \cup got' \cup saved' \subseteq world'
        /\ (task'.dataset = "perps" => \A r \in rows' \cup got' \cup saved' : r.own)
    BY <1>0, <2>1 DEF IInv, RowsOK
  <2>3. /\ ~IsTrades' /\ ~Bootstraps' => \A r \in got' \cup saved' : r.ts \in LowerBound'..End'
        /\ ~IsTrades' /\ stored' = {} => got' \subseteq saved'
        /\ cache' # None => task'.dataset = "open_interest" /\ ~Bootstraps' /\ cache' \subseteq world'
    BY <1>0, <1>6, FixedSame DEF IInv, RowsOK
  <2> QED BY <2>2, <2>3 DEF RowsOK
<1>9. ASSUME at' \in Cursors, at'.route = 1, at'.attempt = 1, at'.try = 0,
             at'.cursor \in Stop..(Now + 1)
      PROVE  TypeOK'
  <2>1. UNION {stored', rows', got', saved'} \subseteq world'
    <3>1. UNION {stored, rows, got, saved} \subseteq world /\ rows' \subseteq world'
      BY <1>8 DEF IInv, TypeOK, RowsOK
    <3> QED BY <1>0, <3>1
  <2>2. at'.cursor \in Stop..(Now + Day) /\ at'.attempt \in 1..RouteAttempts /\ at'.try \in 0..HttpRetries
    BY <1>9, OpenedCursors DEF Cursors
  <2> QED BY <1>0, <1>5, <1>9, <2>1, <2>2 DEF IInv, TypeOK
<1>10. CASE cache = None
  <2> DEFINE first == FirstCursor
  <2>1. at' = Open(first) /\ rows' = {}
    BY <1>0, <1>10 DEF OpenWindow
  <2>2. first \in 0..(Now + 1) /\ (Backward => first <= Now)
        /\ \A r \in Expected : PendingAt(first, r)
    BY <1>0, FirstCursorOK
  <2> HIDE DEF first
  <2>3. first \in Stop..(Now + 1) /\ first # Stop /\ first \in Int
    BY <2>2, PointsSpan DEF Stop
  <2>4. /\ at' \in Cursors /\ at'.cursor = first /\ at'.route = 1 /\ at'.attempt = 1 /\ at'.try = 0
        /\ at'.pages = 0 /\ at'.seen = {}
    BY <2>1, <2>3, OpenedCursors
  <2>5. TypeOK'
    BY <1>9, <2>3, <2>4
  <2>6. CursorOK'
    <3>1. at'.pages * PageSize <= Cardinality(rows') /\ \A r \in rows' : r.ts < first
      <4>1. Cardinality(rows') = 0 /\ 0 * PageSize = 0
        BY <2>1, FS_EmptySet, Positive
      <4> QED BY <2>1, <2>4, <4>1
    <3>2. at'.seen \subseteq 1..at'.cursor
      BY <2>4
    <3>3. Backward' => at'.cursor <= Now
      BY <1>0, <2>2, <2>4, FixedSame
    <3> QED BY <1>0, <1>5, <2>4, <3>1, <3>2, <3>3 DEF CursorOK
  <2>7. PagesCover'
    <3>1. ASSUME NEW r \in Expected' PROVE PendingAt(at.cursor, r)'
      <4>1. PendingAt(first, r)
        BY <1>0, <2>2, WindowSame
      <4> QED BY <1>0, <2>4, <4>1, FixedSame DEF PendingAt
    <3>2. cache' = None
      BY <1>0, <1>10
    <3> QED BY <3>1, <3>2 DEF PagesCover
  <2> QED BY <1>2, <1>3, <1>4, <1>8, <2>5, <2>6, <2>7 DEF IInv
<1>11. CASE cache # None
  <2>1. at' = Closed /\ rows' = cache
    BY <1>0, <1>11 DEF OpenWindow
  <2>2. /\ at' \in Cursors /\ at'.cursor = Stop /\ at'.route = 1 /\ at'.attempt = 1 /\ at'.try = 0
        /\ Stop \in Stop..(Now + 1) /\ Stop <= Now
    <3>1. Stop \in Stop..(Now + 1) /\ Stop <= Now
      BY PointsSpan DEF Stop
    <3> QED BY <2>1, <3>1, OpenedCursors
  <2>3. TypeOK'
    BY <1>9, <2>2
  <2>4. CursorOK'
    BY <1>0, <1>5, <2>2 DEF CursorOK
  <2>5. PagesCover'
    <3>1. Sound' => world' \subseteq cache'
      BY <1>0, <1>11, FixedSame DEF IInv, PagesCover, Sound
    <3>2. Expected' \subseteq world'
      BY DEF Expected
    <3>3. rows' = cache'
      BY <1>0, <2>1
    <3> QED BY <3>1, <3>2, <3>3 DEF PagesCover
  <2> QED BY <1>2, <1>3, <1>4, <1>8, <2>3, <2>4, <2>5 DEF IInv
<1> QED BY <1>1, <1>10, <1>11

\* Another try, attempt or route asks for the same page.
LEMMA RetryRequestIInv == ASSUME IInv, RetryRequest PROVE IInv'
<1> USE DEF fixed, parentVars
<1>0. /\ Asking
      /\ UNCHANGED <<fixed, todo, rows, got, cache, saved, worker, result, parentVars, odd>>
  BY DEF RetryRequest
<1>1. /\ at \in Cursors /\ at # None /\ at.cursor # Stop /\ worker = "fetching" /\ todo # {}
  BY <1>0, AskingOK DEF Asking
<1>2. /\ at.route \in 1..Len(Routes) /\ DOMAIN Routes = 1..Len(Routes) /\ Len(Routes) \in Nat
      /\ at.attempt \in 1..RouteAttempts /\ at.try \in 0..HttpRetries /\ at.route \in Nat
      /\ {RouteAttempts, HttpRetries} \subseteq Nat
  BY <1>1, RoutesOK, Positive DEF IInv, CursorOK, Cursors
<1>3. /\ at' \in Cursors /\ at'.cursor = at.cursor /\ at'.pages = at.pages /\ at'.seen = at.seen
      /\ at'.route \in DOMAIN Routes /\ at'.attempt \in 1..RouteAttempts /\ at'.try \in 0..HttpRetries

  <2>1. PICK kind \in Failures :
          \/ RetriesRequest(kind) /\ at' = [at EXCEPT !.try = @ + 1]
          \/ RouteFails(kind) /\ at.attempt < RouteAttempts
             /\ at' = [at EXCEPT !.attempt = @ + 1, !.try = 0]
          \/ RouteFails(kind) /\ at.attempt = RouteAttempts /\ at.route < Len(Routes)
             /\ at' = [at EXCEPT !.route = @ + 1, !.attempt = 1, !.try = 0]
    BY DEF RetryRequest
  <2>2. CASE RetriesRequest(kind) /\ at' = [at EXCEPT !.try = @ + 1]
    <3>1. at.try + 1 \in 0..HttpRetries
      BY <1>2, <2>2 DEF RetriesRequest
    <3> QED BY <1>1, <1>2, <2>2, <3>1 DEF Cursors
  <2>3. CASE at.attempt < RouteAttempts /\ at' = [at EXCEPT !.attempt = @ + 1, !.try = 0]
    <3>1. at.attempt + 1 \in 1..RouteAttempts /\ 0 \in 0..HttpRetries
      BY <1>2, <2>3
    <3> QED BY <1>1, <1>2, <2>3, <3>1 DEF Cursors
  <2>4. CASE at.route < Len(Routes) /\ at' = [at EXCEPT !.route = @ + 1, !.attempt = 1, !.try = 0]
    <3>1. at.route + 1 \in 1..Len(Routes) /\ at.route + 1 \in Nat
      <4> DEFINE n == Len(Routes)
                 k == at.route
      <4>1. k \in 1..n /\ n \in Nat /\ k < n
        BY <1>2, <2>4
      <4> HIDE DEF n, k
      <4>2. k + 1 \in 1..n /\ k + 1 \in Nat
        BY <4>1
      <4> QED BY <4>2 DEF n, k
    <3>2. 1 \in 1..RouteAttempts /\ 0 \in 0..HttpRetries
      BY Positive
    <3> QED BY <1>1, <1>2, <2>4, <3>1, <3>2 DEF Cursors
  <2> QED BY <2>1, <2>2, <2>3, <2>4
<1>4. EndedIsQuiet' /\ SuccessIsComplete'
  <2>1. worker \notin Ended /\ UNCHANGED outcome
    BY <1>0, <1>1 DEF Ended
  <2> QED BY <2>1, StillAwaited
<1>5. WorldOK' /\ WindowsOK'
  BY <1>0, FixedSame, WindowSame DEF IInv
<1>6. TypeOK'
  <2>1. at.cursor \in Stop..(Now + Day)
    BY <1>1 DEF IInv, TypeOK
  <2>2. at'.route \in DOMAIN Routes'
    BY <1>0, <1>3, FixedSame
  <2>3. at'.cursor \in Stop..(Now + Day)
    BY <1>3, <2>1
  <2> QED BY <1>0, <1>3, <2>2, <2>3 DEF IInv, TypeOK
<1>7. CursorOK'
  <2>1. at'.route \in DOMAIN Routes' /\ (Backward' => at'.cursor <= Now)
    BY <1>0, <1>1, <1>3, FixedSame DEF IInv, CursorOK
  <2>2. task.dataset = "open_interest" => at'.seen \subseteq 1..at'.cursor
    BY <1>1, <1>3 DEF IInv, CursorOK
  <2>3. IsTrades' => /\ at'.pages * PageSize <= Cardinality(rows')
                     /\ \A r \in rows' : r.ts < at'.cursor
    BY <1>0, <1>1, <1>3, FixedSame DEF IInv, CursorOK
  <2> QED BY <1>0, <1>1, <1>3, <2>1, <2>2, <2>3 DEF CursorOK
<1>8. RowsOK'
  BY <1>0, FixedSame DEF IInv, RowsOK, End
<1>9. PagesCover'
  <2>1. ASSUME Sound', NEW r \in Expected' PROVE r \in rows' \/ PendingAt(at.cursor, r)'
    <3>1. r \in rows \/ PendingAt(at.cursor, r)
      BY <1>0, <2>1, AskingOK, FixedSame, WindowSame DEF Sound
    <3>2. PendingAt(at.cursor, r) => PendingAt(at.cursor, r)'
      BY <1>0, <1>3, FixedSame DEF PendingAt
    <3> QED BY <1>0, <3>1, <3>2
  <2>2. Sound' /\ cache' # None => world' \subseteq cache'
    BY <1>0, FixedSame DEF IInv, PagesCover, Sound
  <2> QED BY <2>1, <2>2 DEF PagesCover
<1>10. WindowsCover' /\ ResultOK'
  <2>1. WindowsCover'
    BY <1>0, FixedSame DEF IInv, WindowsCover, Sound
  <2>2. ResultOK'
    BY <1>0 DEF IInv, ResultOK
  <2> QED BY <2>1, <2>2
<1> QED BY <1>4, <1>5, <1>6, <1>7, <1>8, <1>9, <1>10 DEF IInv


\* A step that leaves the open window and what it collected alone, and only says how the
\* fetch went on for others.
LEMMA PagingSame ==
    ASSUME IInv, UNCHANGED <<fixed, todo, at, rows, got, cache, odd>>
    PROVE  WorldOK' /\ WindowsOK' /\ CursorOK' /\ PagesCover' /\ WindowsCover'
<1> USE DEF fixed
<1>1. WorldOK' /\ WindowsOK'
  BY FixedSame, WindowSame DEF IInv
<1>2. CursorOK'
  BY FixedSame DEF IInv, CursorOK
<1>3. PagesCover'
  <2>1. ASSUME Sound', at' # None, NEW r \in Expected' PROVE r \in rows' \/ PendingAt(at.cursor, r)'
    <3>1. r \in rows \/ PendingAt(at.cursor, r)
      BY <2>1, FixedSame, WindowSame DEF Sound, IInv, PagesCover
    <3>2. PendingAt(at.cursor, r) => PendingAt(at.cursor, r)'
      BY FixedSame DEF PendingAt
    <3> QED BY <3>1, <3>2
  <2>2. Sound' /\ cache' # None => world' \subseteq cache'
    BY FixedSame DEF IInv, PagesCover, Sound
  <2> QED BY <2>1, <2>2 DEF PagesCover
<1>4. WindowsCover'
  BY FixedSame DEF IInv, WindowsCover, Sound
<1> QED BY <1>1, <1>2, <1>3, <1>4

\* RowsOK while nothing is persisted.
LEMMA RowsSame ==
    ASSUME IInv, UNCHANGED <<fixed, rows, got, cache, saved>>
    PROVE  RowsOK'
BY FixedSame DEF IInv, RowsOK, End, fixed

\* A swallowed failure is odd, and nothing is promised from there on.
LEMMA SwallowFailureIInv == ASSUME IInv, SwallowFailure PROVE IInv'
<1> USE DEF fixed, parentVars
<1>0. /\ Asking /\ at' = Closed /\ odd' = odd \cup {"swallowed"} /\ rows' \subseteq rows
      /\ UNCHANGED <<fixed, todo, got, cache, saved, worker, result, parentVars>>
  BY DEF SwallowFailure
<1>1. worker = "fetching" /\ todo # {}
  BY <1>0, AskingOK DEF Asking
<1>2. ~Sound'
  <2>1. odd' # {}
    BY <1>0
  <2> QED BY <2>1 DEF Sound
<1>3. /\ at' \in Cursors /\ at'.cursor = Stop /\ at'.route = 1 /\ at'.attempt = 1 /\ at'.try = 0
      /\ Stop \in Stop..(Now + 1) /\ Stop <= Now
  <2>1. Stop \in Stop..(Now + 1) /\ Stop <= Now
    BY PointsSpan DEF Stop
  <2> QED BY <1>0, <2>1, OpenedCursors
<1>4. 1 \in DOMAIN Routes'
  BY <1>0, RoutesOK, FixedSame
<1>5. EndedIsQuiet' /\ SuccessIsComplete'
  <2>1. worker \notin Ended /\ UNCHANGED outcome
    BY <1>0, <1>1 DEF Ended
  <2> QED BY <2>1, StillAwaited
<1>6. WorldOK' /\ WindowsOK'
  BY <1>0, FixedSame, WindowSame DEF IInv
<1>7. TypeOK'
  <2>1. UNION {stored', rows', got', saved'} \subseteq world'
    BY <1>0 DEF IInv, TypeOK
  <2>2. at'.cursor \in Stop..(Now + Day) /\ at'.attempt \in 1..RouteAttempts /\ at'.try \in 0..HttpRetries
    BY <1>3, OpenedCursors DEF Cursors
  <2> QED BY <1>0, <1>3, <1>4, <2>1, <2>2 DEF IInv, TypeOK
<1>8. CursorOK'
  BY <1>0, <1>1, <1>3, <1>4 DEF CursorOK
<1>9. RowsOK'
  BY <1>0, FixedSame DEF IInv, RowsOK, End
<1>10. PagesCover' /\ WindowsCover'
  BY <1>2 DEF PagesCover, WindowsCover
<1>11. ResultOK'
  BY <1>0 DEF IInv, ResultOK
<1> QED BY <1>5, <1>6, <1>7, <1>8, <1>9, <1>10, <1>11 DEF IInv

\* Steps in which the fetch ends: a failure, its last window, its result in the pipe, or the
\* death of the worker.
LEMMA EndingIInv ==
    ASSUME IInv, RaiseFailure \/ FinishFetch \/ Flush \/ Die
    PROVE  IInv'
<1> USE DEF fixed, parentVars
<1>0. /\ UNCHANGED <<fixed, todo, at, rows, got, cache, saved, parentVars, odd>>
      /\ worker \in {"fetching", "flushing"} /\ worker' \in {"flushing", "exited"}
      /\ result' \in {"error", None} \/ result' = result \/ (result' = "ok" /\ todo = {})
      /\ result' \in {"ok", "error", None}
  <2>1. result \in {"ok", "error", None}
    BY DEF IInv, TypeOK
  <2>2. CASE RaiseFailure
    BY <2>2 DEF RaiseFailure, Asking, Finished
  <2>3. CASE FinishFetch
    BY <2>3 DEF FinishFetch, Finished
  <2>4. CASE Flush
    BY <2>1, <2>4 DEF Flush
  <2>5. CASE Die
    BY <2>5 DEF Die
  <2> QED BY <2>2, <2>3, <2>4, <2>5
<1>1. EndedIsQuiet' /\ SuccessIsComplete'
  <2>1. worker \notin Ended /\ UNCHANGED outcome
    BY <1>0 DEF Ended
  <2> QED BY <2>1, StillAwaited
<1>2. WorldOK' /\ WindowsOK' /\ CursorOK' /\ PagesCover' /\ WindowsCover'
  BY <1>0, PagingSame
<1>3. RowsOK'
  BY <1>0, RowsSame
<1>4. TypeOK'
  <2>1. at' # None => at'.route \in DOMAIN Routes'
    BY <1>0, FixedSame DEF IInv, TypeOK
  <2> QED BY <1>0, <2>1 DEF IInv, TypeOK
<1>5. ResultOK'
  <2>1. None # "ok"
    BY FetchAssumption
  <2> QED BY <1>0, <2>1 DEF IInv, ResultOK
<1> QED BY <1>1, <1>2, <1>3, <1>4, <1>5 DEF IInv

\* A closed window has brought what it had to, and its rows are of the task's range.
LEMMA CloseWindowIInv == ASSUME IInv, CloseWindow PROVE IInv'
<1> USE DEF fixed, parentVars
<1> DEFINE asked == IF Bootstraps THEN rows ELSE Within(rows, Window)
<1>0. /\ worker = "fetching" /\ at # None /\ at.cursor = Stop
      /\ got' = got \cup asked
      /\ saved' = IF stored = {} /\ ~IsTrades THEN saved \cup asked ELSE saved
      /\ cache' = IF task.dataset = "open_interest" /\ ~Bootstraps THEN rows ELSE cache
      /\ todo' = todo \ {Window} /\ at' = None /\ rows' = {}
      /\ UNCHANGED <<fixed, worker, result, parentVars, odd>>
  BY DEF CloseWindow
<1>1. asked \subseteq rows /\ (~Bootstraps => \A r \in asked : r.ts \in Window[1]..Window[2])
  BY DEF Within
<1>2. \A r \in rows : Bootstraps \/ r.ts \in Window[1]..Window[2] => r \in asked
  BY DEF Within
<1> HIDE DEF asked
<1>3. todo # {}
  BY <1>0 DEF IInv, CursorOK
<1>4. EndedIsQuiet' /\ SuccessIsComplete'
  <2>1. worker \notin Ended /\ UNCHANGED outcome
    BY <1>0 DEF Ended
  <2> QED BY <2>1, StillAwaited
<1>5. WorldOK'
  BY <1>0, FixedSame DEF IInv
<1>6. WindowsOK'
  <2>1. todo' \subseteq todo /\ End' = End
    BY <1>0 DEF End
  <2> QED BY <1>0, <2>1, FixedSame DEF IInv, WindowsOK
<1>7. TypeOK'
  <2>1. UNION {stored', rows', got', saved'} \subseteq world'
    <3>1. UNION {stored, rows, got, saved} \subseteq world
      BY DEF IInv, TypeOK
    <3> QED BY <1>0, <1>1, <3>1
  <2> QED BY <1>0, <2>1 DEF IInv, TypeOK
<1>8. CursorOK'
  BY <1>0 DEF CursorOK
<1>9. RowsOK'
  <2>1. rows' \cup got' \cup saved' \subseteq rows \cup got \cup saved
    BY <1>0, <1>1
  <2>2. rows' \cup got' \cup saved' \subseteq world'
    BY <1>0, <2>1 DEF IInv, RowsOK
  <2>3. task'.dataset = "perps" => \A r \in rows' \cup got' \cup saved' : r.own
    BY <1>0, <2>1 DEF IInv, RowsOK
  <2>4. ASSUME ~IsTrades, ~Bootstraps, NEW r \in asked PROVE r.ts \in LowerBound..End
    <3>1. LowerBound <= Window[1] /\ Window[2] <= End /\ Window[1] \in 0..(Now + 1) /\ Window[2] \in 0..Now
      BY <1>3, <2>4, OpenWindowOK DEF IInv
    <3>2. r.ts \in Window[1]..Window[2]
      BY <1>1, <2>4
    <3>3. LowerBound \in Int /\ End \in Int
      BY <2>4, LowerBoundIsLeast, EndIsClosed, PointsSpan DEF IInv
    <3> QED BY <3>1, <3>2, <3>3, PointsSpan
  <2>5. got' \cup saved' \subseteq got \cup saved \cup asked
    BY <1>0
  <2>6. ~IsTrades' /\ ~Bootstraps' => \A r \in got' \cup saved' : r.ts \in LowerBound'..End'
    <3>1. End' = End
      BY DEF End
    <3> QED BY <1>0, <2>4, <2>5, <3>1, FixedSame DEF IInv, RowsOK
  <2>7. ~IsTrades' /\ stored' = {} => got' \subseteq saved'
    BY <1>0, FixedSame DEF IInv, RowsOK
  <2>8. cache' # None => task'.dataset = "open_interest" /\ ~Bootstraps' /\ cache' \subseteq world'
    BY <1>0, FixedSame DEF IInv, RowsOK
  <2> QED BY <2>2, <2>3, <2>6, <2>7, <2>8 DEF RowsOK
<1>10. Sound' => Sound
  BY <1>0, FixedSame DEF Sound
<1>11. ASSUME Sound, NEW r \in Expected PROVE r \in rows
  BY <1>0, <1>11 DEF IInv, PagesCover, PendingAt
<1>12. PagesCover'
  <2>1. ASSUME Sound', cache' # None PROVE world' \subseteq cache'
    <3>1. CASE task.dataset = "open_interest" /\ ~Bootstraps
      <4>1. \A r \in world : r \in Expected
        BY <3>1 DEF Expected, IInv, WorldOK, IsTrades, Row
      <4> QED BY <1>0, <1>10, <1>11, <2>1, <3>1, <4>1
    <3>2. CASE ~(task.dataset = "open_interest" /\ ~Bootstraps)
      BY <1>0, <1>10, <2>1, <3>2 DEF IInv, PagesCover
    <3> QED BY <3>1, <3>2
  <2> QED BY <1>0, <2>1 DEF PagesCover
<1>13. WindowsCover'
  <2>1. ASSUME Sound', NEW r \in Wanted', r \notin stored' \cup got'
        PROVE  \E w \in todo' : r.ts \in w[1]..w[2]
    <3>1. r \in Wanted /\ Sound /\ r \notin stored \cup got
      BY <1>0, <1>10, <2>1, FixedSame
    <3>2. PICK w \in todo : r.ts \in w[1]..w[2]
      BY <3>1 DEF IInv, WindowsCover
    <3>3. w # Window
      <4> SUFFICES ASSUME w = Window PROVE FALSE
        OBVIOUS
      <4>1. r \in world /\ r.own
        BY <3>1 DEF Wanted
      <4>2. r \in Expected
        BY <3>2, <4>1 DEF Expected
      <4>3. r \in rows
        BY <1>11, <3>1, <4>2
      <4>4. r \in asked
        BY <1>2, <3>2, <4>3
      <4> QED BY <1>0, <2>1, <4>4
    <3> QED BY <1>0, <3>2, <3>3
  <2> QED BY <2>1 DEF WindowsCover
<1>14. ResultOK'
  BY <1>0 DEF IInv, ResultOK
<1> QED BY <1>4, <1>5, <1>6, <1>7, <1>8, <1>9, <1>12, <1>13, <1>14 DEF IInv

\* The caller persists what was returned; what was not has been streamed before.
LEMMA CollectIInv == ASSUME IInv, Collect PROVE IInv'
<1> USE DEF fixed
<1>0. /\ outcome = None /\ worker = "exited"
      /\ outcome' = IF result = "ok" THEN "rows" ELSE "error"
      /\ saved' = IF result = "ok" THEN saved \cup Returned ELSE saved
      /\ UNCHANGED <<fixed, todo, at, rows, got, cache, worker, result, late, odd>>
  BY DEF Collect
<1>1. Returned \subseteq got
  BY DEF Returned
<1>2. WorldOK' /\ WindowsOK' /\ CursorOK' /\ PagesCover' /\ WindowsCover'
  BY <1>0, PagingSame
<1>3. TypeOK'
  <2>1. at' # None => at'.route \in DOMAIN Routes'
    BY <1>0, FixedSame DEF IInv, TypeOK
  <2>2. UNION {stored', rows', got', saved'} \subseteq world'
    <3>1. UNION {stored, rows, got, saved} \subseteq world
      BY DEF IInv, TypeOK
    <3> QED BY <1>0, <1>1, <3>1
  <2> QED BY <1>0, <2>1, <2>2 DEF IInv, TypeOK
<1>4. RowsOK'
  <2>1. saved' \subseteq got \cup saved /\ saved \subseteq saved' /\ End' = End
    BY <1>0, <1>1 DEF End
  <2> QED BY <1>0, <2>1, FixedSame DEF IInv, RowsOK
<1>5. ResultOK' /\ EndedIsQuiet'
  BY <1>0 DEF IInv, ResultOK, EndedIsQuiet, Ended
<1>6. SuccessIsComplete'
  <2> SUFFICES ASSUME outcome' = "rows", Regular', odd' = {}, NEW r \in Wanted', r \notin stored'
               PROVE  r \in saved'
    BY DEF SuccessIsComplete
  <2>1. result = "ok" /\ Sound /\ r \in Wanted /\ r \notin stored
    BY <1>0, FixedSame DEF Sound
  <2>2. todo = {}
    BY <2>1 DEF IInv, ResultOK
  <2>3. r \in got
    BY <2>1, <2>2 DEF IInv, WindowsCover
  <2>4. CASE Returned = got
    BY <1>0, <2>1, <2>3, <2>4
  <2>5. CASE Returned # got
    <3>1. ~IsTrades /\ stored = {}
      BY <2>5 DEF Returned, Bootstraps
    <3>2. got \subseteq saved
      BY <3>1 DEF IInv, RowsOK
    <3> QED BY <1>0, <2>3, <3>2
  <2> QED BY <2>4, <2>5
<1> QED BY <1>2, <1>3, <1>4, <1>5, <1>6 DEF IInv

\* The deadline passes, or the caller gives up on it.
LEMMA DeadlineIInv ==
    ASSUME IInv, TimePasses \/ Timeout
    PROVE  IInv'
<1> USE DEF fixed
<1>0. /\ UNCHANGED <<fixed, todo, at, rows, got, cache, saved, result, odd>>
      /\ late' \in BOOLEAN /\ worker' \in {worker, "exited", "killed"}
      /\ outcome' = outcome \/ outcome' = "timeout"
  <2>1. CASE TimePasses
    BY <2>1 DEF TimePasses
  <2>2. CASE Timeout
    <3>1. late' \in BOOLEAN
      BY <2>2 DEF Timeout, IInv, TypeOK
    <3> QED BY <2>2, <3>1 DEF Timeout
  <2> QED BY <2>1, <2>2
<1>1. WorldOK' /\ WindowsOK' /\ CursorOK' /\ PagesCover' /\ WindowsCover'
  BY <1>0, PagingSame
<1>2. RowsOK'
  BY <1>0, RowsSame
<1>3. TypeOK'
  <2>1. at' # None => at'.route \in DOMAIN Routes'
    BY <1>0, FixedSame DEF IInv, TypeOK
  <2>2. worker' \in {"fetching", "flushing", "exited", "killed"}
        /\ outcome' \in {"rows", "error", "timeout", None}
    BY <1>0 DEF IInv, TypeOK
  <2> QED BY <1>0, <2>1, <2>2 DEF IInv, TypeOK
<1>4. ResultOK'
  BY <1>0 DEF IInv, ResultOK
<1>5. EndedIsQuiet'
  BY DEF TimePasses, Timeout, EndedIsQuiet, Ended
<1>6. SuccessIsComplete'
  BY <1>0, FixedSame DEF IInv, SuccessIsComplete
<1> QED BY <1>1, <1>2, <1>3, <1>4, <1>5, <1>6 DEF IInv


-----------------------------------------------------------------------------
(* The invariant.                                                          *)

\* The tasks of a run.
LEMMA InitialTask ==
    ASSUME Init
    PROVE  /\ task.dataset \in Series \cup Trades /\ task.tail \in BOOLEAN /\ task.worker \in BOOLEAN
           /\ task.bound \in Bounds \cup {None} /\ (IsTrades => task.bound = None)
<1>1. ASSUME NEW dataset \in {"ohlcv", "open_interest", "funding", "volatility"},
             NEW workers \in SUBSET BOOLEAN, task \in SeriesTasks(dataset, workers)
      PROVE  /\ task.dataset \in Series /\ task.tail \in BOOLEAN /\ task.worker \in BOOLEAN
             /\ task.bound \in Bounds \cup {None} /\ ~IsTrades
  <2>1. task \in [dataset : {dataset} \cap Series, bound : Bounds \cup {None}, tail : BOOLEAN, worker : workers]
    BY <1>1 DEF SeriesTasks
  <2>2. task.dataset \in {dataset} \cap Series /\ task.bound \in Bounds \cup {None}
    BY <2>1
  <2>3. task.tail \in BOOLEAN
    BY <2>1
  <2>4. task.worker \in BOOLEAN
    BY <2>1
  <2> QED BY <2>2, <2>3, <2>4 DEF IsTrades
<1>2. ASSUME task \in TradeTasks
      PROVE  /\ task.dataset \in Trades /\ task.tail \in BOOLEAN /\ task.worker \in BOOLEAN
             /\ task.bound = None
  BY <1>2 DEF TradeTasks
<1>3. \/ \E dataset \in {"ohlcv", "open_interest", "funding", "volatility"},
            workers \in SUBSET BOOLEAN : task \in SeriesTasks(dataset, workers)
      \/ task \in TradeTasks
  <2>1. task \in UNION {CandleTasks, OpenInterestTasks, FundingTasks, VolatilityTasks, TradeTasks}
    BY DEF Init
  <2>2. {FALSE} \in SUBSET BOOLEAN /\ BOOLEAN \in SUBSET BOOLEAN
    OBVIOUS
  <2> QED BY <2>1, <2>2 DEF CandleTasks, OpenInterestTasks, FundingTasks, VolatilityTasks
<1> QED BY <1>1, <1>2, <1>3

\* The histories an exchange may hold are finite sets of rows.
LEMMA InitialWorld == ASSUME Init PROVE WorldOK
<1>1. task \in UNION {CandleTasks, OpenInterestTasks, FundingTasks, VolatilityTasks, TradeTasks}
      /\ world \in (IF IsTrades THEN TradeWorlds ELSE SeriesWorlds)
      /\ stored \in (IF IsTrades THEN {{}}
                     ELSE {rs \in SUBSET world : rs # {} => Min(Times(rs)) <= End})
  BY DEF Init
<1>2. task.bound \in Bounds \cup {None} /\ (IsTrades => task.bound = None)
  BY InitialTask
<1>3. CASE ~IsTrades
  <2>1. PICK ts \in SUBSET {t \in 0..Now : t % Interval = 0} : world = {Row(t) : t \in ts}
    BY <1>1, <1>3 DEF SeriesWorlds
  <2>2. IsFiniteSet(ts)
    <3>1. IsFiniteSet(0..Now)
      BY PointsSpan, FS_Interval
    <3> QED BY <2>1, <3>1, FS_Subset
  <2> DEFINE row == [t \in ts |-> Row(t)]
  <2>3. row \in Surjection(ts, world)
    BY <2>1 DEF Surjection
  <2>4. IsFiniteSet(world)
    <3> HIDE DEF row
    <3> QED BY <2>2, <2>3, FS_Surjection
  <2>5. \A r \in world : r.ts \in 0..Now /\ r.ts % Interval = 0 /\ r = Row(r.ts)
    BY <2>1 DEF Row
  <2>6. stored \subseteq world /\ (stored # {} => Min(Times(stored)) <= End)
    BY <1>1, <1>3
  <2> QED BY <1>2, <1>3, <2>4, <2>5, <2>6 DEF WorldOK
<1>4. CASE IsTrades
  <2>0. PICK n \in 0..MaxTrades :
          world \in {{[f[i] EXCEPT !.id = i] : i \in 1..n} :
                        f \in [1..n -> [ts : 1..TradeSpan, id : {0}, own : BOOLEAN]]}
    BY <1>1, <1>4 DEF TradeWorlds
  <2>1. PICK f \in [1..n -> [ts : 1..TradeSpan, id : {0}, own : BOOLEAN]] :
          world = {[f[i] EXCEPT !.id = i] : i \in 1..n}
    BY <2>0
  <2>2. n \in Nat /\ IsFiniteSet(1..n)
    BY Positive, FS_Interval
  <2> DEFINE trade == [i \in 1..n |-> [f[i] EXCEPT !.id = i]]
  <2>3. trade \in Surjection(1..n, world)
    BY <2>1 DEF Surjection
  <2>4. IsFiniteSet(world)
    <3> HIDE DEF trade
    <3> QED BY <2>2, <2>3, FS_Surjection
  <2>5. ASSUME NEW r \in world PROVE r.ts \in 1..TradeSpan /\ r.id \in Nat
    <3>1. PICK i \in 1..n : r = [f[i] EXCEPT !.id = i]
      BY <2>1
    <3>2. f[i] \in [ts : 1..TradeSpan, id : {0}, own : BOOLEAN]
      BY <2>1
    <3>3. r.ts = f[i].ts /\ r.id = i
      BY <3>1, <3>2
    <3> QED BY <2>2, <3>2, <3>3
  <2>6. stored = {}
    BY <1>1, <1>4
  <2> QED BY <1>2, <1>4, <2>4, <2>5, <2>6 DEF WorldOK
<1> QED BY <1>3, <1>4

\* The plan covers what is wanted before anything is fetched.
LEMMA InitIInv == Init => IInv
<1> SUFFICES ASSUME Init PROVE IInv
  OBVIOUS
<1>0. /\ todo = Plan /\ at = None /\ rows = {} /\ got = {} /\ saved = {} /\ cache = None
      /\ worker = "fetching" /\ result = None /\ late = FALSE /\ outcome = None /\ odd = {}
  BY DEF Init
<1>1. WorldOK
  BY InitialWorld
<1>8. task.dataset \in Series \cup Trades /\ task.tail \in BOOLEAN /\ task.worker \in BOOLEAN
      /\ task.bound \in Bounds \cup {None}
  BY InitialTask
<1>2. WindowsOK /\ \A r \in Wanted : r \in stored \/ \E w \in todo : r.ts \in w[1]..w[2]
  BY <1>0, <1>1, <1>8, PlanIsComplete
<1>3. TypeOK
  <2>1. stored \subseteq world
    BY <1>1 DEF WorldOK
  <2> QED BY <1>0, <1>8, <2>1 DEF TypeOK
<1>4. CursorOK /\ PagesCover /\ ResultOK /\ EndedIsQuiet
  BY <1>0, FetchAssumption DEF CursorOK, PagesCover, ResultOK, EndedIsQuiet
<1>5. RowsOK
  BY <1>0 DEF RowsOK
<1>6. WindowsCover
  BY <1>2 DEF WindowsCover
<1>7. SuccessIsComplete
  <2>1. None # "rows"
    BY FetchAssumption
  <2> QED BY <1>0, <2>1 DEF SuccessIsComplete
<1> QED BY <1>1, <1>2, <1>3, <1>4, <1>5, <1>6, <1>7 DEF IInv

\* One step per action, each by the lemma of its own.
LEMMA NextIInv == IInv /\ [Next]_vars => IInv'
<1> SUFFICES ASSUME IInv, [Next]_vars PROVE IInv'
  OBVIOUS
<1>1. CASE Fetch
  <2>1. CASE OpenWindow
    BY <2>1, OpenWindowIInv
  <2>2. CASE AnswerTrades \/ AnswerCandles \/ AnswerFunding \/ AnswerOpenInterest \/ AnswerVolatility
    BY <2>2, AnswerIInv
  <2>3. CASE RetryRequest
    BY <2>3, RetryRequestIInv
  <2>4. CASE SwallowFailure
    BY <2>4, SwallowFailureIInv
  <2>5. CASE RaiseFailure \/ FinishFetch
    BY <2>5, EndingIInv
  <2>6. CASE CloseWindow
    BY <2>6, CloseWindowIInv
  <2> QED BY <1>1, <2>1, <2>2, <2>3, <2>4, <2>5, <2>6 DEF Fetch
<1>2. CASE Flush \/ Die
  BY <1>2, EndingIInv
<1>3. CASE Collect
  BY <1>3, CollectIInv
<1>4. CASE TimePasses \/ Timeout
  BY <1>4, DeadlineIInv
<1>5. CASE Done \/ UNCHANGED vars
  <2>1. UNCHANGED vars
    BY <1>5 DEF Done
  <2>2. UNCHANGED <<fixed, todo, at, rows, got, cache, odd>> /\ UNCHANGED <<saved, worker, result, late, outcome>>
    BY <2>1 DEF vars, fixed
  <2>3. WorldOK' /\ WindowsOK' /\ CursorOK' /\ PagesCover' /\ WindowsCover' /\ RowsOK'
    BY <2>2, PagingSame, RowsSame
  <2>4. TypeOK'
    BY <2>2, FixedSame DEF IInv, TypeOK, fixed
  <2>5. ResultOK' /\ EndedIsQuiet'
    BY <2>2 DEF IInv, ResultOK, EndedIsQuiet
  <2>6. SuccessIsComplete'
    BY <2>2, FixedSame DEF IInv, SuccessIsComplete, fixed
  <2> QED BY <2>3, <2>4, <2>5, <2>6 DEF IInv
<1> QED BY <1>1, <1>2, <1>3, <1>4, <1>5 DEF Next


\* A step of the fetch leaves the caller alone and happens only while fetching.
LEMMA FetchIsWorking ==
    ASSUME Fetch
    PROVE  worker = "fetching" /\ UNCHANGED outcome
<1>1. CASE OpenWindow
  BY <1>1 DEF OpenWindow, parentVars
<1>2. CASE AnswerTrades
  BY <1>2 DEF AnswerTrades, Asking, Absorb, parentVars
<1>3. CASE AnswerCandles
  BY <1>3 DEF AnswerCandles, Asking, Absorb, parentVars
<1>4. CASE AnswerFunding
  BY <1>4 DEF AnswerFunding, Asking, Absorb, parentVars
<1>5. CASE AnswerOpenInterest
  BY <1>5 DEF AnswerOpenInterest, Asking, Absorb, parentVars
<1>6. CASE AnswerVolatility
  BY <1>6 DEF AnswerVolatility, Asking, Absorb, parentVars
<1>7. CASE RetryRequest
  BY <1>7 DEF RetryRequest, Asking, parentVars
<1>8. CASE SwallowFailure
  BY <1>8 DEF SwallowFailure, Asking, parentVars
<1>9. CASE RaiseFailure
  BY <1>9 DEF RaiseFailure, Asking, parentVars
<1>10. CASE CloseWindow
  BY <1>10 DEF CloseWindow, parentVars
<1>11. CASE FinishFetch
  BY <1>11 DEF FinishFetch, parentVars
<1> QED BY <1>1, <1>2, <1>3, <1>4, <1>5, <1>6, <1>7, <1>8, <1>9, <1>10, <1>11 DEF Fetch

\* A task begins without an outcome.
LEMMA EndedIsQuietInit == Init => EndedIsQuiet
BY DEF Init, EndedIsQuiet

\* A caller gives up only after it has killed its worker, and takes a result only of a
\* worker that has exited.
LEMMA EndedIsQuietNext == EndedIsQuiet /\ [Next]_vars => EndedIsQuiet'
<1> SUFFICES ASSUME EndedIsQuiet, [Next]_vars PROVE EndedIsQuiet'
  OBVIOUS
<1> USE DEF EndedIsQuiet, Ended
<1>1. CASE Fetch
  <2>1. outcome' = None
    BY <1>1, FetchIsWorking
  <2> QED BY <2>1
<1>2. CASE Flush
  BY <1>2 DEF Flush, parentVars
<1>3. CASE Die
  BY <1>3 DEF Die, parentVars
<1>4. CASE Collect
  BY <1>4 DEF Collect
<1>5. CASE TimePasses
  BY <1>5 DEF TimePasses
<1>6. CASE Timeout
  BY <1>6 DEF Timeout
<1>7. CASE Done \/ UNCHANGED vars
  BY <1>7 DEF Done, vars
<1> QED BY <1>1, <1>2, <1>3, <1>4, <1>5, <1>6, <1>7 DEF Next

\* A step that persists rows is one of the fetch, or the caller taking its result.
LEMMA OnlyWorkersWrite ==
    ASSUME EndedIsQuiet, [Next]_vars, outcome # None
    PROVE  saved' = saved
<1>1. ~Fetch
  BY FetchIsWorking DEF EndedIsQuiet, Ended
<1>2. ~Collect
  BY DEF Collect
<1>3. CASE Flush \/ Die
  BY <1>3 DEF Flush, Die
<1>4. CASE TimePasses \/ Timeout
  BY <1>4 DEF TimePasses, Timeout
<1>5. CASE Done \/ UNCHANGED vars
  BY <1>5 DEF Done, vars
<1> QED BY <1>1, <1>2, <1>3, <1>4, <1>5 DEF Next

\* A task has an outcome for its caller only when its worker has exited or was killed
\* (run_with_optional_timeout).
THEOREM OutcomeEndsWorker == Spec => []EndedIsQuiet
<1>1. Init => EndedIsQuiet
  BY EndedIsQuietInit
<1>2. EndedIsQuiet /\ [Next]_vars => EndedIsQuiet'
  BY EndedIsQuietNext
<1> QED BY <1>1, <1>2, PTL DEF Spec

\* Nothing is persisted on behalf of a task that has ended for its caller, whatever the
\* worker of a timed-out task was about to do.
THEOREM EndedTasksWriteNothing == Spec => NothingWritesAfterwards
<1>1. EndedIsQuiet /\ [Next]_vars => [outcome # None => saved' = saved]_vars
  BY OnlyWorkersWrite
<1> QED BY <1>1, OutcomeEndsWorker, PTL DEF Spec, NothingWritesAfterwards

\* The invariant holds in every reachable state.
LEMMA Invariance == Spec => []IInv
<1> QED BY InitIInv, NextIInv, PTL DEF Spec

\* Every reachable state is well-typed, and the lake and the callbacks hold nothing the
\* exchange does not.
THEOREM TypeCorrectness == Spec => []TypeOK
<1>1. IInv => TypeOK
  BY DEF IInv
<1> QED BY <1>1, Invariance, PTL

\* A task reported as successful has brought every wanted row of the exchange into the lake,
\* for every dataset, history, day and page length, number of retries and routes: what is
\* missing of it always lies in a window still to fetch, and in the open window at or behind
\* the cursor.
THEOREM SuccessfulTasksAreComplete == Spec => []SuccessIsComplete
<1>1. IInv => SuccessIsComplete
  BY DEF IInv
<1> QED BY <1>1, Invariance, PTL

\* A task persists rows of its own instrument and range only, by the chunk callbacks of a
\* fetch under way as well as by the completion callback.
THEOREM OnlyAskedIsPersisted == Spec => []PersistsOnlyAsked
<1>1. IInv => PersistsOnlyAsked
  BY DEF IInv, RowsOK, PersistsOnlyAsked, LowerBound
<1> QED BY <1>1, Invariance, PTL
=============================================================================
