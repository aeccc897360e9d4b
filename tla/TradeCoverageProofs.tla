------------------------ MODULE TradeCoverageProofs ------------------------
(***************************************************************************)
(* Proofs about TradeCoverage, for any history, window size and number of  *)
(* runs: what the lake holds of a minute, and that a full-gap run rescans  *)
(* every hole.                                                             *)
(***************************************************************************)
EXTENDS TradeCoverage, NumberLemmas

USE CoverageAssumption

\* All trades of the minute, or none.
WholeOrNone(trades, m) ==
    trades \cap (traded \cap InMinute(m)) \in {{}, traded \cap InMinute(m)}

\* The lake and a tail run's memory only hold trades, whole minutes of them outside of cut.
Genuine == stored \subseteq traded /\ fetched \subseteq traded
FetchedWhole == \A m \in (0..(Minutes - 1)) \ cut : WholeOrNone(fetched, m)

\* What the windows still to fetch cut is accounted for.
CutsKnown == \A w \in windows : CutBy(w) \subseteq cut

\* A full-gap run without failures has stored what its remaining windows do not hold.
GapProgress ==
    pc = "gap" /\ failed = {} =>
        \A t \in traded : t < horizon /\ Minute(t) \notin cut =>
            t \in stored \/ \E w \in windows : t \in w[1]..w[2]

IInv ==
    /\ TypeOK /\ Genuine /\ FetchedWhole /\ CutsKnown /\ GapProgress
    /\ WholeMinutes /\ RescansGaps
-----------------------------------------------------------------------------
(* Minutes.                                                                *)

LEMMA Positive == {Minutes, PerMinute, WindowSize} \subseteq Nat \ {0}
OBVIOUS

LEMMA MinuteBounds ==
    ASSUME NEW t \in Int
    PROVE  /\ Minute(t) \in Int /\ Minute(t) * PerMinute \in Int
           /\ Minute(t) * PerMinute <= t /\ t < Minute(t) * PerMinute + PerMinute
<1>1. /\ t \div PerMinute \in Int /\ (t \div PerMinute) * PerMinute <= t
      /\ t < (t \div PerMinute) * PerMinute + PerMinute
  BY Positive, Quotient
<1>2. (t \div PerMinute) * PerMinute \in Int
  BY <1>1, Positive, Multiples
<1> QED BY <1>1, <1>2 DEF Minute

\* An instant is in the minute it is counted to, and in no other.
LEMMA InItsMinute ==
    ASSUME NEW t \in Int, NEW m \in Int
    PROVE  Minute(t) \in Int /\ (t \in InMinute(m) <=> Minute(t) = m)
<1>1. /\ Minute(t) \in Int /\ FirstOf(Minute(t)) <= t /\ t < FirstOf(Minute(t)) + PerMinute
      /\ FirstOf(Minute(t)) \in Int /\ FirstOf(m) \in Int /\ PerMinute \in Int
  BY MinuteBounds, Positive, Multiples DEF FirstOf
<1>2. /\ m < Minute(t) => FirstOf(m) + PerMinute <= FirstOf(Minute(t))
      /\ Minute(t) < m => FirstOf(Minute(t)) + PerMinute <= FirstOf(m)
  BY <1>1, Positive, Multiples DEF FirstOf
<1> QED BY <1>1, <1>2 DEF InMinute

LEMMA MinuteOrder ==
    ASSUME NEW t \in Int, NEW u \in Int
    PROVE  /\ t <= u => Minute(t) <= Minute(u)
           /\ Minute(t) < Minute(u) => FirstOf(Minute(t)) + PerMinute <= FirstOf(Minute(u))
<1>1. /\ Minute(t) \in Int /\ Minute(u) \in Int
      /\ t \in InMinute(Minute(t)) /\ u \in InMinute(Minute(u))
  BY InItsMinute
<1>2. /\ FirstOf(Minute(t)) \in Int /\ FirstOf(Minute(u)) \in Int
      /\ Minute(t) < Minute(u) => FirstOf(Minute(t)) + PerMinute <= FirstOf(Minute(u))
      /\ Minute(u) < Minute(t) => FirstOf(Minute(u)) + PerMinute <= FirstOf(Minute(t))
  BY <1>1, Positive, Multiples DEF FirstOf
<1> QED BY <1>1, <1>2 DEF InMinute

\* A minute that a window touches and does not cut lies within the window.
LEMMA WholeInWindow ==
    ASSUME NEW w \in Int \X Int, NEW m \in MinuteStarts(w), m \notin CutBy(w)
    PROVE  InMinute(m) \subseteq w[1]..w[2]
<1>1. /\ w[1] \in Int /\ w[2] \in Int /\ Minute(w[1]) \in Int /\ Minute(w[2]) \in Int
      /\ m \in Int /\ Minute(w[1]) <= m /\ m <= Minute(w[2])
  BY InItsMinute DEF MinuteStarts
<1>2. CASE m \in {Minute(w[1]), Minute(w[2])}
  BY <1>2 DEF CutBy
<1>3. CASE Minute(w[1]) < m /\ m < Minute(w[2])
  <2>1. ASSUME NEW t \in InMinute(m) PROVE t \in w[1]..w[2]
    <3>1. t \in Int
      BY <1>1, Positive, Multiples DEF InMinute, FirstOf
    <3>2. Minute(t) = m
      BY <1>1, <3>1, InItsMinute
    <3> QED BY <1>1, <1>3, <3>1, <3>2, MinuteOrder
  <2> QED BY <2>1
<1> QED BY <1>1, <1>2, <1>3

LEMMA TouchedMinute ==
    ASSUME NEW w \in Int \X Int, NEW m \in Int, NEW t \in InMinute(m), t \in w[1]..w[2]
    PROVE  m \in MinuteStarts(w)
<1>1. t \in Int /\ w[1] \in Int /\ w[2] \in Int
  OBVIOUS
<1>2. Minute(t) = m
  BY <1>1, InItsMinute
<1> QED BY <1>1, <1>2, MinuteOrder, InItsMinute DEF MinuteStarts

\* Of an uncut minute a window yields all trades or none.
LEMMA RowsAreWhole ==
    ASSUME NEW w \in Int \X Int, NEW m \in Int, m \notin CutBy(w)
    PROVE  WholeOrNone(Rows(w), m)
<1>1. CASE m \in MinuteStarts(w)
  BY <1>1, WholeInWindow DEF Rows, WholeOrNone
<1>2. CASE m \notin MinuteStarts(w)
  BY <1>2, TouchedMinute DEF Rows, WholeOrNone
<1> QED BY <1>1, <1>2

-----------------------------------------------------------------------------
(* Windows.                                                                *)

LEMMA MinOfTwo ==
    ASSUME NEW a \in Int, NEW b \in Int
    PROVE  /\ Min({a, b}) \in {a, b} /\ Min({a, b}) \in Int
           /\ Min({a, b}) <= a /\ Min({a, b}) <= b
<1>1. \E x \in {a, b} : \A y \in {a, b} : x <= y
  OBVIOUS
<1>2. Min({a, b}) \in {a, b} /\ \A y \in {a, b} : Min({a, b}) <= y
  BY <1>1 DEF Min
<1> QED BY <1>2

\* Windows partition their range: none reaches out of it, every instant is in one.
LEMMA WindowsOfRange ==
    ASSUME NEW first \in Int, NEW last \in Int
    PROVE  /\ \A w \in TradeWindows(first, last) :
                w \in Int \X Int /\ first <= w[1] /\ w[1] <= w[2] /\ w[2] <= last
           /\ \A t \in first..last : \E w \in TradeWindows(first, last) : t \in w[1]..w[2]
<1> DEFINE size == WindowSize * PerMinute
<1>0. size \in Nat \ {0}
  BY Positive
<1> HIDE DEF size
<1>1. TradeWindows(first, last) =
        {<<s, Min({s + size - 1, last})>> : s \in {t \in first..last : (t - first) % size = 0}}
  BY DEF TradeWindows, size
<1>2. ASSUME NEW s \in first..last
      PROVE  /\ s <= Min({s + size - 1, last}) /\ Min({s + size - 1, last}) <= last
             /\ Min({s + size - 1, last}) \in {s + size - 1, last}
  <2> DEFINE e == s + size - 1
  <2>1. e \in Int /\ s <= e /\ s <= last
    BY <1>0
  <2> HIDE DEF e
  <2>2. Min({e, last}) \in {e, last} /\ Min({e, last}) <= last
    BY <2>1, MinOfTwo
  <2>3. s <= Min({e, last})
    BY <2>1, <2>2
  <2> QED BY <2>2, <2>3 DEF e
<1>3. ASSUME NEW w \in TradeWindows(first, last)
      PROVE  w \in Int \X Int /\ first <= w[1] /\ w[1] <= w[2] /\ w[2] <= last
  <2>1. PICK s \in first..last : w = <<s, Min({s + size - 1, last})>>
    BY <1>1
  <2>2. s + size - 1 \in Int
    BY <1>0
  <2> QED BY <1>2, <2>1, <2>2
<1>4. ASSUME NEW t \in first..last
      PROVE  \E w \in TradeWindows(first, last) : t \in w[1]..w[2]
  <2> DEFINE q == (t - first) \div size
             s == first + q * size
  <2>1. /\ q \in Int /\ q * size \in Int /\ q * size <= t - first /\ t - first < q * size + size
    BY <1>0, Quotient, Multiples
  <2>2. 0 <= q * size
    <3>1. q >= 0
      BY <1>0
    <3> HIDE DEF q
    <3> QED BY <1>0, <2>1, <3>1, Multiples
  <2>3. (q * size) % size = 0
    <3> HIDE DEF q
    <3> QED BY <1>0, <2>1
  <2> HIDE DEF q
  <2>4. s \in first..last /\ (s - first) % size = 0
    BY <1>0, <2>1, <2>2, <2>3
  <2>5. t \in s..Min({s + size - 1, last})
    <3>1. s \in Int /\ s <= t /\ t <= s + size - 1
      BY <1>0, <2>1
    <3> HIDE DEF s
    <3>2. t <= Min({s + size - 1, last})
      BY <1>2, <2>4, <3>1
    <3>3. Min({s + size - 1, last}) \in Int
      <4>1. s + size - 1 \in Int
        BY <1>0, <3>1
      <4>2. Min({s + size - 1, last}) \in {s + size - 1, last}
        BY <1>2, <2>4
      <4> QED BY <4>1, <4>2
    <3> QED BY <3>1, <3>2, <3>3
  <2> HIDE DEF s
  <2>6. <<s, Min({s + size - 1, last})>> \in TradeWindows(first, last)
    BY <1>1, <2>4
  <2> QED BY <2>5, <2>6
<1> QED BY <1>3, <1>4

\* Every uncovered minute up to the last is in a maximal run of uncovered minutes.
LEMMA UncoveredIsMissing ==
    ASSUME NEW covered, NEW last \in Nat, NEW t \in 0..last, Minute(t) \notin covered
    PROVE  \E range \in MissingRanges(covered, last) : t \in range[1]..range[2]
<1> DEFINE missing == (0..Minute(last)) \ covered
           m == Minute(t)
           starts == {x \in 0..m : x..m \subseteq missing}
           ends == {y \in m..Minute(last) : m..y \subseteq missing}
<1>0. Minute(last) \in Nat /\ m \in Nat /\ m <= Minute(last) /\ t \in Int
  <2>1. Minute(0) = 0
    BY Positive DEF Minute
  <2> QED BY <2>1, InItsMinute, MinuteOrder
<1>1. m \in missing /\ m \in starts /\ m \in ends
  BY <1>0
<1>2. PICK a \in starts : \A x \in starts : a <= x
  <2>1. starts \subseteq Nat /\ starts # {}
    BY <1>0, <1>1
  <2> HIDE DEF starts
  <2> QED BY <2>1, LeastNatural
<1>3. PICK b \in ends : \A y \in ends : y <= b
  <2>1. ends \subseteq m..Minute(last) /\ ends # {}
    BY <1>1
  <2>2. IsFiniteSet(m..Minute(last)) /\ m..Minute(last) \subseteq Int
    BY <1>0, FS_Interval
  <2>3. ends \subseteq Int /\ IsFiniteSet(ends)
    <3> HIDE DEF ends
    <3> QED BY <2>1, <2>2, FS_Subset
  <2> HIDE DEF ends
  <2> QED BY <2>1, <2>3, GreatestInteger
<1>4. /\ a \in Nat /\ b \in Nat /\ a <= m /\ m <= b
      /\ a..b \subseteq missing /\ a \in missing /\ b \in missing
  BY <1>0, <1>2, <1>3
<1>5. a - 1 \notin missing
  <2> SUFFICES ASSUME a - 1 \in missing PROVE FALSE
    OBVIOUS
  <2>1. a - 1 \in starts
    BY <1>0, <1>2, <1>4
  <2> QED BY <1>2, <1>4, <2>1
<1>6. b + 1 \notin missing
  <2> SUFFICES ASSUME b + 1 \in missing PROVE FALSE
    OBVIOUS
  <2>1. b + 1 \in ends
    BY <1>0, <1>3, <1>4
  <2> QED BY <1>3, <1>4, <2>1
<1> DEFINE range == <<FirstOf(a), Min({last, FirstOf(b) + PerMinute - 1})>>
<1>7. range \in MissingRanges(covered, last)
  <2> HIDE DEF missing, starts, ends, m
  <2> DEFINE runsOf == {ab \in missing \X missing :
                          /\ ab[1]..ab[2] \subseteq missing
                          /\ ab[1] <= ab[2] /\ ab[1] - 1 \notin missing /\ ab[2] + 1 \notin missing}
  <2>1. <<a, b>> \in runsOf
    <3>1. <<a, b>>[1] = a /\ <<a, b>>[2] = b /\ a <= b
      BY <1>0, <1>4
    <3> QED BY <1>4, <1>5, <1>6, <3>1
  <2>2. MissingRanges(covered, last) =
          {<<FirstOf(run[1]), Min({last, FirstOf(run[2]) + PerMinute - 1})>> : run \in runsOf}
    BY DEF MissingRanges, missing
  <2>3. PICK run \in runsOf : run[1] = a /\ run[2] = b
    <3>1. <<a, b>>[1] = a /\ <<a, b>>[2] = b
      OBVIOUS
    <3> HIDE DEF runsOf
    <3> QED BY <2>1, <3>1
  <2>4. range = <<FirstOf(run[1]), Min({last, FirstOf(run[2]) + PerMinute - 1})>>
    BY <2>3
  <2> HIDE DEF runsOf, range
  <2> QED BY <2>2, <2>4
<1>8. t \in FirstOf(a)..Min({last, FirstOf(b) + PerMinute - 1})
  <2>1. /\ FirstOf(a) \in Int /\ FirstOf(b) \in Int /\ FirstOf(b) + PerMinute - 1 \in Int
        /\ FirstOf(a) <= FirstOf(m) /\ FirstOf(m) <= FirstOf(b)
    <3> HIDE DEF m
    <3> QED BY <1>0, <1>4, Positive, Multiples DEF FirstOf
  <2>2. FirstOf(m) <= t /\ t < FirstOf(m) + PerMinute /\ FirstOf(m) \in Int
    BY <1>0, InItsMinute, Positive, Multiples DEF InMinute, FirstOf
  <2>3. t <= FirstOf(b) + PerMinute - 1 /\ t <= last /\ last \in Int
    <3> HIDE DEF m
    <3>1. PerMinute \in Int
      BY Positive
    <3> QED BY <1>0, <2>1, <2>2, <3>1
  <2> DEFINE e == FirstOf(b) + PerMinute - 1
  <2>4. e \in Int /\ t <= e
    BY <2>1, <2>3
  <2> HIDE DEF e
  <2>5. Min({last, e}) \in Int /\ t <= Min({last, e})
    BY <2>3, <2>4, MinOfTwo
  <2> QED BY <1>0, <2>1, <2>2, <2>5 DEF e
<1> QED BY <1>7, <1>8

LEMMA MissingInRange ==
    ASSUME NEW covered, NEW last \in Nat, NEW range \in MissingRanges(covered, last)
    PROVE  range[1] \in Nat /\ range[2] \in Int /\ range[2] <= last
<1>1. PICK a \in 0..Minute(last), b \in 0..Minute(last) :
        range = <<FirstOf(a), Min({last, FirstOf(b) + PerMinute - 1})>>
  BY DEF MissingRanges
<1>2. FirstOf(a) \in Nat /\ FirstOf(b) + PerMinute - 1 \in Int
  BY InItsMinute, Positive, Multiples DEF FirstOf
<1> DEFINE e == FirstOf(b) + PerMinute - 1
<1>3. e \in Int
  BY <1>2
<1> HIDE DEF e
<1>4. Min({last, e}) \in Int /\ Min({last, e}) <= last
  BY <1>3, MinOfTwo
<1> QED BY <1>1, <1>2, <1>4 DEF e

-----------------------------------------------------------------------------
(* Plans.                                                                  *)

LEMMA InstantMinute ==
    ASSUME NEW t \in Instants
    PROVE  t \in Nat /\ Minute(t) \in 0..(Minutes - 1)
<1>1. Minutes * PerMinute \in Int /\ t \in Nat /\ t < Minutes * PerMinute
  BY Positive, Multiples DEF Instants
<1>2. Minute(t) \in Int /\ Minute(t) * PerMinute <= t /\ t < Minute(t) * PerMinute + PerMinute
  BY <1>1, MinuteBounds
<1>3. Minute(t) >= 0
  BY <1>1, Positive DEF Minute
<1>4. Minute(t) < Minutes
  <2> SUFFICES ASSUME Minutes <= Minute(t) PROVE FALSE
    BY <1>2, Positive
  <2>1. Minutes * PerMinute <= Minute(t) * PerMinute /\ Minute(t) * PerMinute \in Int
    BY <1>2, Positive, Multiples
  <2> QED BY <1>1, <1>2, <2>1
<1> QED BY <1>1, <1>2, <1>3, <1>4, Positive

\* The horizon of a run is an instant of history, before the minute in progress.
LEMMA HorizonIsInstant ==
    ASSUME clock \in 0..(Minutes * PerMinute), LastClosedOpen >= 0
    PROVE  LastClosedOpen \in Instants
<1>1. clock \in Int /\ Minutes * PerMinute \in Int /\ clock <= Minutes * PerMinute
  BY Positive, Multiples
<1> DEFINE q == Minute(clock)
<1>2. q \in Int /\ q * PerMinute <= clock /\ q * PerMinute \in Int
  BY <1>1, MinuteBounds
<1> HIDE DEF q
<1>3. (q - 1) * PerMinute \in Int /\ (q - 1) * PerMinute + PerMinute <= q * PerMinute
  BY <1>2, Positive, Multiples
<1>4. LastClosedOpen = (q - 1) * PerMinute
  BY DEF LastClosedOpen, FirstOf, q
<1> QED BY <1>1, <1>2, <1>3, <1>4, Positive DEF Instants

LEMMA InstantsFinite == IsFiniteSet(Instants) /\ Instants \subseteq Int
BY Positive, Multiples, FS_Interval DEF Instants

LEMMA WindowsTyped ==
    ASSUME NEW first \in Nat, NEW last \in Int, NEW bound \in Instants, last <= bound
    PROVE  TradeWindows(first, last) \subseteq Instants \X Instants
<1> SUFFICES ASSUME NEW w \in TradeWindows(first, last) PROVE w \in Instants \X Instants
  OBVIOUS
<1>1. w \in Int \X Int /\ first <= w[1] /\ w[1] <= w[2] /\ w[2] <= last
  BY WindowsOfRange
<1>2. bound \in Int /\ Minutes * PerMinute \in Int /\ bound <= Minutes * PerMinute - 1
  BY Positive, Multiples DEF Instants
<1>3. w[1] \in Instants /\ w[2] \in Instants
  BY <1>1, <1>2 DEF Instants
<1> QED BY <1>1, <1>3

LEMMA GapWindowsTyped ==
    ASSUME NEW last \in Instants
    PROVE  GapWindows(last) \subseteq Instants \X Instants
<1>1. last \in Nat /\ last <= last
  BY InstantMinute
<1>2. TradeWindows(0, last) \subseteq Instants \X Instants
  BY <1>1, WindowsTyped
<1>3. ASSUME NEW range \in MissingRanges(Covered, last)
      PROVE  TradeWindows(range[1], range[2]) \subseteq Instants \X Instants
  BY <1>1, MissingInRange, WindowsTyped
<1> QED BY <1>2, <1>3 DEF GapWindows

LEMMA TailWindowsTyped ==
    ASSUME stored \subseteq Instants, stored # {}, NEW last \in Instants
    PROVE  TradeWindows(Max(stored) + 1, last) \subseteq Instants \X Instants
<1>1. last \in Nat /\ last <= last
  BY InstantMinute
<1>2. \E x \in stored : \A y \in stored : y <= x
  BY InstantsFinite, FS_Subset, GreatestInteger
<1>3. \E x \in stored : \A y \in stored : x >= y
  BY <1>2, InstantsFinite
<1>4. Max(stored) \in stored
  BY <1>3 DEF Max
<1>5. Max(stored) + 1 \in Nat
  BY <1>4, InstantMinute
<1> QED BY <1>1, <1>5, WindowsTyped

LEMMA CutTyped ==
    ASSUME NEW w \in Instants \X Instants
    PROVE  /\ CutBy(w) \subseteq 0..(Minutes - 1) /\ MinuteStarts(w) \subseteq 0..(Minutes - 1)
           /\ w \in Int \X Int /\ Rows(w) \subseteq traded
<1>1. w[1] \in Instants /\ w[2] \in Instants
  OBVIOUS
<1>2. Minute(w[1]) \in 0..(Minutes - 1) /\ Minute(w[2]) \in 0..(Minutes - 1)
  BY <1>1, InstantMinute
<1>3. CutBy(w) \subseteq 0..(Minutes - 1)
  BY <1>2 DEF CutBy
<1>4. MinuteStarts(w) \subseteq 0..(Minutes - 1)
  BY <1>2, Positive DEF MinuteStarts
<1>5. w \in Int \X Int
  BY InstantsFinite
<1>6. Rows(w) \subseteq traded
  BY DEF Rows
<1> QED BY <1>3, <1>4, <1>5, <1>6

\* A full-gap run plans a window for every trade up to its horizon that is missing, except
\* in minutes of which earlier windows took only a part.
LEMMA GapsArePlanned ==
    ASSUME TypeOK, Genuine, WholeMinutes, NEW last \in Instants,
           NEW t \in traded, t <= last, Minute(t) \notin cut
    PROVE  t \in stored \/ \E w \in GapWindows(last) : t \in w[1]..w[2]
<1>1. /\ t \in Instants /\ t \in Nat /\ last \in Nat /\ Minute(t) \in 0..(Minutes - 1)
      /\ t \in traded \cap InMinute(Minute(t)) /\ t \in 0..last
  <2>1. t \in Instants
    BY DEF TypeOK
  <2> QED BY <2>1, InstantMinute, InItsMinute
<1>2. CASE stored = {}
  <2>1. \E w \in TradeWindows(0, last) : t \in w[1]..w[2]
    BY <1>1, WindowsOfRange
  <2> QED BY <1>2, <2>1 DEF GapWindows
<1>3. CASE stored # {} /\ Minute(t) \in Covered
  <2>1. Minute(t) \notin empty
    BY <1>1 DEF WholeMinutes
  <2>2. PICK u \in stored : Minute(u) = Minute(t)
    BY <1>3, <2>1 DEF Covered, MinutesOf
  <2>3. u \in traded \cap InMinute(Minute(t))
    BY <1>1, <2>2, InItsMinute, InstantMinute DEF Genuine, TypeOK
  <2> QED BY <1>1, <2>2, <2>3 DEF WholeMinutes
<1>4. CASE stored # {} /\ Minute(t) \notin Covered
  <2>1. PICK range \in MissingRanges(Covered, last) : t \in range[1]..range[2]
    BY <1>1, <1>4, UncoveredIsMissing
  <2>2. range[1] \in Int /\ range[2] \in Int
    BY <1>1, MissingInRange
  <2>3. PICK w \in TradeWindows(range[1], range[2]) : t \in w[1]..w[2]
    BY <2>1, <2>2, WindowsOfRange
  <2> QED BY <1>4, <2>1, <2>3 DEF GapWindows
<1> QED BY <1>2, <1>3, <1>4

LEMMA ClockMinute ==
    ASSUME clock \in 0..(Minutes * PerMinute)
    PROVE  clock \in Int /\ Minute(clock) \in 0..Minutes
<1>1. clock \in Nat /\ Minutes * PerMinute \in Int /\ clock <= Minutes * PerMinute
  BY Positive, Multiples
<1>2. /\ Minute(clock) \in Int /\ Minute(clock) * PerMinute \in Int
      /\ Minute(clock) * PerMinute <= clock
  BY <1>1, MinuteBounds
<1>3. Minute(clock) >= 0
  BY <1>1, Positive DEF Minute
<1>4. Minute(clock) <= Minutes
  <2> SUFFICES ASSUME Minutes < Minute(clock) PROVE FALSE
    BY <1>2, Positive
  <2>1. Minutes * PerMinute + PerMinute <= Minute(clock) * PerMinute
    BY <1>2, Positive, Multiples
  <2> QED BY <1>1, <1>2, <2>1, Positive
<1> QED BY <1>1, <1>2, <1>3, <1>4, Positive

-----------------------------------------------------------------------------
(* Steps.                                                                  *)

LEMMA UnionIsWhole ==
    ASSUME NEW a, NEW b, NEW m, WholeOrNone(a, m), WholeOrNone(b, m)
    PROVE  WholeOrNone(a \cup b, m)
BY DEF WholeOrNone

\* What the lake promises is kept by steps that leave it alone.
LEMMA LakeKept ==
    ASSUME WholeMinutes, RescansGaps,
           traded' = traded, stored' = stored, empty' = empty, filled' = filled, cut \subseteq cut'
    PROVE  WholeMinutes' /\ RescansGaps'
BY DEF WholeMinutes, RescansGaps, InMinute

\* What a tail run holds and what remains of a plan, when only the plan shrinks.
LEMMA PlanKept ==
    ASSUME Genuine, FetchedWhole, CutsKnown,
           traded' = traded, stored' = stored, fetched' = fetched,
           windows' \subseteq windows, cut \subseteq cut'
    PROVE  Genuine' /\ FetchedWhole' /\ CutsKnown'
BY DEF Genuine, FetchedWhole, CutsKnown, WholeOrNone, CutBy, InMinute

LEMMA TickIInv == IInv /\ Tick => IInv'
<1> SUFFICES ASSUME IInv, Tick PROVE IInv'
  OBVIOUS
<1> USE DEF Tick, IInv
<1>1. TypeOK'
  <2>1. clock' \in 0..(Minutes * PerMinute)
    <3>1. Minutes * PerMinute \in Int
      BY Positive, Multiples
    <3> QED BY <3>1 DEF TypeOK
  <2> QED BY <2>1 DEF TypeOK, runVars
<1>2. GapProgress'
  BY DEF GapProgress, runVars
<1> QED BY <1>1, <1>2, LakeKept, PlanKept DEF runVars

LEMMA BeginIInv ==
    ASSUME IInv, NEW mode \in {"gap", "tail"}, NEW plan, Begin(mode, plan),
           plan \subseteq Instants \X Instants,
           mode = "gap" => plan = GapWindows(LastClosedOpen)
    PROVE  IInv'
<1>1. /\ LastClosedOpen \in Instants /\ TypeOK /\ traded' = traded /\ stored' = stored
      /\ horizon' = LastClosedOpen /\ pc' = mode /\ windows' = plan /\ fetched' = {}
      /\ cut' = cut \cup UNION {CutBy(w) : w \in plan}
  BY HorizonIsInstant DEF Begin, IInv, TypeOK
<1>2. TypeOK'
  <2>1. UNION {CutBy(w) : w \in plan} \subseteq 0..Minutes
    <3>1. 0..(Minutes - 1) \subseteq 0..Minutes
      BY Positive
    <3> QED BY <3>1, CutTyped
  <2>2. runs' \in 0..MaxRuns
    BY DEF Begin, IInv, TypeOK
  <2> QED BY <1>1, <2>1, <2>2 DEF Begin, TypeOK
<1>3. Genuine' /\ FetchedWhole' /\ CutsKnown'
  <2>1. Genuine' /\ FetchedWhole'
    BY <1>1 DEF IInv, Genuine, FetchedWhole, WholeOrNone
  <2>2. CutsKnown'
    BY <1>1 DEF CutsKnown, CutBy
  <2> QED BY <2>1, <2>2
<1>4. GapProgress'
  <2> SUFFICES ASSUME mode = "gap", NEW t \in traded, t < LastClosedOpen, Minute(t) \notin cut'
               PROVE  t \in stored \/ \E w \in plan : t \in w[1]..w[2]
    BY <1>1 DEF GapProgress
  <2>1. t <= LastClosedOpen /\ Minute(t) \notin cut
    BY <1>1, InstantsFinite DEF TypeOK
  <2> QED BY <1>1, <2>1, GapsArePlanned DEF IInv
<1>5. WholeMinutes' /\ RescansGaps'
  BY <1>1, LakeKept DEF Begin, IInv
<1> QED BY <1>2, <1>3, <1>4, <1>5 DEF IInv

LEMMA BeginGapIInv == IInv /\ BeginGap => IInv'
<1> SUFFICES ASSUME IInv, BeginGap PROVE IInv'
  OBVIOUS
<1>1. LastClosedOpen \in Instants
  BY HorizonIsInstant DEF BeginGap, Begin, IInv, TypeOK
<1>2. GapWindows(LastClosedOpen) \subseteq Instants \X Instants
  BY <1>1, GapWindowsTyped
<1> QED BY <1>2, BeginIInv DEF BeginGap

LEMMA BeginTailIInv == IInv /\ BeginTail => IInv'
<1> SUFFICES ASSUME IInv, BeginTail PROVE IInv'
  OBVIOUS
<1>1. LastClosedOpen \in Instants /\ stored # {} /\ stored \subseteq Instants
  BY HorizonIsInstant DEF BeginTail, Begin, IInv, TypeOK
<1>2. TradeWindows(Max(stored) + 1, LastClosedOpen) \subseteq Instants \X Instants
  BY <1>1, TailWindowsTyped
<1> QED BY <1>2, BeginIInv DEF BeginTail

LEMMA BootstrapIInv == IInv /\ BootstrapTail => IInv'
<1> SUFFICES ASSUME IInv, BootstrapTail PROVE IInv'
  OBVIOUS
<1>1. /\ TypeOK /\ traded' = traded /\ stored' = stored \cup {t \in traded : t < clock}
      /\ cut' = cut \cup {Minute(clock)} /\ UNCHANGED <<clock, empty, runVars, filled, failures>>
      /\ runs' = runs + 1 /\ runs < MaxRuns /\ pc = "idle"
  BY DEF BootstrapTail, Persist, IInv
<1>2. TypeOK'
  <2>1. Minute(clock) \in 0..Minutes
    BY <1>1, ClockMinute DEF TypeOK
  <2>2. runs' \in 0..MaxRuns
    BY <1>1 DEF TypeOK
  <2> QED BY <1>1, <2>1, <2>2 DEF TypeOK, runVars
<1>3. Genuine' /\ FetchedWhole' /\ CutsKnown'
  BY <1>1 DEF IInv, Genuine, FetchedWhole, WholeOrNone, CutsKnown, CutBy, InMinute, runVars
<1>4. GapProgress'
  BY <1>1 DEF GapProgress, runVars
<1>5. ASSUME NEW m \in 0..(Minutes - 1), m # Minute(clock)
      PROVE  WholeOrNone({t \in traded : t < clock}, m)
  <2>1. clock \in Int /\ traded \subseteq Int /\ Minute(clock) \in Int
    BY <1>1, ClockMinute, InstantsFinite DEF TypeOK
  <2>2. \A t \in traded \cap InMinute(m) : t \in Int /\ Minute(t) = m
    BY <2>1, InItsMinute
  <2>3. CASE m < Minute(clock)
    <3>1. \A t \in traded \cap InMinute(m) : t < clock
      BY <2>1, <2>2, <2>3, MinuteOrder
    <3> QED BY <3>1 DEF WholeOrNone
  <2>4. CASE ~(m < Minute(clock))
    <3>1. \A t \in traded \cap InMinute(m) : ~(t < clock)
      BY <1>5, <2>1, <2>2, <2>4, MinuteOrder
    <3> QED BY <3>1 DEF WholeOrNone
  <2> QED BY <2>3, <2>4
<1>6. WholeMinutes'
  <2>1. \A m \in (0..(Minutes - 1)) \ cut' : WholeOrNone(stored, m)
    BY <1>1 DEF IInv, WholeMinutes, WholeOrNone
  <2>2. \A m \in (0..(Minutes - 1)) \ cut' : WholeOrNone(stored', m)
    BY <1>1, <1>5, <2>1, UnionIsWhole
  <2> QED BY <1>1, <2>2 DEF IInv, WholeMinutes, WholeOrNone, InMinute
<1>7. RescansGaps'
  BY <1>1 DEF IInv, RescansGaps
<1> QED BY <1>2, <1>3, <1>4, <1>6, <1>7 DEF IInv

\* Every minute a window holds and does not cut is fetched whole.
LEMMA WindowRows ==
    ASSUME IInv, NEW w \in windows
    PROVE  /\ w \in Instants \X Instants /\ Rows(w) \subseteq traded
           /\ MinuteStarts(w) \subseteq 0..(Minutes - 1)
           /\ \A m \in (0..(Minutes - 1)) \ cut :
                /\ WholeOrNone(Rows(w), m)
                /\ m \in MinuteStarts(w) => traded \cap InMinute(m) \subseteq Rows(w)
<1>1. w \in Instants \X Instants /\ CutBy(w) \subseteq cut
  BY DEF IInv, TypeOK, CutsKnown
<1>2. w \in Int \X Int /\ MinuteStarts(w) \subseteq 0..(Minutes - 1) /\ Rows(w) \subseteq traded
  BY <1>1, CutTyped
<1>3. ASSUME NEW m \in (0..(Minutes - 1)) \ cut
      PROVE  /\ WholeOrNone(Rows(w), m)
             /\ m \in MinuteStarts(w) => traded \cap InMinute(m) \subseteq Rows(w)
  <2>1. m \in Int /\ m \notin CutBy(w)
    BY <1>1
  <2>2. WholeOrNone(Rows(w), m)
    BY <1>2, <2>1, RowsAreWhole
  <2>3. m \in MinuteStarts(w) => traded \cap InMinute(m) \subseteq Rows(w)
    BY <1>2, <2>1, WholeInWindow DEF Rows
  <2> QED BY <2>2, <2>3
<1> QED BY <1>1, <1>2, <1>3

LEMMA FetchGapIInv == \A w \in windows : IInv /\ FetchGap(w) => IInv'
<1> SUFFICES ASSUME NEW w \in windows, IInv, FetchGap(w) PROVE IInv'
  OBVIOUS
<1>0. /\ TypeOK /\ traded' = traded /\ stored' = stored \cup Rows(w) /\ cut' = cut /\ pc' = pc
      /\ empty' = empty \/ (empty' = empty \cup MinuteStarts(w) /\ Rows(w) = {})
      /\ windows' = windows \ {w} /\ failed' = failed /\ horizon' = horizon /\ filled' = filled
      /\ fetched' = fetched
  BY DEF FetchGap, Persist, MarkEmpty, IInv
<1>1. TypeOK'
  <2>1. /\ Rows(w) \subseteq Instants /\ MinuteStarts(w) \subseteq 0..(Minutes - 1)
        /\ w \in Instants \X Instants
    BY <1>0, WindowRows DEF TypeOK
  <2> QED BY <1>0, <2>1 DEF FetchGap, TypeOK
<1>2. Genuine' /\ FetchedWhole' /\ CutsKnown'
  BY <1>0, WindowRows DEF IInv, Genuine, FetchedWhole, WholeOrNone, CutsKnown, CutBy, InMinute
<1>3. GapProgress'
  <2> SUFFICES ASSUME pc = "gap", failed = {}, NEW t \in traded, t < horizon, Minute(t) \notin cut
               PROVE  t \in stored' \/ \E v \in windows' : t \in v[1]..v[2]
    BY <1>0 DEF GapProgress
  <2>1. t \in stored \/ \E v \in windows : t \in v[1]..v[2]
    BY DEF IInv, GapProgress
  <2>2. t \in w[1]..w[2] => t \in Rows(w)
    BY DEF Rows
  <2> QED BY <1>0, <2>1, <2>2
<1>4. WholeMinutes'
  <2> SUFFICES ASSUME NEW m \in (0..(Minutes - 1)) \ cut
               PROVE  /\ WholeOrNone(stored', m)
                      /\ m \in empty' => traded \cap InMinute(m) = {}
    BY <1>0 DEF WholeMinutes, WholeOrNone, InMinute
  <2>1. WholeOrNone(stored', m)
    <3>1. WholeOrNone(stored, m)
      BY DEF IInv, WholeMinutes, WholeOrNone
    <3> QED BY <1>0, <3>1, WindowRows, UnionIsWhole
  <2>2. m \in empty' => traded \cap InMinute(m) = {}
    BY <1>0, WindowRows DEF IInv, WholeMinutes
  <2> QED BY <2>1, <2>2
<1>5. RescansGaps'
  BY <1>0 DEF IInv, RescansGaps
<1> QED BY <1>1, <1>2, <1>3, <1>4, <1>5 DEF IInv

LEMMA FetchTailIInv == \A w \in windows : IInv /\ FetchTail(w) => IInv'
<1> SUFFICES ASSUME NEW w \in windows, IInv, FetchTail(w) PROVE IInv'
  OBVIOUS
<1>0. /\ TypeOK /\ traded' = traded /\ stored' = stored /\ cut' = cut /\ pc' = pc /\ pc = "tail"
      /\ empty' = empty /\ windows' = windows \ {w} /\ filled' = filled
      /\ fetched' = fetched \cup Rows(w)
  BY DEF FetchTail, IInv
<1>1. TypeOK'
  <2>1. Rows(w) \subseteq Instants /\ w \in Instants \X Instants
    BY <1>0, WindowRows DEF TypeOK
  <2> QED BY <1>0, <2>1 DEF FetchTail, TypeOK
<1>2. Genuine' /\ CutsKnown'
  BY <1>0, WindowRows DEF IInv, Genuine, CutsKnown, CutBy, InMinute
<1>3. FetchedWhole'
  <2>1. ASSUME NEW m \in (0..(Minutes - 1)) \ cut PROVE WholeOrNone(fetched', m)
    BY <1>0, WindowRows, UnionIsWhole DEF IInv, FetchedWhole
  <2> QED BY <1>0, <2>1 DEF FetchedWhole, WholeOrNone, InMinute
<1>4. GapProgress'
  BY <1>0 DEF GapProgress
<1> QED BY <1>0, <1>1, <1>2, <1>3, <1>4, LakeKept DEF IInv

LEMMA FailWindowIInv == \A w \in windows : IInv /\ FailWindow(w) => IInv'
<1> SUFFICES ASSUME NEW w \in windows, IInv, FailWindow(w) PROVE IInv'
  OBVIOUS
<1>1. TypeOK'
  BY DEF FailWindow, IInv, TypeOK
<1>2. GapProgress'
  BY DEF FailWindow, GapProgress
<1> QED BY <1>1, <1>2, LakeKept, PlanKept DEF FailWindow, IInv

LEMMA AbortIInv == IInv /\ Abort => IInv'
<1> SUFFICES ASSUME IInv, Abort PROVE IInv'
  OBVIOUS
<1>1. TypeOK'
  BY DEF Abort, IInv, TypeOK
<1>2. GapProgress'
  BY DEF Abort, GapProgress
<1> QED BY <1>1, <1>2, LakeKept, PlanKept DEF Abort, IInv

LEMMA FinishIInv == IInv /\ Finish => IInv'
<1> SUFFICES ASSUME IInv, Finish PROVE IInv'
  OBVIOUS
<1>0. /\ TypeOK /\ traded' = traded /\ cut' = cut /\ pc' = "idle" /\ empty' = empty
      /\ windows' = windows /\ windows = {} /\ fetched' = fetched
      /\ stored' = stored \/ stored' = stored \cup fetched
      /\ filled' = filled \/ (filled' = horizon /\ pc = "gap" /\ failed = {})
  BY DEF Finish, Persist, IInv
<1>1. TypeOK'
  BY <1>0 DEF Finish, TypeOK, IInv, Genuine
<1>2. Genuine' /\ FetchedWhole' /\ CutsKnown'
  BY <1>0 DEF IInv, Genuine, FetchedWhole, WholeOrNone, CutsKnown, InMinute
<1>3. GapProgress'
  BY <1>0 DEF GapProgress
<1>4. WholeMinutes'
  <2> SUFFICES ASSUME NEW m \in (0..(Minutes - 1)) \ cut PROVE WholeOrNone(stored', m)
    BY <1>0 DEF IInv, WholeMinutes, WholeOrNone, InMinute
  <2>1. WholeOrNone(stored, m) /\ WholeOrNone(fetched, m)
    BY DEF IInv, WholeMinutes, FetchedWhole, WholeOrNone
  <2> QED BY <1>0, <2>1, UnionIsWhole
<1>5. RescansGaps'
  <2> SUFFICES ASSUME NEW t \in traded, t < filled', Minute(t) \notin cut PROVE t \in stored
    BY <1>0 DEF RescansGaps
  <2>1. CASE filled' = filled
    BY <2>1 DEF IInv, RescansGaps
  <2>2. CASE filled' = horizon /\ pc = "gap" /\ failed = {}
    BY <1>0, <2>2 DEF IInv, GapProgress
  <2> QED BY <1>0, <2>1, <2>2
<1> QED BY <1>1, <1>2, <1>3, <1>4, <1>5 DEF IInv

-----------------------------------------------------------------------------
(* The invariant, and what follows from it.                                *)

LEMMA InitIInv == Init => IInv
<1> SUFFICES ASSUME Init PROVE IInv
  OBVIOUS
<1>1. 0 \in Instants /\ 0 \in 0..(Minutes * PerMinute)
  <2>1. Minutes * PerMinute \in Nat \ {0}
    BY Positive
  <2> QED BY <2>1 DEF Instants
<1>2. TypeOK
  BY <1>1, Positive DEF Init, TypeOK
<1>3. Genuine /\ FetchedWhole /\ CutsKnown /\ GapProgress
  BY DEF Init, Genuine, FetchedWhole, WholeOrNone, CutsKnown, GapProgress
<1>4. WholeMinutes
  BY DEF Init, WholeMinutes
<1>5. RescansGaps
  BY <1>2, InstantMinute DEF Init, TypeOK, RescansGaps
<1> QED BY <1>2, <1>3, <1>4, <1>5 DEF IInv

LEMMA IInvNext == IInv /\ [Next]_vars => IInv'
<1> SUFFICES ASSUME IInv, [Next]_vars PROVE IInv'
  OBVIOUS
<1>1. CASE UNCHANGED vars
  <2> USE <1>1 DEF vars, runVars
  <2>1. TypeOK' /\ GapProgress'
    BY DEF IInv, TypeOK, GapProgress
  <2> QED BY <2>1, LakeKept, PlanKept DEF IInv
<1>2. CASE \E w \in windows : FetchGap(w) \/ FetchTail(w) \/ FailWindow(w)
  BY <1>2, FetchGapIInv, FetchTailIInv, FailWindowIInv
<1> QED BY <1>1, <1>2, TickIInv, BeginGapIInv, BeginTailIInv, BootstrapIInv, AbortIInv, FinishIInv
    DEF Next

THEOREM InvariantHolds == Spec => []IInv
BY InitIInv, IInvNext, PTL DEF Spec

\* Every variable keeps its shape: in particular no plan reaches out of history.
THEOREM TypeCorrectness == Spec => []TypeOK
<1>1. IInv => TypeOK
  BY DEF IInv
<1> QED BY <1>1, InvariantHolds, PTL

\* Outside the minutes that some window cut, a minute is stored whole or not at all, and
\* one marked confirmed_empty had no trade (missing_trade_minute_ranges and
\* write_empty_trade_minutes).
THEOREM MinutesAreWhole == Spec => []WholeMinutes
<1>1. IInv => WholeMinutes
  BY DEF IInv
<1> QED BY <1>1, InvariantHolds, PTL

\* After a full-gap run without a failed window, no trade before its horizon is missing
\* outside of such minutes (README.md:261).
THEOREM GapsAreRescanned == Spec => []RescansGaps
<1>1. IInv => RescansGaps
  BY DEF IInv
<1> QED BY <1>1, InvariantHolds, PTL
=============================================================================
