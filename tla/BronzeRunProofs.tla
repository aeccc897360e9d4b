-------------------------- MODULE BronzeRunProofs --------------------------
(***************************************************************************)
(* Proofs about BronzeRun, for any tasks, plans, length of a day and       *)
(* number of faults: the shared checkpoint is never ahead of the lake, and *)
(* a run that ends well has stored all that its plan was due.              *)
(***************************************************************************)
EXTENDS BronzeRun, NumberLemmas

Busy == pc \in {"fetch", "chunk", "mark", "complete"}
Fetched == pc \in {"chunk", "mark", "complete"}

\* A task is pending, fetched or in error, and the current one is pending.
Control ==
    /\ Busy => todo # {}
    /\ ~Busy => todo = {}
    /\ todo \cup results \cup errors \subseteq plan.tasks
    /\ todo \cap results = {} /\ todo \cap errors = {} /\ results \cap errors = {}

\* The rows of the current task are in the lake as far as they have been streamed, a
\* tail run's in one chunk; those of a fetched task are there to be recorded.
Rows ==
    /\ \A t \in Tasks : got[t] \subseteq 0..(now - 1)
    /\ Fetched => left \subseteq got[Current]
    /\ pc \in {"chunk", "mark"} => save /\ got[Current] \ left \subseteq lake[Current]
    /\ pc = "complete" => left = {}
    /\ plan.tail => /\ pc = "mark" => left = {}
                    /\ pc = "chunk" => \A x, y \in left : Day(x) = Day(y)
    /\ save => \A t \in results : Kind[t] # "volatility" => got[t] \subseteq lake[t]

\* What a saving run held when it recorded a task is in the lake.
ClaimsStored ==
    \A t \in Tasks : Kind[t] # "volatility" => \A c \in claims[t] : c[2] => c[1] \in lake[t]

\* Of every day the first intervals are stored, up to some interval.
DayClosed(rows) == \A x \in rows : DayStart(x)..x \subseteq rows

NoHoles ==
    \A t \in Tasks : Streamed(t) =>
        /\ DayClosed(lake[t])
        /\ Fetched /\ t = Current => DayClosed(lake[t] \cup got[t])

\* The intervals a plan owes: a full-gap plan all before its run began; a tail plan
\* those of today before its chain of runs began, if that was today.
Due(p) ==
    IF p.tail THEN {x \in DayStart(now)..(since[p] - 1) : Day(since[p]) = Day(now)}
    ELSE 0..(since[p] - 1)

\* Of the run's tasks, and of those a tail run skips, what is due is stored; of the
\* current one it is at least fetched.
RunIsDue ==
    pc # "idle" =>
        /\ \A t \in plan.tasks \ (todo \cup errors) : Streamed(t) => Due(plan) \subseteq lake[t]
        /\ plan.tail => \A t \in done : Streamed(t) => Due(plan) \subseteq lake[t]
        /\ Fetched /\ Streamed(Current) => Due(plan) \subseteq lake[Current] \cup got[Current]

FileIsDue ==
    \A c \in file : c.plan.tail => \A t \in c.done : Streamed(t) => Due(c.plan) \subseteq lake[t]

SinceOK ==
    /\ \A p \in Plans : since[p] <= now
    /\ pc # "idle" /\ ~save => since[plan] = 0

IInv == TypeOK /\ Control /\ Rows /\ ClaimsStored /\ NoHoles /\ RunIsDue /\ FileIsDue /\ SinceOK
-----------------------------------------------------------------------------
(* Days and tasks.                                                         *)

LEMMA PositiveDay == PerDay \in Nat \ {0}
BY BronzeAssumption

LEMMA DayBounds ==
    ASSUME NEW x \in Nat
    PROVE  /\ Day(x) \in Nat /\ DayStart(x) \in Nat
           /\ DayStart(x) <= x /\ x < DayStart(x) + PerDay
<1>1. /\ Day(x) \in Int /\ Day(x) * PerDay \in Int
      /\ Day(x) * PerDay <= x /\ x < Day(x) * PerDay + PerDay
  BY PositiveDay, Quotient, Multiples DEF Day
<1>2. Day(x) >= 0
  <2> SUFFICES ASSUME Day(x) < 0 PROVE FALSE
    BY <1>1
  <2>1. Day(x) * PerDay + PerDay <= 0 * PerDay /\ 0 * PerDay = 0
    BY <1>1, PositiveDay, Multiples
  <2> QED BY <2>1, <1>1, PositiveDay
<1>3. Day(x) * PerDay >= 0 * PerDay /\ 0 * PerDay = 0
  BY <1>1, <1>2, PositiveDay, Multiples
<1> QED BY <1>1, <1>2, <1>3 DEF DayStart

LEMMA DayOrder ==
    ASSUME NEW x \in Nat, NEW y \in Nat, x <= y
    PROVE  Day(x) <= Day(y)
<1> SUFFICES ASSUME Day(y) < Day(x) PROVE FALSE
  BY DayBounds
<1>1. Day(y) * PerDay + PerDay <= Day(x) * PerDay
  BY DayBounds, PositiveDay, Multiples
<1> QED BY <1>1, DayBounds, PositiveDay, Multiples DEF DayStart

\* Between the first interval of a day and an interval of it lies nothing of other days.
LEMMA WithinDay ==
    ASSUME NEW x \in Nat, NEW y \in DayStart(x)..x
    PROVE  y \in Nat /\ Day(y) = Day(x) /\ DayStart(y) = DayStart(x)
<1>1. y \in Nat /\ Day(y) \in Nat /\ Day(x) \in Nat /\ Day(y) <= Day(x)
  BY DayBounds, DayOrder
<1>2. ASSUME Day(y) < Day(x) PROVE FALSE
  <2>1. Day(y) * PerDay + PerDay <= Day(x) * PerDay
    BY <1>1, <1>2, PositiveDay, Multiples
  <2> QED BY <2>1, <1>1, DayBounds, PositiveDay, Multiples DEF DayStart
<1>3. Day(y) = Day(x)
  BY <1>1, <1>2
<1> QED BY <1>1, <1>3 DEF DayStart

LEMMA SameDay ==
    ASSUME NEW x \in Nat, NEW y \in Nat, NEW z \in Nat, x <= y, y <= z, Day(x) = Day(z)
    PROVE  Day(y) = Day(z) /\ DayStart(y) = DayStart(z)
<1>1. Day(y) = Day(z)
  <2>1. Day(x) \in Nat /\ Day(y) \in Nat /\ Day(z) \in Nat
    BY DayBounds
  <2>2. Day(x) <= Day(y) /\ Day(y) <= Day(z)
    BY DayOrder
  <2> QED BY <2>1, <2>2
<1> QED BY <1>1 DEF DayStart

LEMMA MinIsMember ==
    ASSUME NEW S, S \subseteq Nat, S # {}
    PROVE  Min(S) \in S
<1>1. \E x \in S : \A y \in S : x <= y
  BY LeastNatural
<1> QED BY <1>1 DEF Min

LEMMA CurrentPending ==
    ASSUME TypeOK, Control, Busy
    PROVE  Current \in todo /\ Current \in Tasks /\ Current \in plan.tasks
<1>1. todo # {} /\ todo \subseteq plan.tasks /\ todo \subseteq Tasks /\ Tasks \subseteq Nat
  BY BronzeAssumption DEF TypeOK, Control
<1>2. Min(todo) \in todo
  BY <1>1, MinIsMember
<1> QED BY <1>1, <1>2 DEF Current

LEMMA PlanFacts ==
    /\ NoPlan \in Plans
    /\ \A p \in Plans : p.tasks \subseteq Tasks /\ p.tasks # {} /\ p.tail \in BOOLEAN
<1>1. NoPlan \in Plans
  BY BronzeAssumption DEF NoPlan
<1>2. \A p \in Plans : p.tasks \subseteq Tasks /\ p.tasks # {} /\ p.tail \in BOOLEAN
  <2> SUFFICES ASSUME NEW p \in Plans
               PROVE  p.tasks \subseteq Tasks /\ p.tasks # {} /\ p.tail \in BOOLEAN
    OBVIOUS
  <2>1. p \in [tasks : (SUBSET Tasks) \ {{}}, tail : BOOLEAN]
    BY BronzeAssumption
  <2>2. p.tasks \in (SUBSET Tasks) \ {{}} /\ p.tail \in BOOLEAN
    BY ONLY <2>1
  <2> QED BY ONLY <2>2, Zenon
<1> QED BY <1>1, <1>2

LEMMA Counts ==
    ASSUME TypeOK, SinceOK
    PROVE  /\ now \in Nat /\ now <= MaxTime /\ MaxTime \in Nat
           /\ \A p \in Plans : since[p] \in Nat /\ since[p] <= now
BY BronzeAssumption DEF TypeOK, SinceOK

LEMMA NothingDue ==
    ASSUME TypeOK, NEW p \in Plans, since[p] = 0
    PROVE  Due(p) = {}
<1>1. DayStart(now) \in Nat
  BY DayBounds DEF TypeOK
<1> QED BY <1>1 DEF Due
-----------------------------------------------------------------------------
(* Fetching.                                                               *)

\* What a task asks for completes the day, or the lake.
LEMMA WantedCompletes ==
    ASSUME TypeOK, NoHoles, NEW t \in Tasks, Streamed(t)
    PROVE  /\ ~plan.tail => lake[t] \cup Wanted(t) = 0..(now - 1)
           /\ DayStart(now)..(now - 1) \subseteq lake[t] \cup Wanted(t)
<1>1. now \in Nat /\ lake[t] \subseteq 0..(now - 1) /\ DayStart(now) \in Nat
  BY DayBounds DEF TypeOK
<1>2. DayClosed(lake[t])
  BY Zenon DEF NoHoles
<1>3. CASE ~plan.tail
  BY <1>1, <1>3 DEF Wanted
<1>4. CASE plan.tail
  <2>1. ASSUME NEW y \in DayStart(now)..(now - 1), NEW x \in lake[t], ~(x < y)
        PROVE  y \in lake[t]
    <3>1. x \in Nat /\ y \in Nat /\ x \in DayStart(now)..now
      BY <1>1, <2>1
    <3>2. DayStart(x) = DayStart(now)
      BY <1>1, <3>1, WithinDay
    <3>3. y \in DayStart(x)..x
      BY <1>1, <2>1, <3>1, <3>2
    <3> QED BY <1>2, <2>1, <3>3 DEF DayClosed
  <2> QED BY <1>4, <2>1 DEF Wanted
<1> QED BY <1>3, <1>4

LEMMA WantedBounds ==
    ASSUME TypeOK, NEW t \in Tasks
    PROVE  /\ Wanted(t) \subseteq 0..(now - 1)
           /\ plan.tail => \A x \in Wanted(t) : Day(x) = Day(now) /\ DayStart(x) = DayStart(now)
<1>1. now \in Nat /\ DayStart(now) \in Nat
  BY DayBounds DEF TypeOK
<1>2. Wanted(t) \subseteq 0..(now - 1)
  BY <1>1 DEF Wanted
<1>3. ASSUME plan.tail, NEW x \in Wanted(t)
      PROVE  Day(x) = Day(now) /\ DayStart(x) = DayStart(now)
  <2>1. x \in DayStart(now)..now
    BY <1>1, <1>3 DEF Wanted
  <2> QED BY <1>1, <2>1, WithinDay
<1> QED BY <1>2, <1>3

LEMMA WantedClosed ==
    ASSUME TypeOK, NoHoles, NEW t \in Tasks, Streamed(t)
    PROVE  DayClosed(lake[t] \cup Wanted(t))
<1> SUFFICES ASSUME NEW x \in lake[t] \cup Wanted(t)
             PROVE  DayStart(x)..x \subseteq lake[t] \cup Wanted(t)
  BY DEF DayClosed
<1>1. now \in Nat /\ lake[t] \subseteq 0..(now - 1)
  BY DEF TypeOK
<1>2. DayClosed(lake[t])
  BY Zenon DEF NoHoles
<1>3. x \in 0..(now - 1) /\ x \in Nat /\ DayStart(x) \in Nat
  BY <1>1, WantedBounds, DayBounds
<1>4. CASE x \in lake[t]
  BY <1>2, <1>4 DEF DayClosed
<1>5. CASE x \in Wanted(t) /\ plan.tail
  <2>1. DayStart(x) = DayStart(now)
    BY <1>5, WantedBounds
  <2>2. DayStart(x)..x \subseteq DayStart(now)..(now - 1)
    BY <1>1, <1>3, <2>1
  <2> QED BY <2>2, WantedCompletes
<1>6. CASE ~plan.tail
  BY <1>1, <1>3, <1>6, WantedCompletes
<1> QED BY <1>4, <1>5, <1>6

LEMMA DueIsWanted ==
    ASSUME TypeOK, SinceOK, NoHoles, NEW t \in Tasks, Streamed(t)
    PROVE  Due(plan) \subseteq lake[t] \cup Wanted(t)
<1>1. now \in Nat /\ DayStart(now) \in Nat /\ since[plan] \in Nat /\ since[plan] <= now
  BY Counts, DayBounds DEF TypeOK
<1>2. CASE plan.tail
  <2>1. Due(plan) \subseteq DayStart(now)..(now - 1)
    BY <1>1, <1>2 DEF Due
  <2> QED BY <2>1, WantedCompletes
<1>3. CASE ~plan.tail
  <2>1. Due(plan) \subseteq 0..(now - 1)
    BY <1>1, <1>3 DEF Due
  <2> QED BY <1>3, <2>1, WantedCompletes
<1> QED BY <1>2, <1>3

\* A task with rows to stream has a run that saves them.
LEMMA FetchIInv == IInv /\ Fetch => IInv'
<1> SUFFICES ASSUME IInv, Fetch PROVE IInv'
  OBVIOUS
<1> USE DEF IInv
<1>1. PICK rows \in Answers(Current) :
          /\ got' = [got EXCEPT ![Current] = rows]
          /\ left' = IF Streams(Current) THEN rows ELSE {}
          /\ pc' = IF left' = {} THEN "complete" ELSE "chunk"
  BY Zenon DEF Fetch
<1>2. /\ pc = "fetch" /\ Busy /\ Busy' /\ pc' # "mark" /\ pc' \in {"complete", "chunk"}
      /\ left' \in {{}, rows} /\ (pc' = "complete" => left' = {})
  BY <1>1 DEF Fetch, Busy
<1>3. /\ Current \in todo /\ Current \in Tasks /\ Current \in plan.tasks /\ Current' = Current
  BY <1>2, CurrentPending, Zenon DEF Fetch, Current
<1>4. rows \subseteq Wanted(Current) /\ (Streamed(Current) => rows = Wanted(Current))
  <2>1. Answers(Current) \in {SUBSET Wanted(Current), {Wanted(Current)}}
    BY DEF Answers
  <2>2. Streamed(Current) => Answers(Current) = {Wanted(Current)}
    BY DEF Answers, Streamed
  <2> QED BY <1>1, <2>1, <2>2
<1>5. pc' = "chunk" => save
  BY <1>1, <1>2 DEF Streams
<1>6. /\ got' \in [Tasks -> SUBSET Ticks] /\ got'[Current] = rows
      /\ \A t \in Tasks : t # Current => got'[t] = got[t]
      /\ rows \subseteq 0..(now - 1) /\ rows \subseteq Ticks
  <2>1. now \in Nat /\ now <= MaxTime /\ MaxTime \in Nat
    BY Counts
  <2>2. rows \subseteq 0..(now - 1)
    BY <1>3, <1>4, WantedBounds
  <2>3. rows \subseteq Ticks
    BY <2>1, <2>2 DEF Ticks
  <2> QED BY <1>1, <1>3, <2>2, <2>3 DEF TypeOK
<1>7. TypeOK'
  <2>1. pc' \in {"idle", "fetch", "chunk", "mark", "complete", "record"} /\ left' \subseteq Ticks
    BY <1>2, <1>6
  <2> QED BY <1>6, <2>1, Zenon DEF Fetch, TypeOK
<1>8. Control'
  BY <1>2, Zenon DEF Fetch, Control
<1>9. Rows'
  <2>1. \A t \in Tasks : got'[t] \subseteq 0..(now - 1)
    BY <1>6, Zenon DEF Rows
  <2>2. left' \subseteq got'[Current] /\ (pc' = "chunk" => got'[Current] \ left' = {})
    BY <1>1, <1>2, <1>6
  <2>3. plan.tail => \A x, y \in left' : Day(x) = Day(y)
    BY <1>2, <1>3, <1>4, WantedBounds
  <2>4. save => \A t \in results : Kind[t] # "volatility" => got'[t] \subseteq lake[t]
    <3>1. ASSUME NEW t \in results PROVE t \in Tasks /\ got'[t] = got[t]
      BY <1>3, <1>6 DEF TypeOK, Control
    <3> QED BY <3>1, Zenon DEF Rows
  <2>5. UNCHANGED <<now, lake, plan, save, results>>
    BY DEF Fetch
  <2>6. pc' # "mark" /\ (pc' = "complete" => left' = {}) /\ (pc' = "chunk" => save)
    BY <1>2, <1>5
  <2>7. got'[Current] \ left' = {} => got'[Current] \ left' \subseteq lake[Current]
    OBVIOUS
  <2> QED BY <2>1, <2>2, <2>3, <2>4, <2>5, <2>6, <2>7, <1>3, Zenon DEF Rows
<1>10. NoHoles'
  <2>1. ASSUME Streamed(Current) PROVE DayClosed(lake[Current] \cup rows)
    BY <1>3, <1>4, <2>1, WantedClosed
  <2>2. UNCHANGED lake
    BY DEF Fetch
  <2> QED BY <1>3, <1>6, <2>1, <2>2, Zenon DEF NoHoles, Streamed, DayClosed
<1>11. ClaimsStored' /\ FileIsDue' /\ SinceOK'
  BY <1>2, Zenon DEF Fetch, ClaimsStored, FileIsDue, SinceOK, Due, Streamed
<1>12. RunIsDue'
  <2>1. UNCHANGED <<now, since, lake, plan, todo, errors, done>> /\ Due(plan)' = Due(plan)
    BY DEF Fetch, Due
  <2>2. Streamed(Current) => Due(plan) \subseteq lake[Current] \cup got'[Current]
    BY <1>3, <1>4, <1>6, DueIsWanted
  <2>3. pc # "idle"
    BY <1>2
  <2> QED BY <1>3, <2>1, <2>2, <2>3, Zenon DEF RunIsDue, Streamed
<1> QED BY <1>7, <1>8, <1>9, <1>10, <1>11, <1>12
-----------------------------------------------------------------------------
(* Storing.                                                                *)

\* Rows are added to the lake: what is due of other tasks stays stored.
LEMMA LakeGrows ==
    ASSUME IInv, UNCHANGED <<now, since, file, claims, plan>>,
           \A t \in Tasks : lake[t] \subseteq lake'[t]
    PROVE  /\ FileIsDue' /\ ClaimsStored'
           /\ \A t \in Tasks : Due(plan) \subseteq lake[t] => Due(plan)' \subseteq lake'[t]
<1>1. \A p \in Plans : Due(p)' = Due(p)
  BY Zenon DEF Due
<1>2. \A c \in file : c.plan \in Plans /\ c.done \subseteq Tasks
  BY DEF IInv, TypeOK
<1>3. FileIsDue'
  <2> SUFFICES ASSUME NEW c \in file, c.plan.tail, NEW t \in c.done, Streamed(t)
               PROVE  Due(c.plan)' \subseteq lake'[t]
    BY Zenon DEF FileIsDue, Streamed
  <2>1. Due(c.plan) \subseteq lake[t]
    BY Zenon DEF IInv, FileIsDue
  <2> QED BY <1>1, <1>2, <2>1
<1>4. ClaimsStored'
  BY DEF IInv, ClaimsStored
<1>5. plan \in Plans
  BY DEF IInv, TypeOK
<1> QED BY <1>1, <1>3, <1>4, <1>5

LEMMA PersistChunkIInv == IInv /\ PersistChunk => IInv'
<1> SUFFICES ASSUME IInv, PersistChunk PROVE IInv'
  OBVIOUS
<1> USE DEF IInv
<1> DEFINE rows == {x \in left : Day(x) = Day(Min(left))}
<1>1. /\ pc = "chunk" /\ Busy /\ Fetched
      /\ lake' = [lake EXCEPT ![Current] = @ \cup rows] /\ left' = left \ rows
      /\ pc' \in {"complete", "chunk", "mark"} /\ (pc' = "complete" => left' = {})
  BY DEF PersistChunk, Busy, Fetched, NextPhase
<1>2. UNCHANGED <<now, file, plan, save, enabled, done, todo, got, results, errors, claims, since, faults>>
  BY DEF PersistChunk
<1> HIDE DEF rows
<1>3. /\ Current \in todo /\ Current \in Tasks /\ Current \in plan.tasks /\ Current' = Current
  BY <1>1, <1>2, CurrentPending, Zenon DEF Current
<1>4. /\ rows \subseteq left /\ left \subseteq got[Current] /\ left \subseteq Nat
      /\ got[Current] \ left \subseteq lake[Current] /\ save
      /\ rows \subseteq 0..(now - 1)
  <2>1. left \subseteq got[Current] /\ got[Current] \ left \subseteq lake[Current] /\ save
    BY <1>1, Zenon DEF Rows
  <2>2. rows \subseteq left
    BY DEF rows
  <2>3. got[Current] \subseteq 0..(now - 1) /\ now \in Nat
    BY <1>3 DEF Rows, TypeOK
  <2> QED BY <2>1, <2>2, <2>3
<1>5. /\ lake' \in [Tasks -> SUBSET (0..(now - 1))]
      /\ lake'[Current] = lake[Current] \cup rows
      /\ \A t \in Tasks : t # Current => lake'[t] = lake[t]
      /\ \A t \in Tasks : lake[t] \subseteq lake'[t]
  BY <1>1, <1>3, <1>4 DEF TypeOK
<1>6. TypeOK'
  <2>1. pc' \in {"idle", "fetch", "chunk", "mark", "complete", "record"} /\ left' \subseteq Ticks
    BY <1>1 DEF TypeOK
  <2> QED BY <1>2, <1>5, <2>1, Zenon DEF TypeOK
<1>7. Control'
  BY <1>1, <1>2, Zenon DEF Control, Busy
<1>8. Rows'
  <2>1. left' \subseteq got[Current] /\ got[Current] \ left' \subseteq lake'[Current]
    BY <1>1, <1>4, <1>5
  <2>2. ASSUME plan.tail
        PROVE  left' = {}
    <3>1. \A x, y \in left : Day(x) = Day(y)
      BY <1>1, <2>2, Zenon DEF Rows
    <3>2. left # {} => Min(left) \in left
      BY <1>4, MinIsMember
    <3> QED BY <1>1, <3>1, <3>2 DEF rows
  <2>3. save => \A t \in results : Kind[t] # "volatility" => got[t] \subseteq lake'[t]
    <3>1. \A t \in results : t \in Tasks
      BY DEF TypeOK
    <3>2. \A t \in results : Kind[t] # "volatility" => got[t] \subseteq lake[t]
      BY <1>4, Zenon DEF Rows
    <3> QED BY <1>5, <3>1, <3>2
  <2>4. plan.tail => \A x, y \in left' : Day(x) = Day(y)
    BY <2>2
  <2>5. \A t \in Tasks : got[t] \subseteq 0..(now - 1)
    BY Zenon DEF Rows
  <2> QED BY <1>1, <1>2, <1>3, <1>4, <2>1, <2>2, <2>3, <2>4, <2>5, Zenon DEF Rows
<1>9. NoHoles'
  <2>1. ASSUME Streamed(Current)
        PROVE  DayClosed(lake'[Current]) /\ DayClosed(lake'[Current] \cup got[Current])
    <3>1. DayClosed(lake[Current]) /\ DayClosed(lake[Current] \cup got[Current])
      BY <1>1, <1>3, <2>1, Zenon DEF NoHoles
    <3>2. lake'[Current] \cup got[Current] = lake[Current] \cup got[Current]
      BY <1>4, <1>5
    <3>3. ASSUME NEW x \in rows, NEW y \in DayStart(x)..x
          PROVE  y \in lake'[Current]
      <4>1. Day(y) = Day(x)
        BY <1>4, WithinDay
      <4>2. y \in lake[Current] \cup got[Current]
        BY <1>4, <3>1, <3>3 DEF DayClosed
      <4>3. y \in left => y \in rows
        BY <4>1 DEF rows
      <4> QED BY <1>4, <1>5, <4>2, <4>3
    <3>4. DayClosed(lake'[Current])
      BY <1>5, <3>1, <3>3 DEF DayClosed
    <3> QED BY <3>1, <3>2, <3>4
  <2>2. \A t \in Tasks : Streamed(t) => DayClosed(lake[t])
    BY Zenon DEF NoHoles
  <2> QED BY <1>2, <1>3, <1>5, <2>1, <2>2, Zenon DEF NoHoles, Streamed, DayClosed
<1>10. FileIsDue' /\ ClaimsStored'
  BY <1>2, <1>5, LakeGrows, Zenon
<1>11. SinceOK'
  BY <1>1, <1>2, Zenon DEF SinceOK
<1>12. RunIsDue'
  <2>1. \A t \in Tasks : Due(plan) \subseteq lake[t] => Due(plan)' \subseteq lake'[t]
    BY <1>2, <1>5, LakeGrows, Zenon
  <2>2. Due(plan)' = Due(plan)
    BY <1>2 DEF Due
  <2>3. Streamed(Current) => Due(plan) \subseteq lake'[Current] \cup got[Current]
    <3>1. Streamed(Current) => Due(plan) \subseteq lake[Current] \cup got[Current]
      BY <1>1, Zenon DEF RunIsDue
    <3> QED BY <1>5, <3>1
  <2>4. plan.tasks \subseteq Tasks /\ done \subseteq Tasks
    BY PlanFacts DEF TypeOK
  <2>5. /\ \A t \in plan.tasks \ (todo \cup errors) : Streamed(t) => Due(plan) \subseteq lake[t]
        /\ plan.tail => \A t \in done : Streamed(t) => Due(plan) \subseteq lake[t]
    BY <1>1, Zenon DEF RunIsDue
  <2>6. /\ \A t \in plan.tasks \ (todo \cup errors) : Streamed(t) => Due(plan)' \subseteq lake'[t]
        /\ plan.tail => \A t \in done : Streamed(t) => Due(plan)' \subseteq lake'[t]
    BY <2>1, <2>4, <2>5
  <2> QED BY <1>2, <1>3, <2>2, <2>3, <2>6, Zenon DEF RunIsDue, Streamed
<1> QED BY <1>6, <1>7, <1>8, <1>9, <1>10, <1>11, <1>12
-----------------------------------------------------------------------------
(* The checkpoint.                                                         *)

\* A task may be recorded once its rows, and what is due of it, are in the lake.
LEMMA RecordIsSafe ==
    ASSUME IInv, pc # "idle", UNCHANGED <<now, since, lake, plan>>,
           NEW t \in Tasks, NEW rows \in SUBSET Ticks, Record(t, rows),
           save /\ Kind[t] # "volatility" => rows \subseteq lake[t],
           plan.tail /\ Streamed(t) => Due(plan) \subseteq lake[t]
    PROVE  /\ file' \subseteq [plan : Plans, done : SUBSET Tasks] /\ Cardinality(file') <= 1
           /\ claims' \in [Tasks -> SUBSET (Ticks \X BOOLEAN)]
           /\ FileIsDue' /\ ClaimsStored'
<1> USE DEF IInv
<1>1. plan \in Plans /\ done \cup {t} \in SUBSET Tasks
  BY DEF TypeOK
<1>2. file' \in {file, {[plan |-> plan, done |-> done \cup {t}]}}
  BY DEF Record
<1>3. file' \subseteq [plan : Plans, done : SUBSET Tasks] /\ Cardinality(file') <= 1
  <2>1. Cardinality({[plan |-> plan, done |-> done \cup {t}]}) = 1
    BY FS_Singleton
  <2>2. file \subseteq [plan : Plans, done : SUBSET Tasks] /\ Cardinality(file) <= 1
    BY DEF TypeOK
  <2>3. [plan |-> plan, done |-> done \cup {t}] \in [plan : Plans, done : SUBSET Tasks]
    BY <1>1
  <2>4. CASE file' = file
    BY <2>2, <2>4
  <2>5. CASE file' = {[plan |-> plan, done |-> done \cup {t}]}
    BY <2>1, <2>3, <2>5
  <2> QED BY <1>2, <2>4, <2>5
<1>4. claims' = [x \in Tasks |-> IF x = t THEN claims[x] \cup (rows \X {save})
                                ELSE IF x \in done THEN claims[x] ELSE {}]
  BY Zenon DEF Record
<1>5. claims' \in [Tasks -> SUBSET (Ticks \X BOOLEAN)]
  <2>1. save \in BOOLEAN
    BY Zenon DEF TypeOK
  <2>2. rows \X {save} \subseteq Ticks \X BOOLEAN
    BY <2>1
  <2> QED BY <1>4, <2>2 DEF TypeOK
<1>6. FileIsDue'
  <2>1. \A p \in Plans : Due(p)' = Due(p)
    BY Zenon DEF Due
  <2>2. ASSUME NEW c \in file', c.plan.tail, NEW x \in c.done, Streamed(x)
        PROVE  Due(c.plan) \subseteq lake[x]
    <3>1. CASE c \in file
      BY <2>2, <3>1, Zenon DEF FileIsDue
    <3>2. CASE c = [plan |-> plan, done |-> done \cup {t}]
      <4>1. c.plan = plan /\ c.done = done \cup {t}
        BY <3>2
      <4>2. plan.tail
        BY <2>2, <4>1, Zenon
      <4>3. CASE x = t
        BY <2>2, <4>1, <4>2, <4>3, Zenon
      <4>4. CASE x \in done
        BY <2>2, <4>1, <4>2, <4>4, Zenon DEF RunIsDue
      <4> QED BY <2>2, <4>1, <4>3, <4>4
    <3> QED BY <1>2, <2>2, <3>1, <3>2
  <2>3. \A c \in file' : c.plan \in Plans
    BY <1>3
  <2> QED BY <2>1, <2>2, <2>3, Zenon DEF FileIsDue, Streamed
<1>7. ClaimsStored'
  <2> SUFFICES ASSUME NEW x \in Tasks, Kind[x] # "volatility", NEW c \in claims'[x], c[2]
               PROVE  c[1] \in lake[x]
    BY Zenon DEF ClaimsStored
  <2>1. CASE c \in claims[x]
    BY <2>1, Zenon DEF ClaimsStored
  <2>2. CASE x = t /\ c \in rows \X {save}
    <3>1. c[1] \in rows /\ c[2] = save
      BY <2>2
    <3>2. save
      BY <3>1, Zenon
    <3> QED BY <2>2, <3>1, <3>2
  <2> QED BY <1>4, <2>1, <2>2
<1> QED BY <1>3, <1>5, <1>6, <1>7

LEMMA MarkChunkIInv == IInv /\ MarkChunk => IInv'
<1> SUFFICES ASSUME IInv, MarkChunk PROVE IInv'
  OBVIOUS
<1> USE DEF IInv
<1>1. /\ pc = "mark" /\ Busy /\ Fetched /\ pc # "idle"
      /\ pc' \in {"complete", "chunk"} /\ (pc' = "complete" => left = {})
      /\ Record(Current, got[Current] \ left)
      /\ done' \in {done, done \cup {Current}}
  BY DEF MarkChunk, Busy, Fetched
<1>2. UNCHANGED <<now, lake, plan, save, enabled, todo, got, left, results, errors, since, faults>>
  BY DEF MarkChunk, taskVars
<1>3. /\ Current \in todo /\ Current \in Tasks /\ Current \in plan.tasks /\ Current' = Current
  BY <1>1, <1>2, CurrentPending, Zenon DEF Current
<1>4. /\ got[Current] \ left \subseteq lake[Current] /\ got[Current] \ left \in SUBSET Ticks
      /\ (plan.tail => left = {})
  <2>1. got[Current] \ left \subseteq lake[Current] /\ (plan.tail => left = {})
    BY <1>1, Zenon DEF Rows
  <2>2. got[Current] \ left \in SUBSET Ticks
    BY <1>3 DEF TypeOK
  <2> QED BY <2>1, <2>2
<1>5. ASSUME plan.tail, Streamed(Current)
      PROVE  Due(plan) \subseteq lake[Current]
  <2>1. Due(plan) \subseteq lake[Current] \cup got[Current]
    BY <1>1, <1>5, Zenon DEF RunIsDue
  <2> QED BY <1>4, <1>5, <2>1
<1>6. /\ file' \subseteq [plan : Plans, done : SUBSET Tasks] /\ Cardinality(file') <= 1
      /\ claims' \in [Tasks -> SUBSET (Ticks \X BOOLEAN)]
      /\ FileIsDue' /\ ClaimsStored'
  <2> DEFINE rows == got[Current] \ left
  <2>1. rows \in SUBSET Ticks /\ rows \subseteq lake[Current] /\ Record(Current, rows)
    BY <1>1, <1>4
  <2> HIDE DEF rows
  <2> QED BY <1>1, <1>2, <1>3, <1>5, <2>1, RecordIsSafe, Zenon
<1>7. TypeOK'
  <2>1. pc' \in {"idle", "fetch", "chunk", "mark", "complete", "record"} /\ done' \subseteq Tasks
    BY <1>1, <1>3 DEF TypeOK
  <2>2. {done', todo, results, errors} \subseteq SUBSET Tasks
    BY <2>1 DEF TypeOK
  <2> QED BY <1>2, <1>6, <2>1, <2>2, Zenon DEF TypeOK
<1>8. Control'
  BY <1>1, <1>2, Zenon DEF Control, Busy
<1>9. Rows'
  BY <1>1, <1>2, <1>3, Zenon DEF Rows, Fetched
<1>10. NoHoles'
  BY <1>1, <1>2, <1>3, Zenon DEF NoHoles, Streamed, DayClosed
<1>11. SinceOK'
  BY <1>1, <1>2, Zenon DEF SinceOK
<1>12. RunIsDue'
  <2>1. Due(plan)' = Due(plan)
    BY <1>2 DEF Due
  <2>2. plan.tail => \A t \in done' : Streamed(t) => Due(plan) \subseteq lake[t]
    BY <1>1, <1>5, Zenon DEF RunIsDue
  <2> QED BY <1>1, <1>2, <1>3, <2>1, <2>2, Zenon DEF RunIsDue, Streamed
<1> QED BY <1>6, <1>7, <1>8, <1>9, <1>10, <1>11, <1>12

LEMMA CompleteIInv == IInv /\ Complete => IInv'
<1> SUFFICES ASSUME IInv, Complete PROVE IInv'
  OBVIOUS
<1> USE DEF IInv
<1>1. /\ pc = "complete" /\ Busy /\ Fetched /\ pc # "idle" /\ left = {}
      /\ lake' = [lake EXCEPT ![Current] = Persisted(Current)]
      /\ results' = results \cup {Current} /\ todo' = todo \ {Current}
      /\ pc' = IF todo' = {} THEN "record" ELSE "fetch"
  BY DEF Complete, Busy, Fetched, Advance, Rows
<1>2. UNCHANGED <<now, file, plan, save, enabled, done, got, left, errors, claims, since, faults>>
  BY DEF Complete
<1>3. /\ Current \in todo /\ Current \in Tasks /\ Current \in plan.tasks
      /\ ~Fetched' /\ pc' \in {"record", "fetch"} /\ pc' # "idle"
  BY <1>1, CurrentPending DEF Fetched
<1>4. /\ Persisted(Current) \in {lake[Current], lake[Current] \cup got[Current]}
      /\ save /\ Kind[Current] # "volatility" => Persisted(Current) = lake[Current] \cup got[Current]
  <2>1. CASE save /\ Kind[Current] # "volatility"
    BY <2>1 DEF Persisted
  <2>2. CASE ~(save /\ Kind[Current] # "volatility")
    BY <2>2, Zenon DEF Persisted
  <2> QED BY <2>1, <2>2, Zenon
<1>5. /\ lake' \in [Tasks -> SUBSET (0..(now - 1))]
      /\ lake'[Current] = Persisted(Current)
      /\ \A t \in Tasks : t # Current => lake'[t] = lake[t]
      /\ \A t \in Tasks : lake[t] \subseteq lake'[t]
  <2>1. got[Current] \subseteq 0..(now - 1) /\ lake[Current] \subseteq 0..(now - 1)
    BY <1>3 DEF Rows, TypeOK
  <2> QED BY <1>1, <1>3, <1>4, <2>1 DEF TypeOK
<1>6. TypeOK'
  <2>1. pc' \in {"idle", "fetch", "chunk", "mark", "complete", "record"}
    BY <1>3
  <2>2. {done, todo', results', errors} \subseteq SUBSET Tasks
    BY <1>1, <1>3 DEF TypeOK
  <2> QED BY <1>2, <1>5, <2>1, <2>2, Zenon DEF TypeOK
<1>7. Control'
  <2>1. Busy' <=> todo' # {}
    BY <1>1 DEF Busy
  <2>2. /\ todo \cup results \cup errors \subseteq plan.tasks
        /\ todo \cap results = {} /\ todo \cap errors = {} /\ results \cap errors = {}
    BY DEF Control
  <2>3. /\ todo' \cup results' \cup errors \subseteq plan.tasks
        /\ todo' \cap results' = {} /\ todo' \cap errors = {} /\ results' \cap errors = {}
    BY <1>1, <1>3, <2>2
  <2> QED BY <1>2, <2>1, <2>3, Zenon DEF Control
<1>8. Rows'
  <2>1. save => \A t \in results' : Kind[t] # "volatility" => got[t] \subseteq lake'[t]
    <3>1. ASSUME save, NEW t \in results', Kind[t] # "volatility" PROVE got[t] \subseteq lake'[t]
      <4>1. CASE t = Current
        BY <1>4, <1>5, <3>1, <4>1
      <4>2. CASE t \in results
        <5>1. got[t] \subseteq lake[t] /\ t \in Tasks
          BY <3>1, <4>2 DEF Rows, TypeOK
        <5> QED BY <1>5, <5>1
      <4> QED BY <1>1, <3>1, <4>1, <4>2
    <3> QED BY <3>1
  <2>2. \A t \in Tasks : got[t] \subseteq 0..(now - 1)
    BY Zenon DEF Rows
  <2>3. pc' # "chunk" /\ pc' # "mark" /\ pc' # "complete"
    BY <1>3
  <2> QED BY <1>2, <1>3, <2>1, <2>2, <2>3, Zenon DEF Rows
<1>9. NoHoles'
  <2>1. Streamed(Current) => DayClosed(lake'[Current])
    BY <1>1, <1>3, <1>4, <1>5, Zenon DEF NoHoles
  <2>2. \A t \in Tasks : Streamed(t) => DayClosed(lake[t])
    BY Zenon DEF NoHoles
  <2> QED BY <1>3, <1>5, <2>1, <2>2, Zenon DEF NoHoles, Streamed, DayClosed
<1>10. FileIsDue' /\ ClaimsStored'
  BY <1>2, <1>5, LakeGrows, Zenon
<1>11. SinceOK'
  BY <1>1, <1>2, Zenon DEF SinceOK
<1>12. RunIsDue'
  <2>1. \A t \in Tasks : Due(plan) \subseteq lake[t] => Due(plan)' \subseteq lake'[t]
    BY <1>2, <1>5, LakeGrows, Zenon
  <2>2. Due(plan)' = Due(plan) /\ plan \in Plans
    BY <1>2 DEF Due, TypeOK
  <2>3. ASSUME Streamed(Current) PROVE Due(plan)' \subseteq lake'[Current]
    <3>1. CASE save
      <4>1. Due(plan) \subseteq lake[Current] \cup got[Current]
        BY <1>1, <2>3, Zenon DEF RunIsDue
      <4>2. lake'[Current] = lake[Current] \cup got[Current]
        BY <1>4, <1>5, <2>3, <3>1 DEF Streamed
      <4> QED BY <2>2, <4>1, <4>2
    <3>2. CASE ~save
      <4>1. since[plan] = 0
        BY <1>1, <3>2, Zenon DEF SinceOK
      <4> QED BY <2>2, <4>1, NothingDue
    <3> QED BY <3>1, <3>2, Zenon
  <2>4. plan.tasks \subseteq Tasks /\ done \subseteq Tasks
    BY <2>2, PlanFacts DEF TypeOK
  <2>5. /\ \A t \in plan.tasks \ (todo \cup errors) : Streamed(t) => Due(plan) \subseteq lake[t]
        /\ plan.tail => \A t \in done : Streamed(t) => Due(plan) \subseteq lake[t]
    BY <1>1, Zenon DEF RunIsDue
  <2>6. /\ \A t \in plan.tasks \ (todo' \cup errors) : Streamed(t) => Due(plan)' \subseteq lake'[t]
        /\ plan.tail => \A t \in done : Streamed(t) => Due(plan)' \subseteq lake'[t]
    BY <1>1, <2>1, <2>3, <2>4, <2>5
  <2> QED BY <1>2, <1>3, <2>6, Zenon DEF RunIsDue, Streamed
<1> QED BY <1>6, <1>7, <1>8, <1>9, <1>10, <1>11, <1>12

LEMMA RecordResultIInv == IInv /\ RecordResult => IInv'
<1> SUFFICES ASSUME IInv, RecordResult PROVE IInv'
  OBVIOUS
<1> USE DEF IInv
<1> DEFINE t == Min(results)
<1>1. /\ pc = "record" /\ ~Busy /\ ~Fetched /\ pc # "idle" /\ results # {}
      /\ Record(t, got[t]) /\ done' = done \cup {t} /\ results' = results \ {t}
  BY DEF RecordResult, Busy, Fetched
<1>2. UNCHANGED <<now, lake, pc, plan, save, enabled, todo, got, left, errors, since, faults>>
  BY DEF RecordResult
<1>3. t \in results /\ t \in Tasks /\ t \in plan.tasks \ (todo \cup errors)
  <2>1. results \subseteq Nat /\ results \subseteq Tasks
    BY BronzeAssumption DEF TypeOK
  <2>2. t \in results
    BY <1>1, <2>1, MinIsMember
  <2> QED BY <2>1, <2>2 DEF Control
<1> HIDE DEF t
<1>4. Streamed(t) => Due(plan) \subseteq lake[t]
  BY <1>1, <1>3, Zenon DEF RunIsDue
<1>5. save /\ Kind[t] # "volatility" => got[t] \subseteq lake[t]
  BY <1>3, Zenon DEF Rows
<1>6. /\ file' \subseteq [plan : Plans, done : SUBSET Tasks] /\ Cardinality(file') <= 1
      /\ claims' \in [Tasks -> SUBSET (Ticks \X BOOLEAN)]
      /\ FileIsDue' /\ ClaimsStored'
  <2>1. got[t] \in SUBSET Ticks
    BY <1>3 DEF TypeOK
  <2> QED BY <1>1, <1>2, <1>3, <1>4, <1>5, <2>1, RecordIsSafe, Zenon
<1>7. TypeOK'
  <2>1. {done', todo, results', errors} \subseteq SUBSET Tasks
    BY <1>1, <1>3 DEF TypeOK
  <2> QED BY <1>2, <1>6, <2>1, Zenon DEF TypeOK
<1>8. Control'
  <2>1. /\ todo \cup results \cup errors \subseteq plan.tasks
        /\ todo \cap results = {} /\ todo \cap errors = {} /\ results \cap errors = {}
    BY DEF Control
  <2>2. /\ todo \cup results' \cup errors \subseteq plan.tasks
        /\ todo \cap results' = {} /\ todo \cap errors = {} /\ results' \cap errors = {}
    BY <1>1, <2>1
  <2> QED BY <1>1, <1>2, <2>2, Zenon DEF Control, Busy
<1>9. Rows'
  <2>1. \A x \in results' : x \in results
    BY <1>1
  <2>2. pc # "chunk" /\ pc # "mark" /\ pc # "complete"
    BY <1>1
  <2> QED BY <1>1, <1>2, <2>1, <2>2, Zenon DEF Rows, Fetched
<1>10. NoHoles'
  BY <1>1, <1>2, Zenon DEF NoHoles, Streamed, DayClosed, Fetched
<1>11. SinceOK'
  BY <1>2, Zenon DEF SinceOK
<1>12. RunIsDue'
  <2>1. Due(plan)' = Due(plan)
    BY <1>2 DEF Due
  <2>2. plan.tail => \A x \in done' : Streamed(x) => Due(plan) \subseteq lake[x]
    <3>1. \A x \in done' : x \in done \/ x = t
      BY <1>1
    <3> QED BY <1>1, <1>4, <3>1, Zenon DEF RunIsDue
  <2> QED BY <1>1, <1>2, <2>1, <2>2, Zenon DEF RunIsDue, Streamed, Fetched
<1> QED BY <1>6, <1>7, <1>8, <1>9, <1>10, <1>11, <1>12
-----------------------------------------------------------------------------
(* Failures, time, and the ends of a run.                                  *)

LEMMA FailIInv == IInv /\ Fail => IInv'
<1> SUFFICES ASSUME IInv, Fail PROVE IInv'
  OBVIOUS
<1> USE DEF IInv
<1>1. /\ Busy /\ pc # "idle" /\ left' = {} /\ faults < MaxFaults /\ faults' = faults + 1
      /\ errors' = errors \cup {Current} /\ todo' = todo \ {Current}
      /\ pc' = IF todo' = {} THEN "record" ELSE "fetch"
  BY DEF Fail, Busy, Advance
<1>2. UNCHANGED <<now, lake, file, plan, save, enabled, done, got, results, claims, since>>
  BY DEF Fail
<1>3. /\ Current \in todo /\ Current \in Tasks /\ Current \in plan.tasks
      /\ ~Fetched' /\ pc' \in {"record", "fetch"} /\ pc' # "idle"
  BY <1>1, CurrentPending DEF Fetched
<1>4. TypeOK'
  <2>1. pc' \in {"idle", "fetch", "chunk", "mark", "complete", "record"} /\ left' \subseteq Ticks
    BY <1>1, <1>3
  <2>2. {done, todo', results, errors'} \subseteq SUBSET Tasks
    BY <1>1, <1>3 DEF TypeOK
  <2>3. faults' \in 0..MaxFaults
    BY <1>1, BronzeAssumption DEF TypeOK
  <2> QED BY <1>2, <2>1, <2>2, <2>3, Zenon DEF TypeOK
<1>5. Control'
  <2>1. Busy' <=> todo' # {}
    BY <1>1 DEF Busy
  <2>2. /\ todo \cup results \cup errors \subseteq plan.tasks
        /\ todo \cap results = {} /\ todo \cap errors = {} /\ results \cap errors = {}
    BY DEF Control
  <2>3. /\ todo' \cup results \cup errors' \subseteq plan.tasks
        /\ todo' \cap results = {} /\ todo' \cap errors' = {} /\ results \cap errors' = {}
    BY <1>1, <1>3, <2>2
  <2> QED BY <1>2, <2>1, <2>3, Zenon DEF Control
<1>6. Rows'
  <2>1. pc' # "chunk" /\ pc' # "mark" /\ pc' # "complete"
    BY <1>3
  <2> QED BY <1>2, <1>3, <2>1, Zenon DEF Rows
<1>7. NoHoles' /\ ClaimsStored' /\ FileIsDue' /\ SinceOK'
  BY <1>1, <1>2, <1>3, Zenon
     DEF NoHoles, ClaimsStored, FileIsDue, SinceOK, Streamed, DayClosed, Due
<1>8. RunIsDue'
  <2>1. Due(plan)' = Due(plan)
    BY <1>2 DEF Due
  <2>2. \A t \in plan.tasks \ (todo' \cup errors') : t \in plan.tasks \ (todo \cup errors)
    BY <1>1
  <2> QED BY <1>1, <1>2, <1>3, <2>1, <2>2, Zenon DEF RunIsDue, Streamed
<1> QED BY <1>4, <1>5, <1>6, <1>7, <1>8

\* With time, less is due of a tail plan.
LEMMA TickIInv == IInv /\ Tick => IInv'
<1> SUFFICES ASSUME IInv, Tick PROVE IInv'
  OBVIOUS
<1> USE DEF IInv
<1>1. now' = now + 1 /\ now < MaxTime /\ now \in Nat /\ MaxTime \in Nat
  BY Counts DEF Tick
<1>2. UNCHANGED <<lake, file, pc, plan, save, enabled, done, todo, got, left, results, errors,
                  claims, since, faults>>
  BY DEF Tick, runVars, taskVars
<1>3. \A p \in Plans : Due(p)' \subseteq Due(p)
  <2> SUFFICES ASSUME NEW p \in Plans, NEW x \in Due(p)' PROVE x \in Due(p)
    OBVIOUS
  <2>1. since[p] \in Nat /\ since[p] <= now
    BY Counts
  <2>2. CASE p.tail
    <3>1. x \in DayStart(now + 1)..(since[p] - 1) /\ Day(since[p]) = Day(now + 1)
      BY <1>1, <1>2, <2>2 DEF Due
    <3>2. Day(now) = Day(now + 1) /\ DayStart(now) = DayStart(now + 1)
      BY <1>1, <2>1, <3>1, SameDay
    <3> QED BY <2>2, <3>1, <3>2 DEF Due
  <2>3. CASE ~p.tail
    BY <1>2, <2>3 DEF Due
  <2> QED BY <2>2, <2>3
<1>4. TypeOK'
  <2>1. now' \in 0..MaxTime /\ lake \in [Tasks -> SUBSET (0..(now' - 1))]
    BY <1>1 DEF TypeOK
  <2> QED BY <1>2, <2>1, Zenon DEF TypeOK
<1>5. Control' /\ NoHoles' /\ ClaimsStored'
  BY <1>2, Zenon DEF Control, NoHoles, ClaimsStored, Busy, Fetched, Current, Streamed, DayClosed
<1>6. Rows'
  <2>1. \A t \in Tasks : got[t] \subseteq 0..(now' - 1)
    BY <1>1 DEF Rows
  <2>2. Current' = Current /\ (Fetched' <=> Fetched)
    BY <1>2 DEF Current, Fetched
  <2> QED BY <1>2, <2>1, <2>2, Zenon DEF Rows
<1>7. SinceOK'
  <2>1. \A p \in Plans : since[p] <= now'
    BY <1>1, Counts
  <2> QED BY <1>2, <2>1, Zenon DEF SinceOK
<1>8. FileIsDue'
  <2>1. ASSUME NEW c \in file, c.plan.tail, NEW t \in c.done, Streamed(t)
        PROVE  Due(c.plan)' \subseteq lake[t]
    <3>1. Due(c.plan) \subseteq lake[t]
      BY <2>1, Zenon DEF FileIsDue
    <3>2. c.plan \in Plans
      BY DEF TypeOK
    <3> QED BY <1>3, <3>1, <3>2
  <2> QED BY <1>2, <2>1, Zenon DEF FileIsDue, Streamed
<1>9. RunIsDue'
  <2>1. Due(plan)' \subseteq Due(plan)
    <3>1. plan \in Plans
      BY DEF TypeOK
    <3>2. \A q \in Plans : plan = q => Due(plan)' = Due(q)'
      BY <1>2 DEF Due
    <3> QED BY <1>3, <3>1, <3>2
  <2>2. \A rows : Due(plan) \subseteq rows => Due(plan)' \subseteq rows
    BY <2>1
  <2>3. Current' = Current /\ (Fetched' <=> Fetched)
    BY <1>2 DEF Current, Fetched
  <2> QED BY <1>2, <2>2, <2>3, Zenon DEF RunIsDue, Streamed
<1> QED BY <1>4, <1>5, <1>6, <1>7, <1>8, <1>9

\* Whatever ends a run leaves the checkpoint as it is, or removes it.
LEMMA ExitIInv ==
    ASSUME IInv, Exit, UNCHANGED <<now, lake>>, faults' \in 0..MaxFaults,
           \/ UNCHANGED <<file, claims, since>>
           \/ file' = {} /\ claims' = NoRows /\ since' = [p \in Plans |-> 0]
    PROVE  IInv'
<1> USE DEF IInv
<1>1. /\ pc' = "idle" /\ plan' = NoPlan /\ save' = FALSE /\ enabled' = FALSE /\ done' = {}
      /\ todo' = {} /\ got' = NoRows /\ left' = {} /\ results' = {} /\ errors' = {}
  BY DEF Exit
<1>2. ~Busy' /\ ~Fetched'
  BY <1>1 DEF Busy, Fetched
<1>3. NoRows \in [Tasks -> SUBSET Ticks] /\ \A t \in Tasks : NoRows[t] = {}
  BY DEF NoRows
<1>4. /\ file' \subseteq [plan : Plans, done : SUBSET Tasks] /\ Cardinality(file') <= 1
      /\ claims' \in [Tasks -> SUBSET (Ticks \X BOOLEAN)] /\ since' \in [Plans -> 0..MaxTime]
  <2>1. CASE UNCHANGED <<file, claims, since>>
    BY <2>1 DEF TypeOK
  <2>2. CASE file' = {} /\ claims' = NoRows /\ since' = [p \in Plans |-> 0]
    <3>1. Cardinality({}) = 0
      BY FS_EmptySet
    <3> QED BY <2>2, <3>1, BronzeAssumption DEF NoRows
  <2> QED BY <2>1, <2>2, Zenon
<1>5. TypeOK'
  <2>1. plan' \in Plans /\ {done', todo', results', errors'} \subseteq SUBSET Tasks
    BY <1>1, PlanFacts
  <2>2. {save', enabled'} \subseteq BOOLEAN
    <3>1. save' \in BOOLEAN /\ enabled' \in BOOLEAN
      BY <1>1, Zenon
    <3> QED BY <3>1, Zenon
  <2>3. pc' \in {"idle", "fetch", "chunk", "mark", "complete", "record"} /\ left' \subseteq Ticks
    BY <1>1
  <2> QED BY <1>1, <1>3, <1>4, <2>1, <2>2, <2>3, Zenon DEF TypeOK
<1>6. Control'
  <2>1. todo' = {} /\ results' = {} /\ errors' = {}
    BY <1>1
  <2> QED BY <1>2, <2>1 DEF Control
<1>7. Rows'
  <2>1. \A t \in Tasks : got'[t] \subseteq 0..(now' - 1)
    BY <1>1, <1>3
  <2>2. pc' # "chunk" /\ pc' # "mark" /\ pc' # "complete" /\ ~save'
    BY <1>1, Zenon
  <2> QED BY <1>2, <2>1, <2>2, Zenon DEF Rows
<1>8. NoHoles'
  BY <1>2, Zenon DEF NoHoles, Streamed, DayClosed
<1>9. ClaimsStored'
  <2>1. CASE claims' = claims
    BY <2>1, Zenon DEF ClaimsStored
  <2>2. CASE claims' = NoRows
    BY <1>3, <2>2 DEF ClaimsStored
  <2> QED BY <2>1, <2>2, Zenon
<1>10. FileIsDue'
  <2>1. CASE UNCHANGED <<file, since>>
    BY <2>1, Zenon DEF FileIsDue, Streamed, Due
  <2>2. CASE file' = {}
    BY <2>2 DEF FileIsDue
  <2> QED BY <2>1, <2>2, Zenon
<1>11. RunIsDue'
  BY <1>1, Zenon DEF RunIsDue
<1>12. SinceOK'
  <2>1. \A p \in Plans : since'[p] <= now
    BY Counts
  <2> QED BY <1>1, <2>1, Zenon DEF SinceOK
<1> QED BY <1>5, <1>6, <1>7, <1>8, <1>9, <1>10, <1>11, <1>12

LEMMA KillIInv == IInv /\ Kill => IInv'
<1> SUFFICES ASSUME IInv, Kill PROVE IInv'
  OBVIOUS
<1>1. Exit /\ UNCHANGED <<now, lake, file, claims, since>>
  BY DEF Kill
<1>2. faults' \in 0..MaxFaults
  BY BronzeAssumption DEF Kill, IInv, TypeOK
<1> QED BY <1>1, <1>2, ExitIInv, Zenon

LEMMA FinishIInv == IInv /\ Finish => IInv'
<1> SUFFICES ASSUME IInv, Finish PROVE IInv'
  OBVIOUS
<1>1. Exit /\ UNCHANGED <<now, lake, faults>>
  BY DEF Finish
<1>2. \/ UNCHANGED <<file, claims, since>>
      \/ file' = {} /\ claims' = NoRows /\ since' = [p \in Plans |-> 0]
  BY Zenon DEF Finish
<1>3. faults' \in 0..MaxFaults
  BY <1>1 DEF IInv, TypeOK
<1> QED BY <1>1, <1>2, <1>3, ExitIInv, Zenon

\* A run skips only what the checkpoint of its own plan holds, and a chain of runs that
\* resume one another keeps the time at which it began.
LEMMA StartIInv ==
    ASSUME IInv, NEW p \in Plans, NEW s \in SaveModes, Start(p, s)
    PROVE  IInv'
<1> USE DEF IInv
<1> DEFINE on == s \/ file # {}
           known == Loaded(p, on)
<1>1. /\ pc = "idle" /\ plan' = p /\ save' = s /\ enabled' = on
      /\ done' = known /\ todo' = p.tasks \ known
      /\ got' = NoRows /\ left' = {} /\ results' = {} /\ errors' = {}
      /\ UNCHANGED <<now, lake, file, claims, faults>>
  BY Zenon DEF Start
<1>2. pc' = IF p.tasks \subseteq known THEN "record" ELSE "fetch"
  BY Zenon DEF Start
<1>3. since' = [q \in Plans |-> IF q = p /\ s /\ ~(p.tail /\ Checkpointed(p)) THEN now
                               ELSE IF Checkpointed(q) /\ (q = p => s) THEN since[q] ELSE 0]
  BY Zenon DEF Start
<1>4. /\ \A t \in known : p.tail /\ \E c \in file : c.plan = p /\ t \in c.done
      /\ known \subseteq Tasks
  <2>1. \A t \in known : p.tail /\ \E c \in file : c.plan = p /\ t \in c.done
    BY DEF Loaded
  <2>2. \A c \in file : c.done \subseteq Tasks
    BY DEF TypeOK
  <2> QED BY <2>1, <2>2
<1> HIDE DEF on, known
<1>5. p.tasks \subseteq Tasks
  BY PlanFacts
<1>6. /\ Busy' <=> todo' # {}
      /\ ~Fetched' /\ pc' \in {"record", "fetch"}
  BY <1>1, <1>2 DEF Busy, Fetched
<1>7. /\ \A q \in Plans : since'[q] \in {now, since[q], 0}
      /\ \A q \in Plans : q.tail /\ Checkpointed(q) => since'[q] \in {since[q], 0}
      /\ ~s => since'[p] = 0
  <2>1. ASSUME NEW q \in Plans
        PROVE  since'[q] = IF q = p /\ s /\ ~(p.tail /\ Checkpointed(p)) THEN now
                           ELSE IF Checkpointed(q) /\ (q = p => s) THEN since[q] ELSE 0
    BY <1>3, Zenon
  <2>2. ASSUME NEW q \in Plans PROVE since'[q] \in {now, since[q], 0}
    BY <2>1, Zenon
  <2>3. ASSUME NEW q \in Plans, q.tail, Checkpointed(q) PROVE since'[q] \in {since[q], 0}
    <3>1. ~(q = p /\ s /\ ~(p.tail /\ Checkpointed(p)))
      BY <2>3, Zenon
    <3> QED BY <2>1, <3>1, Zenon
  <2>4. ASSUME ~s PROVE since'[p] = 0
    BY <2>1, <2>4, Zenon
  <2> QED BY <2>2, <2>3, <2>4, Zenon
<1>8. ASSUME NEW q \in Plans, q.tail, Checkpointed(q) PROVE Due(q)' \subseteq Due(q)
  <2>1. CASE since'[q] = since[q]
    BY <1>1, <2>1 DEF Due
  <2>2. CASE since'[q] = 0
    <3>1. DayStart(now) \in Nat
      BY DayBounds DEF TypeOK
    <3>2. Due(q)' = {x \in DayStart(now)..(since'[q] - 1) : Day(since'[q]) = Day(now)}
      BY <1>1, <1>8, Zenon DEF Due
    <3> QED BY <2>2, <3>1, <3>2
  <2> QED BY <1>7, <1>8, <2>1, <2>2
<1>9. ASSUME NEW c \in file, c.plan.tail, NEW t \in c.done, Streamed(t)
      PROVE  Due(c.plan)' \subseteq lake[t]
  <2>1. Due(c.plan) \subseteq lake[t]
    BY <1>9, Zenon DEF FileIsDue
  <2>2. c.plan \in Plans
    BY DEF TypeOK
  <2>3. Checkpointed(c.plan)
    BY DEF Checkpointed
  <2>4. Due(c.plan)' \subseteq Due(c.plan)
    BY <1>8, <1>9, <2>2, <2>3, Zenon
  <2> QED BY <2>1, <2>4
<1>10. TypeOK'
  <2>1. since' \in [Plans -> 0..MaxTime]
    <3>1. \A q \in Plans : since'[q] \in 0..MaxTime
      BY <1>7, Counts
    <3> QED BY <1>3, <3>1
  <2>2. {done', todo', results', errors'} \subseteq SUBSET Tasks
    BY <1>1, <1>4, <1>5
  <2>3. got' \in [Tasks -> SUBSET Ticks] /\ left' \subseteq Ticks
    BY <1>1 DEF NoRows
  <2>4. pc' \in {"idle", "fetch", "chunk", "mark", "complete", "record"}
    BY <1>6
  <2>5. {save', enabled'} \subseteq BOOLEAN
    <3>1. s \in BOOLEAN
      BY BronzeAssumption, Zenon
    <3>2. on \in BOOLEAN
      BY <3>1, Zenon DEF on
    <3> QED BY <1>1, <3>1, <3>2, Zenon
  <2> QED BY <1>1, <2>1, <2>2, <2>3, <2>4, <2>5, Zenon DEF TypeOK
<1>11. Control'
  BY <1>1, <1>6 DEF Control
<1>12. Rows'
  <2>1. \A t \in Tasks : got'[t] \subseteq 0..(now' - 1)
    BY <1>1 DEF NoRows
  <2>2. /\ pc' # "chunk" /\ pc' # "mark" /\ pc' # "complete"
        /\ \A t \in results' : got'[t] \subseteq lake'[t]
    BY <1>1, <1>6
  <2> QED BY <1>6, <2>1, <2>2, Zenon DEF Rows
<1>13. NoHoles' /\ ClaimsStored'
  BY <1>1, <1>6, Zenon DEF NoHoles, ClaimsStored, Streamed, DayClosed
<1>14. FileIsDue'
  BY <1>1, <1>9, Zenon DEF FileIsDue, Streamed
<1>15. RunIsDue'
  <2>1. ASSUME NEW t \in known, Streamed(t) PROVE Due(p)' \subseteq lake[t]
    <3>1. PICK c \in file : c.plan = p /\ t \in c.done /\ p.tail
      BY <1>4, Zenon
    <3> QED BY <1>9, <2>1, <3>1, Zenon
  <2>2. \A t \in p.tasks \ (todo' \cup errors') : t \in known
    BY <1>1
  <2>3. /\ \A t \in p.tasks \ (todo' \cup errors') : Streamed(t) => Due(p)' \subseteq lake[t]
        /\ \A t \in done' : Streamed(t) => Due(p)' \subseteq lake[t]
    BY <1>1, <2>1, <2>2, Zenon
  <2>4. Due(plan)' = Due(p)'
    BY <1>1 DEF Due
  <2> QED BY <1>1, <1>6, <2>3, <2>4, Zenon DEF RunIsDue, Streamed
<1>16. SinceOK'
  <2>1. \A q \in Plans : since'[q] <= now
    BY <1>7, Counts
  <2> QED BY <1>1, <1>7, <2>1, Zenon DEF SinceOK
<1> QED BY <1>10, <1>11, <1>12, <1>13, <1>14, <1>15, <1>16
-----------------------------------------------------------------------------
(* The theorems.                                                           *)

LEMMA InitIInv == Init => IInv
<1> SUFFICES ASSUME Init PROVE IInv
  OBVIOUS
<1>1. /\ now = 0 /\ lake = NoRows /\ file = {} /\ pc = "idle" /\ plan = NoPlan
      /\ done = {} /\ todo = {} /\ got = NoRows /\ left = {} /\ results = {} /\ errors = {}
      /\ claims = NoRows /\ since = [p \in Plans |-> 0] /\ faults = 0
  BY DEF Init
<1>2. ~Busy /\ ~Fetched /\ \A t \in Tasks : NoRows[t] = {}
  BY <1>1 DEF Busy, Fetched, NoRows
<1>3. TypeOK
  <2>1. /\ now \in 0..MaxTime /\ lake \in [Tasks -> SUBSET (0..(now - 1))]
        /\ got \in [Tasks -> SUBSET Ticks] /\ left \subseteq Ticks
        /\ claims \in [Tasks -> SUBSET (Ticks \X BOOLEAN)]
        /\ since \in [Plans -> 0..MaxTime] /\ faults \in 0..MaxFaults
    BY <1>1, BronzeAssumption DEF NoRows
  <2>2. file \subseteq [plan : Plans, done : SUBSET Tasks] /\ Cardinality(file) <= 1
    <3>1. Cardinality({}) = 0
      BY FS_EmptySet
    <3> QED BY <1>1, <3>1
  <2>3. plan \in Plans /\ {done, todo, results, errors} \subseteq SUBSET Tasks
    BY <1>1, PlanFacts
  <2>4. {save, enabled} \subseteq BOOLEAN
    <3>1. save \in BOOLEAN /\ enabled \in BOOLEAN
      BY Zenon DEF Init
    <3> QED BY <3>1, Zenon
  <2>5. pc \in {"idle", "fetch", "chunk", "mark", "complete", "record"}
    BY <1>1
  <2> QED BY <2>1, <2>2, <2>3, <2>4, <2>5, Zenon DEF TypeOK
<1>4. Control
  BY <1>1, <1>2 DEF Control
<1>5. Rows
  <2>1. \A t \in Tasks : got[t] \subseteq 0..(now - 1)
    BY <1>1, <1>2
  <2>2. /\ pc # "chunk" /\ pc # "mark" /\ pc # "complete"
        /\ \A t \in results : got[t] \subseteq lake[t]
    BY <1>1
  <2> QED BY <1>2, <2>1, <2>2, Zenon DEF Rows
<1>6. NoHoles /\ ClaimsStored
  <2>1. \A t \in Tasks : DayClosed(lake[t]) /\ claims[t] = {}
    BY <1>1, <1>2 DEF DayClosed
  <2>2. ClaimsStored
    BY <2>1 DEF ClaimsStored
  <2> QED BY <1>2, <2>1, <2>2, Zenon DEF NoHoles
<1>7. FileIsDue
  BY <1>1 DEF FileIsDue
<1>8. RunIsDue
  BY <1>1, Zenon DEF RunIsDue
<1>9. SinceOK
  <2>1. \A p \in Plans : since[p] <= now
    BY <1>1
  <2> QED BY <1>1, <2>1, Zenon DEF SinceOK
<1> QED BY <1>3, <1>4, <1>5, <1>6, <1>7, <1>8, <1>9 DEF IInv

LEMMA IInvNext == IInv /\ [Next]_vars => IInv'
<1> SUFFICES ASSUME IInv, [Next]_vars PROVE IInv'
  OBVIOUS
<1>1. CASE Next
  <2>1. CASE Work
    BY <2>1, FetchIInv, PersistChunkIInv, MarkChunkIInv, CompleteIInv, RecordResultIInv,
       FinishIInv, Zenon DEF Work
  <2>2. CASE Tick \/ Fail \/ Kill
    BY <2>2, TickIInv, FailIInv, KillIInv, Zenon
  <2>3. CASE \E p \in Plans, s \in SaveModes : Start(p, s)
    BY <2>3, StartIInv, Zenon
  <2> QED BY <1>1, <2>1, <2>2, <2>3, Zenon DEF Next
<1>2. CASE UNCHANGED vars
  BY <1>2, Zenon DEF vars, runVars, taskVars, IInv, TypeOK, Control, Rows, ClaimsStored, NoHoles,
     RunIsDue, FileIsDue, SinceOK, Due, DayClosed, Streamed, Current, Busy, Fetched
<1> QED BY <1>1, <1>2, Zenon

THEOREM InvariantHolds == Spec => []IInv
BY InitIInv, IInvNext, PTL DEF Spec

\* Every variable keeps its type; the lake holds closed intervals only, and the
\* checkpoint file one plan at most (_last_closed_open_ms, write_bronze_checkpoint).
THEOREM TypeCorrectness == Spec => []TypeOK
<1>1. IInv => TypeOK
  BY DEF IInv
<1> QED BY <1>1, InvariantHolds, PTL

\* Wherever tasks fail and runs are killed, the rows a saving run held when it recorded a
\* task are in the lake, volatility tasks excepted (_mark_checkpoint_complete).
THEOREM CheckpointIsSafe == Spec => []SavedIsPersisted
<1>1. IInv => SavedIsPersisted
  <2> SUFFICES ASSUME IInv, NEW t \in Recorded, Kind[t] # "volatility",
                      NEW c \in claims[t], c[2]
               PROVE  c[1] \in lake[t]
    BY DEF SavedIsPersisted
  <2>1. t \in Tasks
    BY DEF IInv, TypeOK, Recorded
  <2> QED BY <2>1, Zenon DEF IInv, ClaimsStored
<1> QED BY <1>1, InvariantHolds, PTL

\* What a run that ends well owed is stored.
LEMMA SuccessIsDue ==
    ASSUME IInv, Successful, NEW t \in plan.tasks, Streamed(t)
    PROVE  Due(plan) \subseteq lake[t]
<1>1. pc = "record" /\ errors = {}
  BY DEF Successful
<1>2. todo = {}
  BY <1>1 DEF IInv, Control, Busy
<1>3. t \in plan.tasks \ (todo \cup errors) /\ pc # "idle"
  BY <1>1, <1>2
<1> QED BY <1>3, Zenon DEF IInv, RunIsDue

\* A chain of tail runs that resume one another on one day has stored that day up to the
\* time it began, once its last run ends well (apply_checkpoint_filter).
THEOREM ResumedRunsAreComplete == Spec => []ResumeIsComplete
<1>1. IInv => ResumeIsComplete
  <2> SUFFICES ASSUME IInv, Successful, plan.tail, Day(since[plan]) = Day(now),
                      NEW t \in plan.tasks, Streamed(t)
               PROVE  DayStart(now)..(since[plan] - 1) \subseteq lake[t]
    BY Zenon DEF ResumeIsComplete
  <2>1. Due(plan) = DayStart(now)..(since[plan] - 1)
    BY DEF Due
  <2> QED BY <2>1, SuccessIsDue, Zenon
<1> QED BY <1>1, InvariantHolds, PTL

\* A full-gap run that ends well leaves no interval before its start missing, whatever
\* checkpoint it found (load_bronze_checkpoint).
THEOREM FullGapRunsAreComplete == Spec => []FullGapIsComplete
<1>1. IInv => FullGapIsComplete
  <2> SUFFICES ASSUME IInv, Successful, ~plan.tail, NEW t \in plan.tasks, Streamed(t)
               PROVE  0..(since[plan] - 1) \subseteq lake[t]
    BY Zenon DEF FullGapIsComplete
  <2>1. Due(plan) = 0..(since[plan] - 1)
    BY Zenon DEF Due
  <2> QED BY <2>1, SuccessIsDue, Zenon
<1> QED BY <1>1, InvariantHolds, PTL
=============================================================================
