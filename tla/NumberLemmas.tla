--------------------------- MODULE NumberLemmas ---------------------------
(***************************************************************************)
(* Lemmas the other proofs share: division, least and greatest elements,   *)
(* and how many elements of a finite set precede one of them.  The provers *)
(* cannot instantiate an induction theorem; a least counterexample takes   *)
(* its place, and the strict subset order of finite sets provides it.      *)
(***************************************************************************)
EXTENDS Integers, FiniteSets, FiniteSetTheorems, TLAPS

\* Division by a positive number, as quotient and remainder.
LEMMA Quotient ==
    ASSUME NEW t \in Int, NEW d \in Nat \ {0}
    PROVE  /\ t \div d \in Int /\ (t \div d) * d <= t /\ t < (t \div d) * d + d
           /\ t % d = t - (t \div d) * d
OBVIOUS

\* Multiples keep the order, and lie at least one divisor apart.
LEMMA Multiples ==
    ASSUME NEW m \in Int, NEW n \in Int, NEW d \in Nat \ {0}
    PROVE  /\ m * d \in Int /\ m < n => m * d + d <= n * d
           /\ m <= n => m * d <= n * d
OBVIOUS

\* Division is monotone.
LEMMA QuotientsOrdered ==
    ASSUME NEW s \in Int, NEW t \in Int, NEW d \in Nat \ {0}, s <= t
    PROVE  s \div d <= t \div d
<1>1. SUFFICES ASSUME t \div d < s \div d PROVE FALSE
  BY Quotient
<1>2. (t \div d) * d + d <= (s \div d) * d
  BY <1>1, Quotient, Multiples
<1>3. (s \div d) * d <= s /\ t < (t \div d) * d + d
  BY Quotient
<1>4. (s \div d) * d \in Int /\ (t \div d) * d \in Int
  BY Quotient, Multiples
<1> DEFINE a == (s \div d) * d
           b == (t \div d) * d
<1>5. b + d <= a /\ a <= s /\ t < b + d /\ a \in Int /\ b \in Int
  BY <1>2, <1>3, <1>4
<1> HIDE DEF a, b
<1> QED BY <1>5

\* A non-empty set of natural numbers has a least element.
LEMMA LeastNatural ==
    ASSUME NEW S, S \subseteq Nat, S # {}
    PROVE  \E x \in S : \A y \in S : x <= y
<1> DEFINE T == {0..x : x \in S}
<1>1. T \subseteq FiniteSubsetsOf(Nat)
  <2> SUFFICES ASSUME NEW x \in S PROVE 0..x \in FiniteSubsetsOf(Nat)
    OBVIOUS
  <2>1. IsFiniteSet(0..x)
    BY FS_Interval
  <2>2. 0..x \subseteq Nat
    OBVIOUS
  <2> QED BY <2>1, <2>2 DEF FiniteSubsetsOf
<1>2. T # {}
  OBVIOUS
<1>3. PICK t \in T : \A u \in T : <<u, t>> \notin StrictSubsetOrdering(Nat)
  <2> HIDE DEF T
  <2>1. IsWellFoundedOn(StrictSubsetOrdering(Nat), FiniteSubsetsOf(Nat))
    BY FS_StrictSubsetOrderingWellFounded
  <2> QED BY <1>1, <1>2, <2>1, WFMin
<1>4. PICK x \in S : t = 0..x
  OBVIOUS
<1>5. ASSUME NEW y \in S, ~(x <= y) PROVE FALSE
  <2>1. 0..y \subseteq 0..x /\ 0..y # 0..x
    <3>1. x \in 0..x /\ x \notin 0..y
      BY <1>5
    <3>2. y < x /\ x \in Nat /\ y \in Nat
      BY <1>5
    <3> QED BY <3>1, <3>2
  <2>2. <<0..y, t>> \in StrictSubsetOrdering(Nat)
    BY <2>1, <1>4 DEF StrictSubsetOrdering
  <2> QED BY <2>2, <1>3
<1> QED BY <1>5

\* ahead[x] is the set of the elements that precede x in a strict order of S.
StrictOrder(S, ahead) ==
    /\ ahead \in [S -> SUBSET S]
    /\ \A x \in S : x \notin ahead[x] /\ \A y \in ahead[x] : ahead[y] \subseteq ahead[x]

\* What precedes x is a smaller set the further ahead x is.
LEMMA FewerAhead ==
    ASSUME NEW S, IsFiniteSet(S), NEW ahead, StrictOrder(S, ahead), NEW x \in S
    PROVE  /\ IsFiniteSet(ahead[x]) /\ Cardinality(ahead[x]) \in Nat
           /\ \A y \in ahead[x] : Cardinality(ahead[y]) < Cardinality(ahead[x])
<1>1. \A y \in S : IsFiniteSet(ahead[y]) /\ Cardinality(ahead[y]) \in Nat
  BY FS_Subset, FS_CardinalityType DEF StrictOrder
<1>2. ASSUME NEW y \in ahead[x] PROVE Cardinality(ahead[y]) < Cardinality(ahead[x])
  <2>1. y \in S /\ ahead[y] \subseteq ahead[x] /\ y \in ahead[x] /\ y \notin ahead[y]
    BY DEF StrictOrder
  <2>2. /\ Cardinality(ahead[y]) <= Cardinality(ahead[x])
        /\ Cardinality(ahead[x]) = Cardinality(ahead[y]) => ahead[x] = ahead[y]
    BY <1>1, <2>1, FS_Subset
  <2> QED BY <1>1, <2>1, <2>2
<1> QED BY <1>1, <1>2

\* Every non-empty part of S has an element all of whose predecessors are outside of it.
LEMMA FirstOfPart ==
    ASSUME NEW S, IsFiniteSet(S), NEW ahead, StrictOrder(S, ahead),
           NEW T, T \subseteq S, T # {}
    PROVE  \E x \in T : ahead[x] \cap T = {}
<1> DEFINE counts == {Cardinality(ahead[x]) : x \in T}
<1>1. counts \subseteq Nat /\ counts # {}
  BY FewerAhead
<1>2. PICK least \in counts : \A n \in counts : least <= n
  <2> HIDE DEF counts
  <2> QED BY <1>1, LeastNatural
<1>3. PICK x \in T : least = Cardinality(ahead[x])
  BY <1>2
<1>4. ASSUME NEW y \in ahead[x] \cap T PROVE FALSE
  <2>1. Cardinality(ahead[y]) < Cardinality(ahead[x])
    BY FewerAhead
  <2>2. Cardinality(ahead[x]) <= Cardinality(ahead[y])
    BY <1>2, <1>3
  <2>3. Cardinality(ahead[x]) \in Nat /\ Cardinality(ahead[y]) \in Nat
    BY FewerAhead
  <2> QED BY <2>1, <2>2, <2>3
<1> QED BY <1>4

\* At least n elements of S, if it has that many, have fewer than n ahead of them.
LEMMA FirstMany ==
    ASSUME NEW S, IsFiniteSet(S), NEW ahead, StrictOrder(S, ahead),
           NEW n \in Nat, n <= Cardinality(S)
    PROVE  Cardinality({x \in S : Cardinality(ahead[x]) < n}) >= n
<1> DEFINE First(m) == {x \in S : Cardinality(ahead[x]) < m}
           Short == {m \in Nat : m <= Cardinality(S) /\ ~(Cardinality(First(m)) >= m)}
<1>0. Cardinality(S) \in Nat
  BY FS_CardinalityType
<1>1. \A m \in Nat : IsFiniteSet(First(m)) /\ Cardinality(First(m)) \in Nat
  BY FS_Subset, FS_CardinalityType
<1>2. SUFFICES ASSUME Short # {} PROVE FALSE
  OBVIOUS
<1>3. PICK m \in Short : \A k \in Short : m <= k
  <2>1. Short \subseteq Nat
    OBVIOUS
  <2> HIDE DEF Short
  <2> QED BY <1>2, <2>1, LeastNatural
<1>4. m \in Nat /\ m # 0 /\ m - 1 \in Nat /\ m <= Cardinality(S)
  BY <1>1, <1>3
<1>5. Cardinality(First(m - 1)) >= m - 1
  <2>1. m - 1 \notin Short
    BY <1>3, <1>4
  <2> QED BY <2>1, <1>0, <1>4
<1>6. First(m - 1) \subseteq First(m)
  BY <1>4, FewerAhead
<1>7. S \ First(m - 1) # {}
  <2>1. SUFFICES ASSUME S = First(m - 1) PROVE FALSE
    OBVIOUS
  <2>2. First(m) = S
    BY <1>6, <2>1
  <2> QED BY <1>3, <1>4, <1>0, <2>2
<1>8. PICK x \in S \ First(m - 1) : ahead[x] \cap (S \ First(m - 1)) = {}
  <2> DEFINE rest == S \ First(m - 1)
  <2>1. rest \subseteq S /\ rest # {}
    BY <1>7
  <2>2. \E x \in rest : ahead[x] \cap rest = {}
    <3> HIDE DEF rest
    <3> QED BY <2>1, FirstOfPart
  <2> QED BY <2>2
<1>9. ahead[x] \subseteq First(m - 1)
  BY <1>8 DEF StrictOrder
<1>10. CASE Cardinality(ahead[x]) < m
  <2>1. First(m - 1) \cup {x} \subseteq First(m)
    BY <1>6, <1>10
  <2>2. Cardinality(First(m - 1) \cup {x}) = Cardinality(First(m - 1)) + 1
    BY <1>1, <1>4, <1>8, FS_AddElement
  <2>3. Cardinality(First(m - 1) \cup {x}) <= Cardinality(First(m))
    BY <1>1, <1>4, <2>1, FS_Subset
  <2> HIDE DEF First
  <2> QED BY <1>1, <1>3, <1>4, <1>5, <2>2, <2>3
<1>11. CASE ~(Cardinality(ahead[x]) < m)
  <2>1. Cardinality(ahead[x]) <= Cardinality(First(m))
    <3>1. ahead[x] \subseteq First(m)
      BY <1>6, <1>9
    <3> QED BY <1>1, <1>4, <3>1, FS_Subset
  <2>2. Cardinality(ahead[x]) \in Nat
    BY <1>8, FewerAhead
  <2> HIDE DEF First
  <2> QED BY <1>1, <1>3, <1>4, <1>11, <2>1, <2>2
<1> QED BY <1>10, <1>11

\* A non-empty finite set of integers has a greatest element.
LEMMA GreatestInteger ==
    ASSUME NEW S, S \subseteq Int, IsFiniteSet(S), S # {}
    PROVE  \E x \in S : \A y \in S : y <= x
<1> DEFINE above == [x \in S |-> {y \in S : y > x}]
<1>1. StrictOrder(S, above)
  <2>1. above \in [S -> SUBSET S]
    OBVIOUS
  <2>2. \A x \in S : x \notin above[x]
    OBVIOUS
  <2>3. ASSUME NEW x \in S, NEW y \in above[x] PROVE above[y] \subseteq above[x]
    <3>1. y \in S /\ y > x
      BY <2>3
    <3>2. above[y] = {z \in S : z > y} /\ above[x] = {z \in S : z > x}
      BY <3>1
    <3>3. \A z \in S : z > y => z > x
      BY <3>1
    <3> HIDE DEF above
    <3> QED BY <3>2, <3>3
  <2> QED BY <2>1, <2>2, <2>3 DEF StrictOrder
<1>2. PICK x \in S : above[x] \cap S = {}
  <2> HIDE DEF above
  <2> QED BY <1>1, FirstOfPart
<1>3. \A y \in S : ~(y > x)
  BY <1>2
<1> QED BY <1>3

\* A non-empty finite set of integers has a least element.
LEMMA LeastInteger ==
    ASSUME NEW S, S \subseteq Int, IsFiniteSet(S), S # {}
    PROVE  \E x \in S : \A y \in S : x <= y
<1> DEFINE below == [x \in S |-> {y \in S : y < x}]
<1>1. StrictOrder(S, below)
  <2>1. below \in [S -> SUBSET S]
    OBVIOUS
  <2>2. \A x \in S : x \notin below[x]
    OBVIOUS
  <2>3. ASSUME NEW x \in S, NEW y \in below[x] PROVE below[y] \subseteq below[x]
    <3>1. y \in S /\ y < x
      BY <2>3
    <3>2. below[y] = {z \in S : z < y} /\ below[x] = {z \in S : z < x}
      BY <3>1
    <3>3. \A z \in S : z < y => z < x
      BY <3>1
    <3> HIDE DEF below
    <3> QED BY <3>2, <3>3
  <2> QED BY <2>1, <2>2, <2>3 DEF StrictOrder
<1>2. PICK x \in S : below[x] \cap S = {}
  <2> HIDE DEF below
  <2> QED BY <1>1, FirstOfPart
<1>3. \A y \in S : ~(y < x)
  BY <1>2
<1> QED BY <1>3

\* In a total order at most n elements have fewer than n ahead of them.
LEMMA FirstFew ==
    ASSUME NEW S, IsFiniteSet(S), NEW ahead, StrictOrder(S, ahead),
           \A x, y \in S : x # y => x \in ahead[y] \/ y \in ahead[x],
           NEW n \in Nat
    PROVE  Cardinality({x \in S : Cardinality(ahead[x]) < n}) <= n
<1> DEFINE first == {x \in S : Cardinality(ahead[x]) < n}
           place == [x \in first |-> Cardinality(ahead[x])]
<1>1. IsFiniteSet(0..(n - 1)) /\ Cardinality(0..(n - 1)) = n
  BY FS_Interval
<1>2. \A x \in first : Cardinality(ahead[x]) \in 0..(n - 1)
  BY FewerAhead
<1>3. ASSUME NEW x \in first, NEW y \in first, place[x] = place[y] PROVE x = y
  <2>1. place[x] = Cardinality(ahead[x]) /\ place[y] = Cardinality(ahead[y])
    OBVIOUS
  <2>2. x \in S /\ y \in S
    OBVIOUS
  <2> HIDE DEF place, first
  <2>3. \A u \in ahead[x] : Cardinality(ahead[u]) < Cardinality(ahead[x])
    BY <2>2, FewerAhead
  <2>4. \A u \in ahead[y] : Cardinality(ahead[u]) < Cardinality(ahead[y])
    BY <2>2, FewerAhead
  <2>5. Cardinality(ahead[x]) \in Nat /\ Cardinality(ahead[y]) \in Nat
    BY <2>2, FewerAhead
  <2>6. Cardinality(ahead[x]) = Cardinality(ahead[y])
    BY <1>3, <2>1
  <2>7. ASSUME x \in ahead[y] PROVE FALSE
    BY <2>4, <2>5, <2>6, <2>7
  <2>8. ASSUME y \in ahead[x] PROVE FALSE
    BY <2>3, <2>5, <2>6, <2>8
  <2> QED BY <2>2, <2>7, <2>8
<1>4. place \in Injection(first, 0..(n - 1))
  <2>1. place \in [first -> 0..(n - 1)]
    BY <1>2
  <2> HIDE DEF place, first
  <2> QED BY <1>3, <2>1 DEF Injection, IsInjective
<1>5. Cardinality(first) <= Cardinality(0..(n - 1))
  <2> HIDE DEF place, first
  <2> QED BY <1>1, <1>4, FS_Injection
<1> QED BY <1>1, <1>5

\* Behind one with n ahead of it come n others, none of which has all of these ahead of it.
LEMMA FullPage ==
    ASSUME NEW S, IsFiniteSet(S), NEW ahead, StrictOrder(S, ahead),
           NEW n \in Nat \ {0}, NEW r \in S, ~(Cardinality(ahead[r]) < n)
    PROVE  LET first == {x \in S : Cardinality(ahead[x]) < n}
           IN  /\ Cardinality(first) >= n /\ first # {}
               /\ \A x \in first : ~(ahead[r] \subseteq ahead[x])
<1> DEFINE first == {x \in S : Cardinality(ahead[x]) < n}
<1>1. IsFiniteSet(ahead[r]) /\ Cardinality(ahead[r]) \in Nat /\ ahead[r] \subseteq S
  BY FewerAhead DEF StrictOrder
<1>2. Cardinality(ahead[r]) <= Cardinality(S) /\ Cardinality(S) \in Nat
  BY <1>1, FS_Subset, FS_CardinalityType
<1>3. n <= Cardinality(S)
  BY <1>1, <1>2
<1>4. Cardinality(first) >= n
  BY <1>3, FirstMany
<1>5. first # {}
  <2>1. Cardinality({}) = 0
    BY FS_EmptySet
  <2> HIDE DEF first
  <2> QED BY <1>4, <2>1
<1>6. ASSUME NEW x \in first PROVE ~(ahead[r] \subseteq ahead[x])
  <2>1. x \in S /\ Cardinality(ahead[x]) < n
    OBVIOUS
  <2>2. IsFiniteSet(ahead[x]) /\ Cardinality(ahead[x]) \in Nat
    BY <2>1, FewerAhead
  <2>3. ASSUME ahead[r] \subseteq ahead[x] PROVE FALSE
    <3>1. Cardinality(ahead[r]) <= Cardinality(ahead[x])
      BY <2>2, <2>3, FS_Subset
    <3> QED BY <1>1, <2>1, <2>2, <3>1
  <2> QED BY <2>3
<1> QED BY <1>4, <1>5, <1>6

=============================================================================
