----------------------------- MODULE FiniteOrders -----------------------------
(***************************************************************************)
(* Facts about finite sets and natural numbers that the proofs about lists *)
(* and caps rest on: finite sets have minimal, smallest and greatest       *)
(* elements, a set cut off at a number of elements has no more, and what   *)
(* holds of 0 and of each next number holds of all (AllNumbers), so that a *)
(* function can be defined by what it does next (Iteration).               *)
(***************************************************************************)
EXTENDS Integers, FiniteSetTheorems, TLAPS

\* A non-empty set of subsets of a finite set has a minimal one.
LEMMA MinimalSubset ==
  ASSUME NEW S, IsFiniteSet(S), NEW T \in SUBSET SUBSET S, T # {}
  PROVE  \E n \in T : \A m \in T : m \subseteq n => m = n
<1>1. IsWellFoundedOn(StrictSubsetOrdering(S), SUBSET S)
  BY FS_StrictSubsetOrderingWellFounded, FS_FiniteSubsetsOfFinite
<1>2. PICK n \in T : \A m \in T : <<m, n>> \notin StrictSubsetOrdering(S)
  BY <1>1, WFMin
<1> QED
  BY <1>2 DEF StrictSubsetOrdering

\* A finite set with a transitive relation in which nothing precedes itself has
\* an element that nothing precedes.
LEMMA FirstElement ==
  ASSUME NEW S, IsFiniteSet(S), S # {}, NEW R,
         \A x \in S : <<x, x>> \notin R,
         \A x, y, z \in S : <<x, y>> \in R /\ <<y, z>> \in R => <<x, z>> \in R
  PROVE  \E m \in S : \A x \in S : <<x, m>> \notin R
<1> DEFINE upTo(m) == {x \in S : <<x, m>> \in R} \cup {m}
           T == {upTo(m) : m \in S}
<1>1. T \in SUBSET SUBSET S /\ T # {}
  <2>1. \A m \in S : upTo(m) \in SUBSET S
    OBVIOUS
  <2> HIDE DEF upTo
  <2> QED BY <2>1
<1>2. PICK n \in T : \A m \in T : m \subseteq n => m = n
  <2> HIDE DEF T
  <2> QED BY <1>1, MinimalSubset
<1>3. PICK m \in S : n = upTo(m)
  BY <1>2
<1>4. ASSUME NEW x \in S, <<x, m>> \in R
      PROVE  FALSE
  <2>1. upTo(x) \subseteq upTo(m)
    BY <1>4
  <2>2. upTo(x) = upTo(m)
    <3> HIDE DEF upTo
    <3> QED BY <1>2, <1>3, <2>1
  <2>3. m \in upTo(x)
    BY <2>2
  <2>4. m # x
    BY <1>4
  <2>5. <<m, x>> \in R
    BY <2>3, <2>4
  <2> QED BY <1>4, <2>5
<1> QED
  BY <1>4

LEMMA SmallestNumber ==
  ASSUME NEW S \in SUBSET Nat, S # {}
  PROVE  \E m \in S : \A x \in S : m <= x
<1>1. PICK top \in S : TRUE
  OBVIOUS
<1> DEFINE T == S \cap (0..top)
           R == {p \in Nat \X Nat : p[1] < p[2]}
<1>2. IsFiniteSet(T) /\ T # {}
  <2>1. top \in T
    BY <1>1
  <2>2. IsFiniteSet(0..top)
    BY <1>1, FS_Interval
  <2> QED BY <2>1, <2>2, FS_Subset
<1>3. \A x, y \in T : <<x, y>> \in R <=> x < y
  OBVIOUS
<1>4. /\ \A x \in T : <<x, x>> \notin R
      /\ \A x, y, z \in T : <<x, y>> \in R /\ <<y, z>> \in R => <<x, z>> \in R
  OBVIOUS
<1>5. PICK m \in T : \A x \in T : <<x, m>> \notin R
  <2> HIDE DEF T, R
  <2> QED BY <1>2, <1>4, FirstElement
<1>6. \A x \in T : m <= x
  <2> TAKE x \in T
  <2>1. <<x, m>> \notin R
    BY <1>5
  <2>2. ~(x < m)
    BY <1>3, <2>1
  <2> QED BY <2>2
<1>7. \A x \in S \ T : m <= x
  OBVIOUS
<1> QED
  BY <1>6, <1>7

LEMMA GreatestNumber ==
  ASSUME NEW S \in SUBSET Nat, S # {}, IsFiniteSet(S)
  PROVE  \E m \in S : \A x \in S : x <= m
<1> DEFINE R == {p \in Nat \X Nat : p[2] < p[1]}
<1>1. \A x, y \in S : <<x, y>> \in R <=> y < x
  OBVIOUS
<1>2. /\ \A x \in S : <<x, x>> \notin R
      /\ \A x, y, z \in S : <<x, y>> \in R /\ <<y, z>> \in R => <<x, z>> \in R
  OBVIOUS
<1>3. PICK m \in S : \A x \in S : <<x, m>> \notin R
  <2> HIDE DEF R
  <2> QED BY <1>2, FirstElement
<1>4. \A x \in S : ~(m < x)
  BY <1>1, <1>3
<1> QED
  BY <1>4

\* The elements with at most cap others up to them are no more than cap.
LEMMA CutOff ==
  ASSUME NEW S \in SUBSET Nat, IsFiniteSet(S), NEW cap \in Nat
  PROVE  LET kept == {k \in S : Cardinality({j \in S : j <= k}) <= cap}
         IN  IsFiniteSet(kept) /\ Cardinality(kept) <= cap
<1> DEFINE kept == {k \in S : Cardinality({j \in S : j <= k}) <= cap}
<1>1. IsFiniteSet(kept)
  BY FS_Subset
<1>2. ASSUME kept = {}
      PROVE  Cardinality(kept) <= cap
  <2> HIDE DEF kept
  <2>1. Cardinality(kept) = 0
    BY <1>2, FS_EmptySet
  <2> QED BY <2>1
<1>3. ASSUME kept # {}
      PROVE  Cardinality(kept) <= cap
  <2>1. PICK m \in kept : \A k \in kept : k <= m
    <3> kept \in SUBSET Nat
      OBVIOUS
    <3> HIDE DEF kept
    <3> QED BY <1>1, <1>3, GreatestNumber
  <2> DEFINE upTo == {j \in S : j <= m}
  <2>2. IsFiniteSet(upTo) /\ kept \subseteq upTo /\ Cardinality(upTo) <= cap
    BY <2>1, FS_Subset
  <2> HIDE DEF kept, upTo
  <2>3. Cardinality(kept) <= Cardinality(upTo)
    BY <2>2, FS_Subset
  <2>4. Cardinality(kept) \in Nat /\ Cardinality(upTo) \in Nat
    BY <1>1, <2>2, FS_CardinalityType
  <2> QED BY <2>2, <2>3, <2>4
<1> QED
  BY <1>1, <1>2, <1>3

\* Induction, over a set.
LEMMA AllNumbers ==
  ASSUME NEW S \in SUBSET Nat, 0 \in S, \A n \in S : n + 1 \in S
  PROVE  \A n \in Nat : n \in S
<1> SUFFICES ASSUME Nat \ S # {}
             PROVE  FALSE
  OBVIOUS
<1>1. PICK m \in Nat \ S : \A x \in Nat \ S : m <= x
  BY SmallestNumber
<1>2. m - 1 \in Nat /\ ~(m <= m - 1)
  BY <1>1
<1>3. m - 1 \in S
  BY <1>1, <1>2
<1> QED
  BY <1>1, <1>2, <1>3

\* A function can be applied again and again.
LEMMA Iteration ==
  ASSUME NEW X, NEW start \in X, NEW F \in [X -> X]
  PROVE  \E f \in [Nat -> X] : f = [i \in Nat |-> IF i = 0 THEN start ELSE F[f[i - 1]]]
<1> DEFINE Partial(n) == {p \in [0..n -> X] :
                            p[0] = start /\ \A i \in 1..n : p[i] = F[p[i - 1]]}
<1>1. \A n \in Nat : Partial(n) # {}
  <2> DEFINE S == {n \in Nat : Partial(n) # {}}
  <2>1. 0 \in S
    <3>1. [i \in 0..0 |-> start] \in Partial(0)
      OBVIOUS
    <3> QED BY <3>1
  <2>2. ASSUME NEW n \in S
        PROVE  n + 1 \in S
    <3>1. PICK p : p \in Partial(n)
      OBVIOUS
    <3> DEFINE q == [i \in 0..(n + 1) |-> IF i = n + 1 THEN F[p[n]] ELSE p[i]]
    <3>2. q \in [0..(n + 1) -> X]
      BY <3>1
    <3>3. q[0] = start
      BY <3>1
    <3>4. ASSUME NEW i \in 1..(n + 1)
          PROVE  q[i] = F[q[i - 1]]
      <4>1. CASE i = n + 1
        BY <4>1
      <4>2. CASE i \in 1..n
        BY <3>1, <4>2
      <4> QED BY <4>1, <4>2
    <3>5. q \in Partial(n + 1)
      <4> HIDE DEF q
      <4> QED BY <3>2, <3>3, <3>4
    <3> HIDE DEF Partial
    <3> QED BY <3>5
  <2> HIDE DEF S
  <2>3. \A n \in Nat : n \in S
    BY <2>1, <2>2, AllNumbers DEF S
  <2> QED BY <2>3 DEF S
<1>2. ASSUME NEW m \in Nat, NEW n \in Nat, NEW p \in Partial(m), NEW q \in Partial(n)
      PROVE  \A i \in Nat : i <= m /\ i <= n => p[i] = q[i]
  <2> DEFINE S == {i \in Nat : i <= m /\ i <= n => p[i] = q[i]}
  <2>1. 0 \in S
    OBVIOUS
  <2>2. ASSUME NEW i \in S
        PROVE  i + 1 \in S
    <3> SUFFICES ASSUME i + 1 <= m, i + 1 <= n
                 PROVE  p[i + 1] = q[i + 1]
      OBVIOUS
    <3>1. p[i] = q[i] /\ i + 1 \in 1..m /\ i + 1 \in 1..n /\ (i + 1) - 1 = i
      OBVIOUS
    <3>2. p[i + 1] = F[p[(i + 1) - 1]] /\ q[i + 1] = F[q[(i + 1) - 1]]
      BY <3>1
    <3> QED BY <3>1, <3>2
  <2> HIDE DEF S
  <2>3. \A i \in Nat : i \in S
    BY <2>1, <2>2, AllNumbers DEF S
  <2> QED BY <2>3 DEF S
<1> DEFINE part(n) == CHOOSE p : p \in Partial(n)
           f == [n \in Nat |-> part(n)[n]]
<1>3. \A n \in Nat : part(n) \in Partial(n)
  <2> HIDE DEF Partial
  <2> QED BY <1>1
<1> HIDE DEF part
<1>4. f \in [Nat -> X]
  BY <1>3
<1>5. f[0] = start
  BY <1>3
<1>6. ASSUME NEW i \in Nat, i # 0
      PROVE  f[i] = F[f[i - 1]]
  <2>1. i \in 1..i /\ i - 1 \in Nat /\ i - 1 <= i
    BY <1>6
  <2>2. part(i)[i] = F[part(i)[i - 1]]
    BY <1>3, <2>1
  <2>3. part(i)[i - 1] = part(i - 1)[i - 1]
    <3> HIDE DEF Partial
    <3> QED BY <1>2, <1>3, <2>1
  <2> QED BY <2>1, <2>2, <2>3
<1> HIDE DEF f
<1>7. f = [i \in Nat |-> IF i = 0 THEN start ELSE F[f[i - 1]]]
  BY <1>4, <1>5, <1>6
<1> QED
  BY <1>4, <1>7

=============================================================================
