---------------------------- MODULE FindingsProofs ----------------------------
(***************************************************************************)
(* The ranking of findings is what it says it is, for all graphs and lists *)
(* of findings: the passes lose nothing, the most severe finding comes     *)
(* first, dependencies precede dependents, and the result does not depend  *)
(* on the order of evaluation.                                             *)
(***************************************************************************)
EXTENDS Findings, FiniteOrders, SequenceTheorems

-----------------------------------------------------------------------------
(* Arranged: every element of the set has a place of its own.              *)

StrictTotal(S, R) ==
  /\ \A x \in S : <<x, x>> \notin R
  /\ \A x, y, z \in S : <<x, y>> \in R /\ <<y, z>> \in R => <<x, z>> \in R
  /\ \A x, y \in S : x = y \/ <<x, y>> \in R \/ <<y, x>> \in R

LEMMA NumberBeforeBound ==
  ASSUME NEW S, IsFiniteSet(S), NEW R, StrictTotal(S, R), NEW i \in S
  PROVE  NumberBefore(S, R, i) \in 0..(Cardinality(S) - 1)
<1> DEFINE before == {j \in S : <<j, i>> \in R}
<1>1. before \in SUBSET S /\ i \notin before
  BY DEF StrictTotal
<1>2. NumberBefore(S, R, i) = Cardinality(before)
  BY DEF NumberBefore
<1> HIDE DEF before
<1>3. /\ Cardinality(before) <= Cardinality(S)
      /\ Cardinality(before) # Cardinality(S)
      /\ IsFiniteSet(before)
  BY <1>1, FS_Subset
<1>4. Cardinality(before) \in Nat /\ Cardinality(S) \in Nat
  BY <1>3, FS_CardinalityType
<1> QED
  BY <1>2, <1>3, <1>4

LEMMA NumberBeforeGrows ==
  ASSUME NEW S, IsFiniteSet(S), NEW R, StrictTotal(S, R),
         NEW i \in S, NEW j \in S, <<i, j>> \in R
  PROVE  NumberBefore(S, R, i) < NumberBefore(S, R, j)
<1> DEFINE before(k) == {l \in S : <<l, k>> \in R}
<1>1. before(i) \in SUBSET before(j)
  BY DEF StrictTotal
<1>2. i \in before(j) /\ i \notin before(i)
  BY DEF StrictTotal
<1>3. /\ NumberBefore(S, R, i) = Cardinality(before(i))
      /\ NumberBefore(S, R, j) = Cardinality(before(j))
  BY DEF NumberBefore
<1>4. before(j) \in SUBSET S
  OBVIOUS
<1> HIDE DEF before
<1>5. IsFiniteSet(before(j)) /\ IsFiniteSet(before(i))
  BY <1>1, <1>4, FS_Subset
<1>6. /\ Cardinality(before(i)) <= Cardinality(before(j))
      /\ Cardinality(before(i)) # Cardinality(before(j))
  BY <1>1, <1>2, <1>5, FS_Subset
<1>7. Cardinality(before(i)) \in Nat /\ Cardinality(before(j)) \in Nat
  BY <1>5, FS_CardinalityType
<1> QED
  BY <1>3, <1>6, <1>7

\* Each place is taken by one element, in the order of R.
LEMMA ArrangedInOrder ==
  ASSUME NEW S, IsFiniteSet(S), NEW R, StrictTotal(S, R)
  PROVE  LET n == Cardinality(S)
             place == Arranged(S, R)
         IN  /\ n \in Nat
             /\ DOMAIN place = 1..n
             /\ \A k \in 1..n : place[k] \in S /\ NumberBefore(S, R, place[k]) = k - 1
             /\ \A i \in S : \E k \in 1..n : place[k] = i
             /\ \A j, k \in 1..n : j < k => <<place[j], place[k]>> \in R
<1> DEFINE n == Cardinality(S)
           place == Arranged(S, R)
           number == [i \in S |-> NumberBefore(S, R, i)]
<1>1. n \in Nat
  BY FS_CardinalityType
<1>2. \A i \in S : NumberBefore(S, R, i) \in 0..(n - 1)
  BY NumberBeforeBound
<1>3. \A i, j \in S : <<i, j>> \in R => NumberBefore(S, R, i) < NumberBefore(S, R, j)
  BY NumberBeforeGrows
<1>4. \A i, j \in S : NumberBefore(S, R, i) = NumberBefore(S, R, j) => i = j
  <2> TAKE i, j \in S
  <2>1. NumberBefore(S, R, i) \in Int /\ NumberBefore(S, R, j) \in Int
    BY <1>1, <1>2
  <2>2. i = j \/ <<i, j>> \in R \/ <<j, i>> \in R
    BY DEF StrictTotal
  <2> QED BY <1>3, <2>1, <2>2
<1>5. number \in Injection(S, 0..(n - 1))
  BY <1>2, <1>4 DEF Injection, IsInjective
<1>6. IsFiniteSet(0..(n - 1)) /\ Cardinality(0..(n - 1)) = n
  BY <1>1, FS_Interval
<1>7. number \in Surjection(S, 0..(n - 1))
  <2> HIDE DEF number
  <2> QED BY <1>5, <1>6, FS_Injection
<1>8. \A m \in 0..(n - 1) : \E i \in S : NumberBefore(S, R, i) = m
  BY <1>7 DEF Surjection
<1>9. DOMAIN place = 1..n
  BY DEF Arranged
<1>10. \A k \in 1..n : place[k] \in S /\ NumberBefore(S, R, place[k]) = k - 1
  <2> TAKE k \in 1..n
  <2>1. k - 1 \in 0..(n - 1)
    BY <1>1
  <2>2. place[k] = CHOOSE i \in S : NumberBefore(S, R, i) = k - 1
    BY DEF Arranged
  <2> HIDE DEF place
  <2> QED BY <1>8, <2>1, <2>2
<1> HIDE DEF place
<1>11. \A i \in S : \E k \in 1..n : place[k] = i
  <2> TAKE i \in S
  <2>1. NumberBefore(S, R, i) \in 0..(n - 1)
    BY <1>2
  <2>2. /\ NumberBefore(S, R, i) + 1 \in 1..n
        /\ (NumberBefore(S, R, i) + 1) - 1 = NumberBefore(S, R, i)
    BY <1>1, <2>1
  <2>3. place[NumberBefore(S, R, i) + 1] = i
    BY <1>4, <1>10, <2>2
  <2> QED BY <2>2, <2>3
<1>12. \A j, k \in 1..n : j < k => <<place[j], place[k]>> \in R
  <2> TAKE j, k \in 1..n
  <2> HAVE j < k
  <2>1. /\ place[j] \in S /\ place[k] \in S
        /\ NumberBefore(S, R, place[j]) = j - 1 /\ NumberBefore(S, R, place[k]) = k - 1
    BY <1>10
  <2>2. j - 1 < k - 1 /\ j \in Int /\ k \in Int
    OBVIOUS
  <2>3. place[j] # place[k]
    BY <2>1, <2>2
  <2>4. <<place[k], place[j]>> \notin R
    BY <1>3, <2>1, <2>2
  <2> QED BY <2>1, <2>3, <2>4 DEF StrictTotal
<1> QED
  BY <1>1, <1>9, <1>10, <1>11, <1>12 DEF place

-----------------------------------------------------------------------------
(* The order of sortFindings: five numbers, compared one after the other.  *)

HasKey(b, f) ==
  /\ f.sev \in Int /\ f.corr \in Int /\ b[f.res] \in Int /\ f.conf \in Int
  /\ IdRank[f.id] \in Int

SameKey(b, x, y) ==
  /\ x.sev = y.sev /\ x.corr = y.corr /\ b[x.res] = b[y.res] /\ x.conf = y.conf
  /\ IdRank[x.id] = IdRank[y.id]

LEMMA BeforeCompares ==
  ASSUME NEW b, NEW x, NEW y, HasKey(b, x), HasKey(b, y)
  PROVE  Before(b, x, y) <=>
           \/ x.sev > y.sev
           \/ x.sev = y.sev /\ x.corr > y.corr
           \/ x.sev = y.sev /\ x.corr = y.corr /\ b[x.res] > b[y.res]
           \/ x.sev = y.sev /\ x.corr = y.corr /\ b[x.res] = b[y.res] /\ x.conf > y.conf
           \/ /\ x.sev = y.sev /\ x.corr = y.corr /\ b[x.res] = b[y.res] /\ x.conf = y.conf
              /\ IdRank[x.id] < IdRank[y.id]
<1> DEFINE p == Precedence(b, x)
           q == Precedence(b, y)
<1>1. /\ p = <<x.sev, x.corr, b[x.res], x.conf, -IdRank[x.id]>>
      /\ q = <<y.sev, y.corr, b[y.res], y.conf, -IdRank[y.id]>>
  BY DEF Precedence
<1>2. DOMAIN p = 1..5
  BY <1>1
<1>3. /\ p[1] = x.sev /\ p[2] = x.corr /\ p[3] = b[x.res] /\ p[4] = x.conf
      /\ p[5] = -IdRank[x.id]
      /\ q[1] = y.sev /\ q[2] = y.corr /\ q[3] = b[y.res] /\ q[4] = y.conf
      /\ q[5] = -IdRank[y.id]
  BY <1>1
<1> HIDE DEF p, q
<1>4. Before(b, x, y) <=> \E i \in 1..5 : p[i] > q[i] /\ \A k \in 1..(i - 1) : p[k] = q[k]
  BY <1>2 DEF Before, p, q
<1>5. Before(b, x, y) <=>
        \/ p[1] > q[1]
        \/ p[1] = q[1] /\ p[2] > q[2]
        \/ p[1] = q[1] /\ p[2] = q[2] /\ p[3] > q[3]
        \/ p[1] = q[1] /\ p[2] = q[2] /\ p[3] = q[3] /\ p[4] > q[4]
        \/ p[1] = q[1] /\ p[2] = q[2] /\ p[3] = q[3] /\ p[4] = q[4] /\ p[5] > q[5]
  <2>1. \A i \in 1..5 : i = 1 \/ i = 2 \/ i = 3 \/ i = 4 \/ i = 5
    OBVIOUS
  <2>2. /\ 1..(1 - 1) = {} /\ 1..(2 - 1) = {1} /\ 1..(3 - 1) = {1, 2}
        /\ 1..(4 - 1) = {1, 2, 3} /\ 1..(5 - 1) = {1, 2, 3, 4}
    OBVIOUS
  <2> QED BY <1>4, <2>1, <2>2
<1> QED
  BY <1>3, <1>5 DEF HasKey

LEMMA BeforeIsWeakOrder ==
  ASSUME NEW b, NEW x, NEW y, NEW z, HasKey(b, x), HasKey(b, y), HasKey(b, z)
  PROVE  /\ ~Before(b, x, x)
         /\ Before(b, x, y) => ~Before(b, y, x)
         /\ Before(b, x, y) /\ Before(b, y, z) => Before(b, x, z)
         /\ ~Before(b, x, y) /\ ~Before(b, y, z) => ~Before(b, x, z)
         /\ ~Before(b, x, y) /\ ~Before(b, y, x) => SameKey(b, x, y)
  BY BeforeCompares DEF HasKey, SameKey

-----------------------------------------------------------------------------
(* The two passes that rearrange the list.                                 *)

\* Precedence, and the place in the list where it does not decide, is a total
\* order on the places of the list.
LEMMA SortedOrderIsTotal ==
  ASSUME NEW b, NEW n \in Nat, NEW fs, DOMAIN fs = 1..n, \A i \in 1..n : HasKey(b, fs[i])
  PROVE  StrictTotal(1..n, Earlier(b, fs))
<1> DEFINE earlier == Earlier(b, fs)
<1>0. \A i, j \in 1..n : <<i, j>> \in earlier <=>
        Before(b, fs[i], fs[j]) \/ (~Before(b, fs[j], fs[i]) /\ i < j)
  BY DEF Earlier
<1> HIDE DEF earlier
<1>1. \A x \in 1..n : <<x, x>> \notin earlier
  BY <1>0, BeforeIsWeakOrder
<1>2. ASSUME NEW x \in 1..n, NEW y \in 1..n, NEW z \in 1..n,
             <<x, y>> \in earlier, <<y, z>> \in earlier
      PROVE  <<x, z>> \in earlier
  <2>1. /\ Before(b, fs[x], fs[y]) \/ (~Before(b, fs[y], fs[x]) /\ x < y)
        /\ Before(b, fs[y], fs[z]) \/ (~Before(b, fs[z], fs[y]) /\ y < z)
    BY <1>0, <1>2
  <2>2. HasKey(b, fs[x]) /\ HasKey(b, fs[y]) /\ HasKey(b, fs[z])
    OBVIOUS
  <2>3. /\ Before(b, fs[x], fs[y]) => ~Before(b, fs[y], fs[x])
        /\ Before(b, fs[y], fs[z]) => ~Before(b, fs[z], fs[y])
    BY <2>2, BeforeIsWeakOrder
  <2>4. ~Before(b, fs[z], fs[x])
    BY <2>1, <2>2, <2>3, BeforeIsWeakOrder
  <2>5. CASE x < z
    BY <1>0, <2>4, <2>5
  <2>6. CASE ~(x < z)
    <3>1. ~(x < y) \/ ~(y < z)
      BY <2>6
    <3>2. Before(b, fs[x], fs[y]) \/ Before(b, fs[y], fs[z])
      BY <2>1, <3>1
    <3>3. ASSUME ~Before(b, fs[x], fs[z])
          PROVE  FALSE
      <4>1. CASE Before(b, fs[x], fs[y])
        BY <2>2, <2>3, <2>1, <3>3, <4>1, BeforeIsWeakOrder
      <4>2. CASE Before(b, fs[y], fs[z])
        BY <2>2, <2>3, <2>1, <3>3, <4>2, BeforeIsWeakOrder
      <4> QED BY <3>2, <4>1, <4>2
    <3> QED BY <1>0, <3>3
  <2> QED BY <2>5, <2>6
<1>3. \A x, y \in 1..n : x = y \/ <<x, y>> \in earlier \/ <<y, x>> \in earlier
  <2> TAKE x, y \in 1..n
  <2>1. x = y \/ x < y \/ y < x
    OBVIOUS
  <2> QED BY <1>0, <2>1
<1> QED
  BY <1>1, <1>2, <1>3 DEF StrictTotal, earlier

\* sortFindings puts no finding before one that precedes it.
LEMMA SortedInOrder ==
  ASSUME NEW b, NEW n \in Nat, NEW fs, DOMAIN fs = 1..n, \A i \in 1..n : HasKey(b, fs[i])
  PROVE  LET sorted == sortFindings(b, fs)
         IN  /\ DOMAIN sorted = 1..n
             /\ \A k \in 1..n : \E i \in 1..n : sorted[k] = fs[i]
             /\ \A i \in 1..n : \E k \in 1..n : sorted[k] = fs[i]
             /\ \A j, k \in 1..n : j < k => ~Before(b, sorted[k], sorted[j])
<1> DEFINE place == Arranged(1..n, Earlier(b, fs))
           sorted == sortFindings(b, fs)
<1>1. \A i, j \in 1..n : <<i, j>> \in Earlier(b, fs) <=>
        Before(b, fs[i], fs[j]) \/ (~Before(b, fs[j], fs[i]) /\ i < j)
  BY DEF Earlier
<1>2. StrictTotal(1..n, Earlier(b, fs))
  BY SortedOrderIsTotal
<1>3. IsFiniteSet(1..n) /\ Cardinality(1..n) = n
  BY FS_Interval
<1>4. /\ DOMAIN place = 1..n
      /\ \A k \in 1..n : place[k] \in 1..n
      /\ \A i \in 1..n : \E k \in 1..n : place[k] = i
      /\ \A j, k \in 1..n : j < k => <<place[j], place[k]>> \in Earlier(b, fs)
  <2> HIDE DEF place
  <2>1. LET m == Cardinality(1..n)
        IN  /\ DOMAIN place = 1..m
            /\ \A k \in 1..m : place[k] \in 1..n
            /\ \A i \in 1..n : \E k \in 1..m : place[k] = i
            /\ \A j, k \in 1..m : j < k => <<place[j], place[k]>> \in Earlier(b, fs)
    BY <1>2, <1>3, ArrangedInOrder DEF place
  <2> QED BY <1>3, <2>1
<1>5. sorted = [k \in DOMAIN place |-> fs[place[k]]]
  BY DEF sortFindings
<1> HIDE DEF place, sorted
<1>6. DOMAIN sorted = 1..n /\ \A k \in 1..n : sorted[k] = fs[place[k]]
  BY <1>4, <1>5
<1>7. \A j, k \in 1..n : j < k => ~Before(b, sorted[k], sorted[j])
  <2> SUFFICES ASSUME NEW j \in 1..n, NEW k \in 1..n, j < k
               PROVE  ~Before(b, fs[place[k]], fs[place[j]])
    BY <1>6
  <2>1. place[j] \in 1..n /\ place[k] \in 1..n /\ <<place[j], place[k]>> \in Earlier(b, fs)
    BY <1>4
  <2>2. \/ Before(b, fs[place[j]], fs[place[k]])
        \/ ~Before(b, fs[place[k]], fs[place[j]])
    BY <1>1, <2>1
  <2> QED BY <2>1, <2>2, BeforeIsWeakOrder
<1> QED
  BY <1>4, <1>6, <1>7 DEF sorted

\* suppressRedundantBuiltinFindings keeps what is not redundant, in its order.
LEMMA KeptInOrder ==
  ASSUME NEW n \in Nat, NEW fs, DOMAIN fs = 1..n
  PROVE  LET kept == suppressRedundantBuiltinFindings(fs)
         IN  \E m \in 0..n : \E place \in [1..m -> 1..n] :
               /\ DOMAIN kept = 1..m
               /\ \A k \in 1..m : kept[k] = fs[place[k]] /\ ~Redundant(fs, kept[k])
               /\ \A i \in 1..n : ~Redundant(fs, fs[i]) => \E k \in 1..m : place[k] = i
               /\ \A j, k \in 1..m : j < k => place[j] < place[k]
<1> DEFINE stay == {i \in DOMAIN fs : ~Redundant(fs, fs[i])}
           R == {p \in stay \X stay : p[1] < p[2]}
           place == Arranged(stay, R)
           m == Cardinality(stay)
           kept == suppressRedundantBuiltinFindings(fs)
<1>1. stay \in SUBSET (1..n)
  OBVIOUS
<1>2. kept = [k \in DOMAIN place |-> fs[place[k]]]
  BY DEF suppressRedundantBuiltinFindings
<1>3. \A i \in stay : ~Redundant(fs, fs[i])
  OBVIOUS
<1>4. \A i \in 1..n : ~Redundant(fs, fs[i]) => i \in stay
  OBVIOUS
<1> HIDE DEF stay
<1>5. \A i, j \in stay : <<i, j>> \in R <=> i < j
  OBVIOUS
<1> HIDE DEF R
<1>6. StrictTotal(stay, R)
  <2>1. stay \in SUBSET Nat
    BY <1>1
  <2> QED BY <1>5, <2>1 DEF StrictTotal
<1>7. IsFiniteSet(stay) /\ m \in 0..n
  <2>1. IsFiniteSet(1..n) /\ Cardinality(1..n) = n
    BY FS_Interval
  <2>2. IsFiniteSet(stay) /\ Cardinality(stay) <= Cardinality(1..n)
    BY <1>1, <2>1, FS_Subset
  <2>3. Cardinality(stay) \in Nat
    BY <2>2, FS_CardinalityType
  <2> QED BY <2>1, <2>2, <2>3
<1> HIDE DEF place
<1>8. /\ DOMAIN place = 1..m
      /\ \A k \in 1..m : place[k] \in stay
      /\ \A i \in stay : \E k \in 1..m : place[k] = i
      /\ \A j, k \in 1..m : j < k => <<place[j], place[k]>> \in R
  BY <1>6, <1>7, ArrangedInOrder DEF place
<1> DEFINE spot == [k \in 1..m |-> place[k]]
<1>9. spot \in [1..m -> 1..n]
  BY <1>1, <1>8
<1> HIDE DEF kept, m
<1>10. /\ DOMAIN kept = 1..m
       /\ \A k \in 1..m : kept[k] = fs[spot[k]] /\ ~Redundant(fs, kept[k])
  BY <1>2, <1>3, <1>8
<1>11. \A i \in 1..n : ~Redundant(fs, fs[i]) => \E k \in 1..m : spot[k] = i
  BY <1>4, <1>8
<1>12. \A j, k \in 1..m : j < k => spot[j] < spot[k]
  BY <1>5, <1>8
<1> HIDE DEF spot
<1> QED
  BY <1>7, <1>9, <1>10, <1>11, <1>12 DEF kept

-----------------------------------------------------------------------------
(* bfsDistance. What is found grows with the rounds until nothing is left  *)
(* to find, which takes no more rounds than there are nodes.               *)

IsGraph(g) == IsFiniteSet(g.node) /\ g.edge \subseteq g.node \X g.node

LEMMA SuccessorsAreNodes ==
  ASSUME NEW g, NEW S, NEW outbound
  PROVE  Successors(g, S, outbound) \subseteq g.node
  BY DEF Successors

LEMMA SuccessorsGrow ==
  ASSUME NEW g, NEW S, NEW T, S \subseteq T, NEW outbound
  PROVE  Successors(g, S, outbound) \subseteq Successors(g, T, outbound)
  BY DEF Successors

LEMMA FoundRounds ==
  ASSUME NEW g, NEW t \in g.node, NEW outbound
  PROVE  LET found == Found(g, t, outbound)
         IN  /\ found \in [Nat -> SUBSET g.node]
             /\ found[0] = {t}
             /\ \A i \in Nat : found[i + 1] = found[i] \cup Successors(g, found[i], outbound)
<1> DEFINE F == [S \in SUBSET g.node |-> S \cup Successors(g, S, outbound)]
           found == Found(g, t, outbound)
<1>1. F \in [SUBSET g.node -> SUBSET g.node]
  BY SuccessorsAreNodes
<1> HIDE DEF F
<1>2. {t} \in SUBSET g.node
  OBVIOUS
<1>3. PICK f \in [Nat -> SUBSET g.node] : f = [i \in Nat |-> IF i = 0 THEN {t} ELSE F[f[i - 1]]]
  <2> DEFINE X == SUBSET g.node
             start == {t}
  <2>1. start \in X /\ F \in [X -> X]
    BY <1>1, <1>2
  <2> HIDE DEF X, start
  <2>2. \E f \in [Nat -> X] : f = [i \in Nat |-> IF i = 0 THEN start ELSE F[f[i - 1]]]
    BY <2>1, Iteration
  <2> QED BY <2>2 DEF X, start
<1>4. f = [i \in Nat |-> IF i = 0 THEN {t} ELSE f[i - 1] \cup Successors(g, f[i - 1], outbound)]
  <2>1. \A i \in Nat : i # 0 => F[f[i - 1]] = f[i - 1] \cup Successors(g, f[i - 1], outbound)
    BY DEF F
  <2> QED BY <1>3, <2>1
<1>5. found = [i \in Nat |-> IF i = 0 THEN {t}
                            ELSE found[i - 1] \cup Successors(g, found[i - 1], outbound)]
  BY <1>4 DEF Found
<1> HIDE DEF found
<1>6. found[0] = {t}
  BY <1>5
<1>7. \A i \in Nat : found[i + 1] = found[i] \cup Successors(g, found[i], outbound)
  <2> TAKE i \in Nat
  <2>1. i + 1 \in Nat /\ i + 1 # 0 /\ (i + 1) - 1 = i
    OBVIOUS
  <2>2. found[i + 1] = found[(i + 1) - 1] \cup Successors(g, found[(i + 1) - 1], outbound)
    BY <1>5, <2>1
  <2> QED BY <2>1, <2>2
<1>8. \A i \in Nat : found[i] \in SUBSET g.node
  <2> DEFINE N == {i \in Nat : found[i] \in SUBSET g.node}
  <2>1. 0 \in N
    BY <1>6
  <2>2. ASSUME NEW i \in N
        PROVE  i + 1 \in N
    BY <1>7, SuccessorsAreNodes
  <2> HIDE DEF N
  <2>3. \A i \in Nat : i \in N
    BY <2>1, <2>2, AllNumbers DEF N
  <2> QED BY <2>3 DEF N
<1>9. found \in [Nat -> SUBSET g.node]
  BY <1>5, <1>8
<1> QED
  BY <1>6, <1>7, <1>9 DEF found

\* Nothing is lost from round to round.
LEMMA FoundGrows ==
  ASSUME NEW g, NEW t \in g.node, NEW outbound, NEW i \in Nat
  PROVE  \A j \in Nat : i <= j =>
           Found(g, t, outbound)[i] \subseteq Found(g, t, outbound)[j]
<1> DEFINE found == Found(g, t, outbound)
           N == {j \in Nat : i <= j => found[i] \subseteq found[j]}
<1>1. \A k \in Nat : found[k] \subseteq found[k + 1]
  BY FoundRounds
<1> HIDE DEF found
<1>2. 0 \in N
  OBVIOUS
<1>3. ASSUME NEW j \in N
      PROVE  j + 1 \in N
  <2>1. CASE i <= j
    BY <1>1, <2>1
  <2>2. CASE i = j + 1
    BY <2>2
  <2> QED BY <2>1, <2>2
<1> HIDE DEF N
<1>4. \A j \in Nat : j \in N
  BY <1>2, <1>3, AllNumbers DEF N
<1> QED
  BY <1>4 DEF N, found

\* Whatever contains the start and the successors of its elements contains all
\* that is found.
LEMMA FoundIsWithin ==
  ASSUME NEW g, NEW t \in g.node, NEW outbound,
         NEW S, t \in S, Successors(g, S, outbound) \subseteq S
  PROVE  \A i \in Nat : Found(g, t, outbound)[i] \subseteq S
<1> DEFINE found == Found(g, t, outbound)
           N == {i \in Nat : found[i] \subseteq S}
<1>1. /\ found[0] = {t}
      /\ \A i \in Nat : found[i + 1] = found[i] \cup Successors(g, found[i], outbound)
  BY FoundRounds
<1> HIDE DEF found
<1>2. 0 \in N
  BY <1>1
<1>3. ASSUME NEW i \in N
      PROVE  i + 1 \in N
  <2>1. Successors(g, found[i], outbound) \subseteq Successors(g, S, outbound)
    BY SuccessorsGrow
  <2> QED BY <1>1, <2>1
<1> HIDE DEF N
<1>4. \A i \in Nat : i \in N
  BY <1>2, <1>3, AllNumbers DEF N
<1> QED
  BY <1>4 DEF N, found

\* As long as there is something to find each round finds a node.
LEMMA FoundEachRound ==
  ASSUME NEW g, IsGraph(g), NEW t \in g.node, NEW outbound
  PROVE  \A i \in Nat : \/ Found(g, t, outbound)[i + 1] = Found(g, t, outbound)[i]
                        \/ Cardinality(Found(g, t, outbound)[i]) > i
<1> DEFINE found == Found(g, t, outbound)
           N == {i \in Nat : found[i + 1] = found[i] \/ Cardinality(found[i]) > i}
<1>1. /\ found \in [Nat -> SUBSET g.node]
      /\ found[0] = {t}
      /\ \A i \in Nat : found[i + 1] = found[i] \cup Successors(g, found[i], outbound)
  BY FoundRounds
<1> HIDE DEF found
<1>2. \A i \in Nat : IsFiniteSet(found[i]) /\ Cardinality(found[i]) \in Nat
  <2> TAKE i \in Nat
  <2>1. IsFiniteSet(found[i])
    BY <1>1, FS_Subset DEF IsGraph
  <2> QED BY <2>1, FS_CardinalityType
<1>3. 0 \in N
  <2>1. Cardinality(found[0]) = 1
    BY <1>1, FS_Singleton
  <2> QED BY <2>1
<1>4. ASSUME NEW i \in N
      PROVE  i + 1 \in N
  <2>1. i \in Nat /\ i + 1 \in Nat /\ (i + 1) + 1 \in Nat
    OBVIOUS
  <2>2. CASE found[i + 1] = found[i]
    <3>1. found[(i + 1) + 1] = found[i + 1] \cup Successors(g, found[i + 1], outbound)
      BY <1>1, <2>1
    <3>2. found[i + 1] = found[i] \cup Successors(g, found[i], outbound)
      BY <1>1, <2>1
    <3> QED BY <2>1, <2>2, <3>1, <3>2
  <2>3. CASE found[i + 1] # found[i] /\ Cardinality(found[i]) > i
    <3>1. found[i] \in SUBSET found[i + 1]
      BY <1>1, <2>1
    <3>2. /\ Cardinality(found[i]) <= Cardinality(found[i + 1])
          /\ Cardinality(found[i]) # Cardinality(found[i + 1])
      BY <1>2, <2>1, <2>3, <3>1, FS_Subset
    <3>3. Cardinality(found[i + 1]) > i + 1
      BY <1>2, <2>1, <2>3, <3>2
    <3> QED BY <2>1, <3>3
  <2> QED BY <2>2, <2>3
<1> HIDE DEF N
<1>5. \A i \in Nat : i \in N
  BY <1>3, <1>4, AllNumbers DEF N
<1> QED
  BY <1>5 DEF N, found

\* After as many rounds as there are nodes nothing is left to find.
LEMMA AllIsFound ==
  ASSUME NEW g, IsGraph(g), NEW t \in g.node, NEW outbound
  PROVE  LET all == Found(g, t, outbound)[Cardinality(g.node)]
         IN  t \in all /\ all \subseteq g.node /\ Successors(g, all, outbound) \subseteq all
<1> DEFINE found == Found(g, t, outbound)
           last == Cardinality(g.node)
<1>1. last \in Nat
  BY FS_CardinalityType DEF IsGraph
<1>2. /\ found \in [Nat -> SUBSET g.node]
      /\ found[0] = {t}
      /\ found[last + 1] = found[last] \cup Successors(g, found[last], outbound)
  BY <1>1, FoundRounds
<1>3. t \in found[last]
  <2>1. found[0] \subseteq found[last]
    BY <1>1, FoundGrows
  <2> QED BY <1>2, <2>1
<1>4. found[last + 1] = found[last] \/ Cardinality(found[last]) > last
  BY <1>1, FoundEachRound
<1> HIDE DEF found
<1>5. Cardinality(found[last]) <= last /\ Cardinality(found[last]) \in Nat
  <2>1. found[last] \in SUBSET g.node
    BY <1>1, <1>2
  <2>2. IsFiniteSet(found[last]) /\ Cardinality(found[last]) <= last
    BY <2>1, FS_Subset DEF IsGraph
  <2> QED BY <2>2, FS_CardinalityType
<1>6. ~(Cardinality(found[last]) > last)
  BY <1>1, <1>5
<1> QED
  BY <1>1, <1>2, <1>3, <1>4, <1>6 DEF found

\* Only the start is at distance 0.
LEMMA Distances ==
  ASSUME NEW g, IsGraph(g), NEW t \in g.node, NEW outbound
  PROVE  LET dist == bfsDistance(g, t, outbound)
         IN  /\ DOMAIN dist = Found(g, t, outbound)[Cardinality(g.node)]
             /\ \A r \in DOMAIN dist : dist[r] \in Nat /\ (dist[r] = 0 <=> r = t)
<1> DEFINE found == Found(g, t, outbound)
           last == Cardinality(g.node)
           dist == bfsDistance(g, t, outbound)
           first(r, i) == r \in found[i] /\ \A j \in 0..(i - 1) : r \notin found[j]
<1>1. last \in Nat
  BY FS_CardinalityType DEF IsGraph
<1>2. dist = [r \in found[last] |-> CHOOSE i \in 0..last : first(r, i)]
  BY DEF bfsDistance
<1>3. found[0] = {t}
  BY FoundRounds
<1> HIDE DEF found, last, dist
<1>4. ASSUME NEW r \in found[last]
      PROVE  \E i \in 0..last : first(r, i)
  <2> DEFINE rounds == {i \in Nat : i <= last /\ r \in found[i]}
  <2>1. last \in rounds
    BY <1>1
  <2>2. PICK i \in rounds : \A j \in rounds : i <= j
    <3> rounds \in SUBSET Nat /\ rounds # {}
      BY <2>1
    <3> HIDE DEF rounds
    <3> QED BY SmallestNumber
  <2>3. \A j \in 0..(i - 1) : r \notin found[j]
    BY <1>1, <2>2
  <2> QED BY <1>1, <2>2, <2>3
<1>5. ASSUME NEW r \in found[last]
      PROVE  dist[r] \in 0..last /\ first(r, dist[r])
  <2> HIDE DEF first
  <2> QED BY <1>2, <1>4
<1>6. ASSUME NEW r \in found[last]
      PROVE  dist[r] \in Nat /\ (dist[r] = 0 <=> r = t)
  <2>1. dist[r] \in Nat /\ r \in found[dist[r]] /\ \A j \in 0..(dist[r] - 1) : r \notin found[j]
    BY <1>1, <1>5
  <2>2. dist[r] # 0 => 0 \in 0..(dist[r] - 1)
    BY <2>1
  <2> QED BY <1>3, <2>1, <2>2
<1>7. DOMAIN dist = found[last]
  BY <1>2
<1> QED
  BY <1>6, <1>7 DEF found, last, dist

\* Everything that is found from the target counts more than the target and
\* than all that is not.
LEMMA BiasBounds ==
  ASSUME NEW g, IsGraph(g), NEW t \in g.node, NEW fs,
         NEW r \in {f.res : f \in ToSet(fs)}
  PROVE  LET bonus == rankRootCauseBias(g, t, fs)
             all == Found(g, t, TRUE)[Cardinality(g.node)]
         IN  /\ bonus[r] \in Int
             /\ r \in all /\ r # t => bonus[r] >= 4
             /\ r \notin all \/ r = t => bonus[r] <= 3
<1> DEFINE out == bfsDistance(g, t, TRUE)
           inb == bfsDistance(g, t, FALSE)
           all == Found(g, t, TRUE)[Cardinality(g.node)]
<1>1. rankRootCauseBias(g, t, fs)[r] = BiasOf(out, inb, r)
  BY DEF rankRootCauseBias
<1>2. /\ DOMAIN out = all
      /\ r \in DOMAIN out => out[r] \in Nat /\ (out[r] = 0 <=> r = t)
      /\ r \in DOMAIN inb => inb[r] \in Nat
  <2>1. \A dir : /\ DOMAIN bfsDistance(g, t, dir) = Found(g, t, dir)[Cardinality(g.node)]
                 /\ \A n \in DOMAIN bfsDistance(g, t, dir) :
                      /\ bfsDistance(g, t, dir)[n] \in Nat
                      /\ bfsDistance(g, t, dir)[n] = 0 <=> n = t
    BY Distances
  <2>3. DOMAIN out = all /\ \A n \in DOMAIN out : out[n] \in Nat /\ (out[n] = 0 <=> n = t)
    BY <2>1, Zenon
  <2>2. \A n \in DOMAIN inb : inb[n] \in Nat
    BY Distances
  <2> QED BY <2>2, <2>3
<1> HIDE DEF out, inb, all
<1> DEFINE forwards == IF r \in DOMAIN out /\ out[r] > 0
                       THEN 4 + (IF out[r] <= 3 THEN 4 - out[r] ELSE 0) ELSE 0
           backwards == IF r \in DOMAIN inb
                        THEN 1 + (IF inb[r] <= 2 THEN 2 - inb[r] ELSE 0) ELSE 0
<1>3. BiasOf(out, inb, r) = forwards + backwards
  BY DEF BiasOf
<1>4. backwards \in 0..3
  BY <1>2
<1>5. forwards \in Nat
  BY <1>2
<1>6. r \in all /\ r # t => forwards >= 4
  BY <1>2
<1>7. r \notin all \/ r = t => forwards = 0
  BY <1>2
<1> HIDE DEF forwards, backwards
<1>8. /\ forwards + backwards \in Int
      /\ r \in all /\ r # t => forwards + backwards >= 4
      /\ r \notin all \/ r = t => forwards + backwards <= 3
  BY <1>4, <1>5, <1>6, <1>7
<1> QED
  BY <1>1, <1>3, <1>8 DEF all

-----------------------------------------------------------------------------
(* The passes in a row, for one list of raw findings.                      *)

Noted(fs) == [i \in DOMAIN fs |-> [fs[i] EXCEPT !.corr = Corroboration(fs[i])]]
Kept(fs) == suppressRedundantBuiltinFindings(Noted(fs))
Bonus(g, fs) == rankRootCauseBias(g, Target, Kept(fs))
Sorted(g, fs) == sortFindings(Bonus(g, fs), Kept(fs))

LEMMA GraphsAreGraphs ==
  ASSUME NEW g \in Graphs
  PROVE  IsGraph(g) /\ Target \in g.node
  BY GraphsAssumption DEF IsGraph

LEMMA RawIsList ==
  ASSUME NEW fs, IsRawList(fs)
  PROVE  /\ Len(fs) \in Nat
         /\ DOMAIN fs = 1..Len(fs)
         /\ \A i \in DOMAIN fs : fs[i] \in ToSet(fs)
         /\ \A f \in ToSet(fs) : \E i \in DOMAIN fs : f = fs[i]
         /\ \A f \in ToSet(fs) :
              /\ IsFinding(f)
              /\ f.id \in GenericIds => f.sev = Warning
              /\ \A e \in f.ev : e.type \in {"event", "log"} => f.sev >= Warning
<1>1. fs \in Seq(ToSet(fs))
  BY DEF IsRawList
<1>2. Len(fs) \in Nat /\ DOMAIN fs = 1..Len(fs)
  BY <1>1, LenProperties
<1> QED
  BY <1>2 DEF IsRawList, ToSet

LEMMA CorroborationIsNumber ==
  ASSUME NEW f, IsFiniteSet(f.ev)
  PROVE  Corroboration(f) \in Int
<1> DEFINE types == {e.type : e \in f.ev}
           typeOf == [e \in f.ev |-> e.type]
           both(a, b, points) == IF {a, b} \subseteq types THEN points ELSE 0
<1>1. typeOf \in Surjection(f.ev, types)
  BY DEF Surjection
<1>2. IsFiniteSet(types)
  <2> HIDE DEF types, typeOf
  <2> QED BY <1>1, FS_Surjection
<1>3. Cardinality(types) \in Nat
  BY <1>2, FS_CardinalityType
<1>4. /\ both("event", "log", 2) \in Int
      /\ both("event", "status", 1) \in Int
      /\ both("condition", "log", 1) \in Int
  OBVIOUS
<1>5. Corroboration(f) = Cardinality(types) + both("event", "log", 2)
                           + both("event", "status", 1) + both("condition", "log", 1)
  BY DEF Corroboration
<1> HIDE DEF types, both
<1> QED
  BY <1>3, <1>4, <1>5

\* annotateCorroboration changes the score and nothing else.
SameButScore(f, g) ==
  /\ f.id = g.id /\ f.res = g.res /\ f.sev = g.sev /\ f.conf = g.conf
  /\ f.ev = g.ev /\ f.fix = g.fix
  /\ f = [g EXCEPT !.corr = f.corr]
  /\ g = [f EXCEPT !.corr = g.corr]

LEMMA NewScore ==
  ASSUME NEW f, IsFinding(f), NEW c
  PROVE  SameButScore([f EXCEPT !.corr = c], f) /\ [f EXCEPT !.corr = c].corr = c
<1> DEFINE g == [f EXCEPT !.corr = c]
<1>1. f = [id |-> f.id, res |-> f.res, sev |-> f.sev, conf |-> f.conf,
           ev |-> f.ev, fix |-> f.fix, corr |-> f.corr]
  BY DEF IsFinding
<1>2. g = [id |-> f.id, res |-> f.res, sev |-> f.sev, conf |-> f.conf,
           ev |-> f.ev, fix |-> f.fix, corr |-> c]
  BY <1>1
<1>3. /\ g.id = f.id /\ g.res = f.res /\ g.sev = f.sev /\ g.conf = f.conf
      /\ g.ev = f.ev /\ g.fix = f.fix /\ g.corr = c
  BY <1>2
<1>4. f = [g EXCEPT !.corr = f.corr]
  BY <1>1, <1>2
<1> QED
  BY <1>3, <1>4 DEF SameButScore

LEMMA NotedIsList ==
  ASSUME NEW fs, IsRawList(fs)
  PROVE  /\ DOMAIN Noted(fs) = 1..Len(fs)
         /\ \A i \in 1..Len(fs) : /\ SameButScore(Noted(fs)[i], fs[i])
                                  /\ Noted(fs)[i].corr \in Int
<1>1. DOMAIN fs = 1..Len(fs) /\ \A i \in DOMAIN fs : IsFinding(fs[i])
  BY RawIsList
<1>2. \A i \in 1..Len(fs) : Noted(fs)[i] = [fs[i] EXCEPT !.corr = Corroboration(fs[i])]
  BY <1>1 DEF Noted
<1>3. ASSUME NEW i \in 1..Len(fs)
      PROVE  SameButScore(Noted(fs)[i], fs[i]) /\ Noted(fs)[i].corr \in Int
  <2>1. IsFinding(fs[i]) /\ Corroboration(fs[i]) \in Int
    BY <1>1, CorroborationIsNumber DEF IsFinding
  <2> DEFINE scored == [fs[i] EXCEPT !.corr = Corroboration(fs[i])]
  <2>2. SameButScore(scored, fs[i]) /\ scored.corr = Corroboration(fs[i])
    BY <2>1, NewScore
  <2>3. Noted(fs)[i] = scored
    BY <1>2
  <2> HIDE DEF scored
  <2> QED BY <2>1, <2>2, <2>3
<1> QED
  BY <1>1, <1>3 DEF Noted

\* What the passes make of the list: m findings are kept and sorted.
Passed(g, fs, m) ==
  /\ DOMAIN Kept(fs) = 1..m
  /\ DOMAIN Sorted(g, fs) = 1..m
  /\ \A k \in 1..m : \E i \in 1..Len(fs) : Kept(fs)[k] = Noted(fs)[i]
  /\ \A k \in 1..m : HasKey(Bonus(g, fs), Kept(fs)[k])
  /\ \A k \in 1..m : HasKey(Bonus(g, fs), Sorted(g, fs)[k])
  /\ \A k \in 1..m : \E i \in 1..Len(fs) : Sorted(g, fs)[k] = Noted(fs)[i]
  /\ \A i \in 1..Len(fs) : ~Redundant(Noted(fs), Noted(fs)[i]) =>
       \E k \in 1..m : Sorted(g, fs)[k] = Noted(fs)[i]
  /\ \A k \in 1..m : Sorted(g, fs)[k].res \in {f.res : f \in ToSet(Kept(fs))}
  /\ \A j, k \in 1..m :
       j < k => ~Before(Bonus(g, fs), Sorted(g, fs)[k], Sorted(g, fs)[j])

LEMMA SortedIsList ==
  ASSUME NEW g \in Graphs, NEW fs, IsRawList(fs)
  PROVE  \E m \in 0..Len(fs) : Passed(g, fs, m)
<1> DEFINE n == Len(fs)
           noted == Noted(fs)
           kept == Kept(fs)
           b == Bonus(g, fs)
           sorted == Sorted(g, fs)
<1>1. n \in Nat /\ DOMAIN noted = 1..n
  BY RawIsList, NotedIsList
<1>2. PICK m \in 0..n : \E place \in [1..m -> 1..n] :
        /\ DOMAIN kept = 1..m
        /\ \A k \in 1..m : kept[k] = noted[place[k]] /\ ~Redundant(noted, kept[k])
        /\ \A i \in 1..n : ~Redundant(noted, noted[i]) => \E k \in 1..m : place[k] = i
        /\ \A j, k \in 1..m : j < k => place[j] < place[k]
  <2> HIDE DEF noted
  <2> QED BY <1>1, KeptInOrder DEF Kept, noted
<1>3. PICK place \in [1..m -> 1..n] :
        /\ DOMAIN kept = 1..m
        /\ \A k \in 1..m : kept[k] = noted[place[k]]
        /\ \A i \in 1..n : ~Redundant(noted, noted[i]) => \E k \in 1..m : place[k] = i
  BY <1>2
<1>4. m \in Nat
  BY <1>1
<1> HIDE DEF kept
<1>5. \A k \in 1..m : kept[k].res \in {f.res : f \in ToSet(kept)}
  BY <1>3 DEF ToSet
<1>6. \A k \in 1..m : HasKey(b, kept[k])
  <2> TAKE k \in 1..m
  <2>1. b[kept[k].res] \in Int
    BY <1>5, GraphsAreGraphs, BiasBounds DEF Bonus, kept
  <2>2. place[k] \in 1..n /\ kept[k] = noted[place[k]]
    BY <1>3
  <2>3. IsFinding(fs[place[k]])
    BY <2>2, RawIsList
  <2>4. SameButScore(kept[k], fs[place[k]]) /\ kept[k].corr \in Int
    BY <2>2, NotedIsList
  <2>5. /\ kept[k].sev \in Int /\ kept[k].conf \in Int
        /\ kept[k].id \in DOMAIN IdRank
    BY <2>3, <2>4 DEF SameButScore, IsFinding
  <2> QED BY <2>1, <2>4, <2>5, IdRankAssumption DEF HasKey
<1> HIDE DEF b
<1>7. /\ DOMAIN sorted = 1..m
      /\ \A k \in 1..m : \E i \in 1..m : sorted[k] = kept[i]
      /\ \A i \in 1..m : \E k \in 1..m : sorted[k] = kept[i]
      /\ \A j, k \in 1..m : j < k => ~Before(b, sorted[k], sorted[j])
  BY <1>3, <1>4, <1>6, SortedInOrder DEF Sorted, kept, b
<1> HIDE DEF sorted, noted, n
<1>12. \A k \in 1..m : \E i \in 1..n : kept[k] = noted[i]
  <2> TAKE k \in 1..m
  <2>1. place[k] \in 1..n /\ kept[k] = noted[place[k]]
    BY <1>3
  <2> QED BY <2>1
<1>8. \A k \in 1..m : HasKey(b, sorted[k])
  BY <1>6, <1>7
<1>9. \A k \in 1..m : \E i \in 1..n : sorted[k] = noted[i]
  <2> TAKE k \in 1..m
  <2>1. PICK j \in 1..m : sorted[k] = kept[j]
    BY <1>7
  <2>2. place[j] \in 1..n /\ kept[j] = noted[place[j]]
    BY <1>3
  <2> QED BY <2>1, <2>2
<1>10. \A i \in 1..n : ~Redundant(noted, noted[i]) => \E k \in 1..m : sorted[k] = noted[i]
  <2> TAKE i \in 1..n
  <2> HAVE ~Redundant(noted, noted[i])
  <2>1. PICK j \in 1..m : place[j] = i
    BY <1>3
  <2>2. kept[j] = noted[i]
    BY <1>3, <2>1
  <2> QED BY <1>7, <2>2
<1>11. \A k \in 1..m : sorted[k].res \in {f.res : f \in ToSet(kept)}
  BY <1>5, <1>7
<1> QED
  BY <1>2, <1>3, <1>6, <1>7, <1>8, <1>9, <1>10, <1>11, <1>12 DEF Passed, sorted, noted, n, kept, b

-----------------------------------------------------------------------------
(* The pipeline: what the variables hold before each pass.                 *)

PipelineInv ==
  /\ graph \in Graphs
  /\ raw \in RawLists /\ IsRawList(raw)
  /\ stage \in Stages
  /\ stage = "annotate" => list = raw
  /\ stage = "suppress" => list = Noted(raw)
  /\ stage \in {"rank", "sort"} => list = Kept(raw)
  /\ stage \in {"sort", "assemble", "done"} => bias = Bonus(graph, raw)
  /\ stage \in {"assemble", "done"} => list = Sorted(graph, raw)
  /\ IF stage = "done"
     THEN /\ rootCause = IF list = << >> THEN << >> ELSE <<list[1]>>
          /\ explained = explanations(list)
     ELSE rootCause = << >> /\ explained = << >>

\* Each pass does what it should to what the one before it left.
THEOREM Pipeline == Spec => []PipelineInv
<1>1. Init => PipelineInv
  BY RawListsAssumption DEF Init, PipelineInv, Stages
<1>2. PipelineInv /\ [Next]_vars => PipelineInv'
  <2> SUFFICES ASSUME PipelineInv, [Next]_vars
               PROVE  PipelineInv'
    OBVIOUS
  <2> USE DEF PipelineInv, Stages
  <2>1. CASE Annotate
    BY <2>1 DEF Annotate, Noted
  <2>2. CASE Suppress
    BY <2>2 DEF Suppress, Kept
  <2>3. CASE Rank
    BY <2>3 DEF Rank, Bonus
  <2>4. CASE Sort
    BY <2>4 DEF Sort, Sorted
  <2>5. CASE Assemble
    BY <2>5 DEF Assemble
  <2>6. CASE UNCHANGED vars
    BY <2>6 DEF vars
  <2> QED BY <2>1, <2>2, <2>3, <2>4, <2>5, <2>6 DEF Next, Done
<1> QED
  BY <1>1, <1>2, PTL DEF Spec

\* A function on the first m numbers is a sequence of that length.
LEMMA FunctionIsSequence ==
  ASSUME NEW l, NEW m \in Nat, DOMAIN l = 1..m, l = [k \in DOMAIN l |-> l[k]]
  PROVE  l \in Seq(ToSet(l)) /\ Len(l) = m
<1>1. l \in [1..m -> ToSet(l)]
  BY DEF ToSet
<1>2. l \in Seq(ToSet(l))
  BY <1>1, SeqDef
<1>3. Len(l) \in Nat /\ 1..Len(l) = 1..m
  BY <1>2, LenProperties
<1> QED
  BY <1>2, <1>3

\* The findings of a list come from those of another one.
ComesFrom(l, fs) ==
  /\ l = [k \in DOMAIN l |-> l[k]]
  /\ \E m \in 0..Len(fs) :
       /\ DOMAIN l = 1..m
       /\ \A k \in 1..m : \E i \in 1..Len(fs) : SameButScore(l[k], fs[i])

LEMMA PassesComeFrom ==
  ASSUME NEW g \in Graphs, NEW fs, IsRawList(fs)
  PROVE  /\ ComesFrom(fs, fs) /\ ComesFrom(Noted(fs), fs)
         /\ ComesFrom(Kept(fs), fs) /\ ComesFrom(Sorted(g, fs), fs)
<1>1. Len(fs) \in Nat /\ DOMAIN fs = 1..Len(fs) /\ Len(fs) \in 0..Len(fs)
  BY RawIsList
<1>2. \A i \in 1..Len(fs) : SameButScore(fs[i], fs[i])
  <2> TAKE i \in 1..Len(fs)
  <2>1. IsFinding(fs[i])
    BY <1>1, RawIsList
  <2>2. fs[i] = [fs[i] EXCEPT !.corr = fs[i].corr]
    BY <2>1 DEF IsFinding
  <2> QED BY <2>2 DEF SameButScore
<1>3. /\ DOMAIN Noted(fs) = 1..Len(fs)
      /\ \A i \in 1..Len(fs) : SameButScore(Noted(fs)[i], fs[i])
  BY NotedIsList
<1>0. PICK m \in 0..Len(fs) : Passed(g, fs, m)
  BY SortedIsList
<1>4. /\ DOMAIN Kept(fs) = 1..m
      /\ DOMAIN Sorted(g, fs) = 1..m
      /\ \A k \in 1..m : \E i \in 1..Len(fs) : Kept(fs)[k] = Noted(fs)[i]
      /\ \A k \in 1..m : \E i \in 1..Len(fs) : Sorted(g, fs)[k] = Noted(fs)[i]
  BY <1>0 DEF Passed
<1>5. fs = [k \in DOMAIN fs |-> fs[k]]
  <2>1. fs \in Seq(ToSet(fs))
    BY DEF IsRawList
  <2>2. fs \in [1..Len(fs) -> ToSet(fs)]
    BY <2>1, LenProperties
  <2> QED BY <2>2
<1>6. Noted(fs) = [k \in DOMAIN Noted(fs) |-> Noted(fs)[k]]
  BY DEF Noted
<1>7. Kept(fs) = [k \in DOMAIN Kept(fs) |-> Kept(fs)[k]]
  BY DEF Kept, suppressRedundantBuiltinFindings
<1>8. Sorted(g, fs) = [k \in DOMAIN Sorted(g, fs) |-> Sorted(g, fs)[k]]
  BY DEF Sorted, sortFindings
<1>9. ComesFrom(fs, fs)
  BY <1>1, <1>2, <1>5 DEF ComesFrom
<1>10. ComesFrom(Noted(fs), fs)
  BY <1>1, <1>3, <1>6 DEF ComesFrom
<1>11. ComesFrom(Kept(fs), fs)
  BY <1>3, <1>4, <1>7 DEF ComesFrom
<1>12. ComesFrom(Sorted(g, fs), fs)
  BY <1>3, <1>4, <1>8 DEF ComesFrom
<1> QED
  BY <1>9, <1>10, <1>11, <1>12

\* Passes drop findings and give them scores, and nothing else.
THEOREM FindingsTypes == Spec => []TypeOK
<1>1. PipelineInv => TypeOK
  <2> SUFFICES ASSUME PipelineInv
               PROVE  TypeOK
    OBVIOUS
  <2>1. ComesFrom(list, raw)
    BY PassesComeFrom DEF PipelineInv, Stages
  <2>2. PICK m \in 0..Len(raw) :
          /\ DOMAIN list = 1..m
          /\ \A k \in 1..m : \E i \in 1..Len(raw) : SameButScore(list[k], raw[i])
    BY <2>1 DEF ComesFrom
  <2>3. Len(raw) \in Nat /\ DOMAIN raw = 1..Len(raw) /\ \A i \in DOMAIN raw : raw[i] \in ToSet(raw)
    BY RawIsList DEF PipelineInv
  <2>4. Len(list) = m
    BY <2>1, <2>2, <2>3, FunctionIsSequence DEF ComesFrom
  <2>5. \A k \in DOMAIN list : \E f \in ToSet(raw) : SameButScore(list[k], f)
    BY <2>2, <2>3
  <2>6. \A k \in DOMAIN list : \E f \in ToSet(raw) : list[k] = [f EXCEPT !.corr = list[k].corr]
    BY <2>5 DEF SameButScore
  <2>7. Len(rootCause) <= 1
    <3>1. rootCause = << >> \/ rootCause = <<list[1]>>
      BY DEF PipelineInv
    <3>2. CASE rootCause = << >>
      BY <3>2
    <3>3. CASE rootCause = <<list[1]>>
      BY <3>3
    <3> QED BY <3>1, <3>2, <3>3
  <2>8. DOMAIN explained \subseteq Resources
    <3>1. CASE stage = "done"
      <4>1. DOMAIN explained = {f.res : f \in ToSet(list)}
        BY <3>1 DEF PipelineInv, explanations
      <4>2. \A f \in ToSet(list) : \E e \in ToSet(raw) : f.res = e.res
        BY <2>5 DEF ToSet, SameButScore
      <4> QED BY <4>1, <4>2 DEF Resources
    <3>2. CASE stage # "done"
      BY <3>2 DEF PipelineInv
    <3> QED BY <3>1, <3>2
  <2>9. Len(list) <= Len(raw)
    BY <2>2, <2>3, <2>4
  <2> QED BY <2>6, <2>7, <2>8, <2>9 DEF TypeOK, PipelineInv
<1> QED
  BY <1>1, Pipeline, PTL

-----------------------------------------------------------------------------
(* What the report says of the findings.                                   *)

\* A redundant finding is generic, and shows evidence of a kind and a content
\* that a specific finding about the same resource shows; that one stays.
LEMMA SpecificStays ==
  ASSUME NEW fs, IsRawList(fs), NEW i \in 1..Len(fs), Redundant(Noted(fs), Noted(fs)[i])
  PROVE  \E j \in 1..Len(fs) :
           /\ ~Redundant(Noted(fs), Noted(fs)[j])
           /\ fs[i].id \in GenericIds
           /\ Noted(fs)[j].id \notin GenericIds
           /\ Noted(fs)[j].res = fs[i].res
           /\ \E e \in Noted(fs)[j].ev \cap fs[i].ev : e.type \in {"event", "log"}
<1> DEFINE noted == Noted(fs)
<1>1. /\ DOMAIN noted = 1..Len(fs)
      /\ \A k \in 1..Len(fs) : SameButScore(noted[k], fs[k])
  BY NotedIsList
<1>2. noted[i].id = fs[i].id /\ noted[i].res = fs[i].res /\ noted[i].ev = fs[i].ev
  BY <1>1 DEF SameButScore
<1> HIDE DEF noted
<1>3. Redundant(noted, noted[i])
  BY DEF noted
<1>4. PICK h \in Generic, j \in DOMAIN noted :
        /\ noted[i].id = h.id
        /\ noted[j].id \notin GenericIds
        /\ noted[j].res = noted[i].res
        /\ \E e \in noted[i].ev \cap noted[j].ev : e.type = h.type
  BY <1>3 DEF Redundant
<1>5. h.id \in GenericIds
  BY DEF GenericIds
<1>6. h.type \in {"event", "log"}
  BY DEF Generic
<1>7. ~Redundant(noted, noted[j])
  BY <1>4 DEF Redundant, GenericIds
<1>8. j \in 1..Len(fs)
  BY <1>1
<1> QED
  BY <1>2, <1>4, <1>5, <1>6, <1>7, <1>8 DEF noted

\* The findings of the report, as the last passes leave them.
LEMMA ReportIsSorted ==
  ASSUME PipelineInv, stage = "done"
  PROVE  \E m \in 0..Len(raw) :
           /\ DOMAIN list = 1..m
           /\ bias = Bonus(graph, raw)
           /\ \A k \in 1..m : HasKey(bias, list[k])
           /\ \A k \in 1..m : list[k].res \in {f.res : f \in ToSet(Kept(raw))}
           /\ \A k \in 1..m : \E i \in 1..Len(raw) : list[k] = Noted(raw)[i]
           /\ \A i \in 1..Len(raw) : ~Redundant(Noted(raw), Noted(raw)[i]) =>
                \E k \in 1..m : list[k] = Noted(raw)[i]
           /\ \A j, k \in 1..m : j < k => ~Before(bias, list[k], list[j])
<1>1. /\ graph \in Graphs /\ IsRawList(raw)
      /\ bias = Bonus(graph, raw) /\ list = Sorted(graph, raw)
  BY DEF PipelineInv
<1>2. PICK m \in 0..Len(raw) : Passed(graph, raw, m)
  BY <1>1, SortedIsList
<1> QED
  BY <1>1, <1>2 DEF Passed

\* A finding is missing from the report only if it is of a general rule and a
\* specific finding about its resource shows evidence it shows.
THEOREM NoFindingSilenced == Spec => []NothingSilenced
<1>1. PipelineInv => NothingSilenced
  <2> SUFFICES ASSUME PipelineInv, stage = "done"
               PROVE  /\ DOMAIN explained = Resources
                      /\ \A f \in ToSet(raw) :
                           \/ \E i \in DOMAIN list : f = [list[i] EXCEPT !.corr = f.corr]
                           \/ /\ f.id \in GenericIds
                              /\ \E i \in DOMAIN list : /\ list[i].id \notin GenericIds
                                                        /\ list[i].res = f.res
                                                        /\ list[i].ev \cap f.ev # {}
    BY DEF NothingSilenced
  <2>1. PICK m \in 0..Len(raw) :
          /\ DOMAIN list = 1..m
          /\ \A k \in 1..m : \E i \in 1..Len(raw) : list[k] = Noted(raw)[i]
          /\ \A i \in 1..Len(raw) : ~Redundant(Noted(raw), Noted(raw)[i]) =>
               \E k \in 1..m : list[k] = Noted(raw)[i]
    BY ReportIsSorted
  <2>2. /\ IsRawList(raw)
        /\ \A f \in ToSet(raw) : \E i \in 1..Len(raw) : f = raw[i]
        /\ \A i \in 1..Len(raw) : raw[i] \in ToSet(raw)
    BY RawIsList DEF PipelineInv
  <2>3. \A i \in 1..Len(raw) : SameButScore(Noted(raw)[i], raw[i])
    BY <2>2, NotedIsList
  <2>4. ASSUME NEW f \in ToSet(raw)
        PROVE  /\ \/ \E k \in DOMAIN list : f = [list[k] EXCEPT !.corr = f.corr]
                  \/ /\ f.id \in GenericIds
                     /\ \E k \in DOMAIN list : /\ list[k].id \notin GenericIds
                                               /\ list[k].res = f.res
                                               /\ list[k].ev \cap f.ev # {}
               /\ \E k \in DOMAIN list : list[k].res = f.res
    <3>1. PICK i \in 1..Len(raw) : f = raw[i]
      BY <2>2
    <3>2. CASE ~Redundant(Noted(raw), Noted(raw)[i])
      <4>1. PICK k \in DOMAIN list : list[k] = Noted(raw)[i]
        BY <2>1, <3>2
      <4>2. SameButScore(list[k], f)
        BY <2>3, <3>1, <4>1
      <4> QED BY <4>2 DEF SameButScore
    <3>3. CASE Redundant(Noted(raw), Noted(raw)[i])
      <4>1. PICK j \in 1..Len(raw) :
              /\ ~Redundant(Noted(raw), Noted(raw)[j])
              /\ f.id \in GenericIds
              /\ Noted(raw)[j].id \notin GenericIds
              /\ Noted(raw)[j].res = f.res
              /\ Noted(raw)[j].ev \cap f.ev # {}
        BY <2>2, <3>1, <3>3, SpecificStays
      <4>2. PICK k \in DOMAIN list : list[k] = Noted(raw)[j]
        BY <2>1, <4>1
      <4> QED BY <4>1, <4>2
    <3> QED BY <3>2, <3>3
  <2>5. DOMAIN explained = {f.res : f \in ToSet(list)}
    BY DEF PipelineInv, explanations
  <2>6. \A f \in ToSet(list) : \E e \in ToSet(raw) : f.res = e.res
    <3> TAKE f \in ToSet(list)
    <3>1. PICK k \in DOMAIN list : f = list[k]
      BY DEF ToSet
    <3>2. PICK i \in 1..Len(raw) : f = Noted(raw)[i]
      BY <2>1, <3>1
    <3> QED BY <2>2, <2>3, <3>2 DEF SameButScore
  <2>7. \A e \in ToSet(raw) : \E f \in ToSet(list) : f.res = e.res
    BY <2>4 DEF ToSet
  <2>8. DOMAIN explained = Resources
    BY <2>5, <2>6, <2>7 DEF Resources
  <2> QED BY <2>4, <2>8
<1> QED
  BY <1>1, Pipeline, PTL

\* Of two findings in a sorted list the first is at least as severe.
LEMMA SortedBySeverity ==
  ASSUME NEW b, NEW x, NEW y, HasKey(b, x), HasKey(b, y), ~Before(b, y, x)
  PROVE  x.sev >= y.sev
  BY BeforeCompares DEF HasKey

\* The report leads with one of the most severe findings of all rules.
THEOREM MostSevereFirst == Spec => []RootCauseMostSevere
<1>1. PipelineInv => RootCauseMostSevere
  <2> SUFFICES ASSUME PipelineInv, stage = "done", raw # << >>
               PROVE  Len(rootCause) = 1 /\ \A f \in ToSet(raw) : rootCause[1].sev >= f.sev
    BY DEF RootCauseMostSevere
  <2>1. PICK m \in 0..Len(raw) :
          /\ DOMAIN list = 1..m
          /\ \A k \in 1..m : HasKey(bias, list[k])
          /\ \A i \in 1..Len(raw) : ~Redundant(Noted(raw), Noted(raw)[i]) =>
               \E k \in 1..m : list[k] = Noted(raw)[i]
          /\ \A j, k \in 1..m : j < k => ~Before(bias, list[k], list[j])
    BY ReportIsSorted
  <2>2. /\ IsRawList(raw) /\ Len(raw) \in Nat /\ DOMAIN raw = 1..Len(raw)
        /\ \A f \in ToSet(raw) : \E i \in 1..Len(raw) : f = raw[i]
        /\ \A i \in 1..Len(raw) : raw[i] \in ToSet(raw)
    BY RawIsList DEF PipelineInv
  <2>3. \A f \in ToSet(raw) :
          /\ f.sev \in Int
          /\ f.id \in GenericIds => f.sev = Warning
          /\ \A e \in f.ev : e.type \in {"event", "log"} => f.sev >= Warning
    BY <2>2, RawIsList DEF IsFinding
  <2>4. \A i \in 1..Len(raw) : SameButScore(Noted(raw)[i], raw[i])
    BY <2>2, NotedIsList
  <2>5. ASSUME NEW f \in ToSet(raw)
        PROVE  \E k \in 1..m : list[k].sev >= f.sev
    <3>1. PICK i \in 1..Len(raw) : f = raw[i]
      BY <2>2
    <3>2. CASE ~Redundant(Noted(raw), Noted(raw)[i])
      <4>1. PICK k \in 1..m : list[k] = Noted(raw)[i]
        BY <2>1, <3>2
      <4>2. list[k].sev = f.sev
        BY <2>4, <3>1, <4>1 DEF SameButScore
      <4> QED BY <2>3, <4>2
    <3>3. CASE Redundant(Noted(raw), Noted(raw)[i])
      <4>1. PICK j \in 1..Len(raw) :
              /\ ~Redundant(Noted(raw), Noted(raw)[j])
              /\ f.id \in GenericIds
              /\ \E e \in Noted(raw)[j].ev : e.type \in {"event", "log"}
        BY <2>2, <3>1, <3>3, SpecificStays
      <4>2. PICK k \in 1..m : list[k] = Noted(raw)[j]
        BY <2>1, <4>1
      <4>3. list[k].sev = raw[j].sev /\ list[k].ev = raw[j].ev
        BY <2>4, <4>2 DEF SameButScore
      <4>4. raw[j].sev >= Warning /\ f.sev = Warning
        BY <2>2, <2>3, <4>1, <4>2, <4>3
      <4> QED BY <4>3, <4>4
    <3> QED BY <3>2, <3>3
  <2>6. 1 \in 1..m
    <3>1. Len(raw) # 0
      <4>1. raw \in Seq(ToSet(raw))
        BY <2>2 DEF IsRawList
      <4> QED BY <4>1, EmptySeq
    <3>2. raw[1] \in ToSet(raw)
      BY <2>2, <3>1
    <3>3. PICK k \in 1..m : TRUE
      BY <2>5, <3>2
    <3> QED BY <2>1, <3>3
  <2>7. list # << >>
    BY <2>1, <2>6
  <2>8. rootCause = <<list[1]>>
    BY <2>7 DEF PipelineInv
  <2>9. \A k \in 1..m : list[1].sev >= list[k].sev
    <3> TAKE k \in 1..m
    <3>1. CASE k = 1
      BY <2>1, <2>6, <3>1 DEF HasKey
    <3>2. CASE 1 < k
      BY <2>1, <2>6, <3>2, SortedBySeverity
    <3> QED BY <3>1, <3>2
  <2>10. \A f \in ToSet(raw) : list[1].sev >= f.sev
    <3> TAKE f \in ToSet(raw)
    <3>1. PICK k \in 1..m : list[k].sev >= f.sev
      BY <2>5
    <3>2. list[1].sev >= list[k].sev
      BY <2>9
    <3>3. list[1].sev \in Int /\ list[k].sev \in Int /\ f.sev \in Int
      BY <2>1, <2>3, <2>6 DEF HasKey
    <3> QED BY <3>1, <3>2, <3>3
  <2>11. rootCause[1] = list[1] /\ Len(rootCause) = 1
    BY <2>8
  <2> QED BY <2>10, <2>11
<1> QED
  BY <1>1, Pipeline, PTL

LEMMA FirstFinding ==
  ASSUME NEW m \in Nat, NEW fs, DOMAIN fs = 1..m, NEW k \in 1..m
  PROVE  LET i == firstFinding(fs, fs[k].res)
         IN  i \in 1..m /\ fs[i].res = fs[k].res /\ i <= k /\ (k = 1 => i = 1)
<1> DEFINE r == fs[k].res
           places == {i \in 1..m : fs[i].res = r}
           isFirst(i) == fs[i].res = r /\ \A j \in 1..(i - 1) : fs[j].res # r
<1>1. PICK i \in places : \A j \in places : i <= j
  <2> places \in SUBSET Nat /\ places # {}
    OBVIOUS
  <2> HIDE DEF places
  <2> QED BY SmallestNumber
<1>2. i \in 1..m /\ isFirst(i)
  BY <1>1
<1>3. firstFinding(fs, r) = CHOOSE j \in 1..m : isFirst(j)
  BY DEF firstFinding
<1>4. firstFinding(fs, r) \in 1..m /\ isFirst(firstFinding(fs, r))
  <2> HIDE DEF isFirst, r
  <2> QED BY <1>2, <1>3
<1>5. firstFinding(fs, r) <= k
  BY <1>4
<1> QED
  BY <1>4, <1>5

\* The chain and the summary of a report agree.
THEOREM ChainTellsTheSame == Spec => []ChainMatchesRootCause
<1>1. PipelineInv => ChainMatchesRootCause
  <2> SUFFICES ASSUME PipelineInv, stage = "done"
               PROVE  /\ rootCause # << >> => explained[rootCause[1].res] = rootCause[1].id
                      /\ \A f \in ToSet(list) : \E e \in ToSet(list) :
                           e.res = f.res /\ e.id = explained[f.res] /\ e.sev >= f.sev
    BY DEF ChainMatchesRootCause
  <2>1. PICK m \in 0..Len(raw) :
          /\ DOMAIN list = 1..m
          /\ \A k \in 1..m : HasKey(bias, list[k])
          /\ \A j, k \in 1..m : j < k => ~Before(bias, list[k], list[j])
    BY ReportIsSorted
  <2>2. m \in Nat
    BY RawIsList DEF PipelineInv
  <2>3. /\ rootCause = IF list = << >> THEN << >> ELSE <<list[1]>>
        /\ explained = [r \in {f.res : f \in ToSet(list)} |-> list[firstFinding(list, r)].id]
    BY DEF PipelineInv, explanations
  <2>4. ASSUME NEW k \in 1..m
        PROVE  /\ explained[list[k].res] = list[firstFinding(list, list[k].res)].id
               /\ list[k] \in ToSet(list)
    BY <2>1, <2>3 DEF ToSet
  <2>5. ASSUME rootCause # << >>
        PROVE  explained[rootCause[1].res] = rootCause[1].id
    <3>1. list # << >> /\ rootCause = <<list[1]>>
      BY <2>3, <2>5
    <3>2. 1 \in 1..m
      <4>1. ComesFrom(list, raw)
        BY PassesComeFrom DEF PipelineInv
      <4>2. list \in Seq(ToSet(list)) /\ Len(list) = m
        BY <2>1, <2>2, <4>1, FunctionIsSequence DEF ComesFrom
      <4>3. Len(list) \in Nat \ {0}
        BY <3>1, <4>2, EmptySeq
      <4> QED BY <4>2, <4>3
    <3>3. firstFinding(list, list[1].res) = 1
      BY <2>1, <2>2, <3>2, FirstFinding
    <3> QED BY <2>4, <3>1, <3>2, <3>3
  <2>6. ASSUME NEW f \in ToSet(list)
        PROVE  \E e \in ToSet(list) : e.res = f.res /\ e.id = explained[f.res] /\ e.sev >= f.sev
    <3>1. PICK k \in 1..m : f = list[k]
      BY <2>1 DEF ToSet
    <3> DEFINE i == firstFinding(list, f.res)
    <3>2. i \in 1..m /\ list[i].res = f.res /\ i <= k
      BY <2>1, <2>2, <3>1, FirstFinding
    <3>3. list[i].id = explained[f.res] /\ list[i] \in ToSet(list)
      BY <2>4, <3>1, <3>2
    <3> HIDE DEF i
    <3>4. list[i].sev >= list[k].sev
      <4>1. CASE i = k
        BY <2>1, <3>2, <4>1 DEF HasKey
      <4>2. CASE i < k
        BY <2>1, <3>2, <4>2, SortedBySeverity
      <4> QED BY <2>2, <3>2, <4>1, <4>2
    <3> QED BY <3>1, <3>2, <3>3, <3>4
  <2> QED BY <2>5, <2>6
<1> QED
  BY <1>1, Pipeline, PTL

\* What the rounds of bfsDistance find is what the target depends on.
LEMMA FoundAreDependencies ==
  ASSUME NEW g \in Graphs, NEW r
  PROVE  DependsOn(g, r) <=> r \in Found(g, Target, TRUE)[Cardinality(g.node)]
<1>1. PICK yes : yes = TRUE
  OBVIOUS
<1> DEFINE all == Found(g, Target, yes)[Cardinality(g.node)]
<1>2. Target \in all /\ all \subseteq g.node /\ Successors(g, all, yes) \subseteq all
  BY GraphsAreGraphs, AllIsFound
<1>3. \A S : Target \in S /\ Successors(g, S, yes) \subseteq S => all \subseteq S
  <2>1. Cardinality(g.node) \in Nat
    BY GraphsAreGraphs, FS_CardinalityType DEF IsGraph
  <2> QED BY <2>1, GraphsAreGraphs, FoundIsWithin
<1> HIDE DEF all
<1>4. DependsOn(g, r) <=> \A S \in SUBSET g.node :
        Target \in S /\ Successors(g, S, yes) \subseteq S => r \in S
  BY <1>1, Zenon DEF DependsOn
<1>5. DependsOn(g, r) <=> r \in all
  BY <1>2, <1>3, <1>4
<1> QED
  BY <1>1, <1>5, Zenon DEF all

\* Among findings of equal weight those about dependencies come first.
THEOREM DependenciesLead == Spec => []DependenciesFirst
<1>1. PipelineInv => DependenciesFirst
  <2> SUFFICES ASSUME PipelineInv, stage = "done",
                      NEW i \in DOMAIN list, NEW j \in DOMAIN list,
                      list[i].sev = list[j].sev, list[i].corr = list[j].corr,
                      list[i].res # Target, DependsOn(graph, list[i].res),
                      list[j].res = Target \/ ~DependsOn(graph, list[j].res)
               PROVE  i < j
    BY DEF DependenciesFirst
  <2>1. PICK m \in 0..Len(raw) :
          /\ DOMAIN list = 1..m
          /\ bias = Bonus(graph, raw)
          /\ \A k \in 1..m : HasKey(bias, list[k])
          /\ \A k \in 1..m : list[k].res \in {f.res : f \in ToSet(Kept(raw))}
          /\ \A x, y \in 1..m : x < y => ~Before(bias, list[y], list[x])
    BY ReportIsSorted
  <2> DEFINE all == Found(graph, Target, TRUE)[Cardinality(graph.node)]
  <2>2. graph \in Graphs
    BY DEF PipelineInv
  <2>3. list[i].res \in all /\ (list[j].res = Target \/ list[j].res \notin all)
    BY <2>2, FoundAreDependencies
  <2>4. bias[list[i].res] >= 4
    BY <2>1, <2>2, <2>3, GraphsAreGraphs, BiasBounds DEF Bonus
  <2>5. bias[list[j].res] <= 3
    BY <2>1, <2>2, <2>3, GraphsAreGraphs, BiasBounds DEF Bonus
  <2>6. HasKey(bias, list[i]) /\ HasKey(bias, list[j])
    BY <2>1
  <2>7. bias[list[i].res] > bias[list[j].res]
    BY <2>4, <2>5, <2>6 DEF HasKey
  <2>8. Before(bias, list[i], list[j])
    BY <2>6, <2>7, BeforeCompares
  <2>9. i # j
    BY <2>7, <2>6 DEF HasKey
  <2>10. ~(j < i)
    BY <2>1, <2>8
  <2> QED BY <2>1, <2>9, <2>10
<1> QED
  BY <1>1, Pipeline, PTL

-----------------------------------------------------------------------------
(* The order of evaluation. A list sorted from a reordering has the same   *)
(* key in each place: the k-th finding of one cannot precede the k-th of   *)
(* the other, as the findings that are not after it are too many to fit    *)
(* before the other.                                                       *)

\* Where the findings of fs are in gs.
Embeds(fs, gs, e) ==
  e \in Injection(DOMAIN fs, DOMAIN gs) /\ \A i \in DOMAIN fs : fs[i] = gs[e[i]]

AheadOf(b, fs, x) == {p \in DOMAIN fs : Before(b, fs[p], x)}
NotAfter(b, fs, x) == {p \in DOMAIN fs : ~Before(b, x, fs[p])}

\* A list of n findings that can be compared.
Comparable(b, n, fs) ==
  n \in Nat /\ DOMAIN fs = 1..n /\ \A i \in 1..n : HasKey(b, fs[i])

\* x could be the k-th of the findings fs in order.
Kth(b, n, fs, k, x) ==
  /\ \E i \in 1..n : x = fs[i]
  /\ Cardinality(AheadOf(b, fs, x)) < k
  /\ Cardinality(NotAfter(b, fs, x)) >= k

\* In a sorted list fewer than k findings precede the k-th one and at least k
\* do not follow it.
LEMMA CountedInOrder ==
  ASSUME NEW b, NEW n, NEW fs, Comparable(b, n, fs), NEW k \in 1..n
  PROVE  Kth(b, n, fs, k, sortFindings(b, fs)[k])
<1> USE DEF Comparable
<1> DEFINE x == sortFindings(b, fs)[k]
           place == Arranged(DOMAIN fs, Earlier(b, fs))
           i == place[k]
<1>1. \A p, q \in 1..n : <<p, q>> \in Earlier(b, fs) <=>
        Before(b, fs[p], fs[q]) \/ (~Before(b, fs[q], fs[p]) /\ p < q)
  BY DEF Earlier
<1>2. StrictTotal(1..n, Earlier(b, fs))
  BY SortedOrderIsTotal
<1>3. IsFiniteSet(1..n) /\ Cardinality(1..n) = n
  BY FS_Interval
<1>4. /\ DOMAIN place = 1..n
      /\ \A j \in 1..n : place[j] \in 1..n /\ NumberBefore(1..n, Earlier(b, fs), place[j]) = j - 1
  <2> HIDE DEF place
  <2>1. LET m == Cardinality(1..n)
        IN  /\ DOMAIN place = 1..m
            /\ \A j \in 1..m : place[j] \in 1..n /\ NumberBefore(1..n, Earlier(b, fs), place[j]) = j - 1
    BY <1>2, <1>3, ArrangedInOrder DEF place
  <2> QED BY <1>3, <2>1
<1>5. sortFindings(b, fs) = [j \in DOMAIN place |-> fs[place[j]]]
  BY DEF sortFindings
<1> HIDE DEF place
<1>6. i \in 1..n /\ x = fs[i] /\ NumberBefore(1..n, Earlier(b, fs), i) = k - 1
  BY <1>4, <1>5
<1> DEFINE before == {j \in 1..n : <<j, i>> \in Earlier(b, fs)}
<1>7. Cardinality(before) = k - 1
  BY <1>6 DEF NumberBefore
<1> HIDE DEF i, x
<1>8. before \in SUBSET (1..n) /\ i \notin before
  BY <1>2, <1>6 DEF StrictTotal
<1>9. AheadOf(b, fs, x) \in SUBSET before
  BY <1>1, <1>6 DEF AheadOf
<1>10. before \cup {i} \in SUBSET NotAfter(b, fs, x)
  <2>1. i \in NotAfter(b, fs, x)
    BY <1>6, BeforeIsWeakOrder DEF NotAfter
  <2>2. ASSUME NEW j \in before
        PROVE  j \in NotAfter(b, fs, x)
    <3>1. Before(b, fs[j], fs[i]) \/ ~Before(b, fs[i], fs[j])
      BY <1>1, <1>6
    <3>2. ~Before(b, fs[i], fs[j])
      BY <1>6, <3>1, BeforeIsWeakOrder
    <3> QED BY <1>6, <3>2 DEF NotAfter
  <2> QED BY <2>1, <2>2
<1>11. NotAfter(b, fs, x) \in SUBSET (1..n)
  BY DEF NotAfter
<1> HIDE DEF before
<1>12. /\ IsFiniteSet(before)
       /\ Cardinality(AheadOf(b, fs, x)) <= Cardinality(before)
       /\ IsFiniteSet(AheadOf(b, fs, x))
  BY <1>3, <1>8, <1>9, FS_Subset
<1>13. IsFiniteSet(NotAfter(b, fs, x))
  BY <1>3, <1>11, FS_Subset
<1>14. Cardinality(before \cup {i}) = (k - 1) + 1
  BY <1>7, <1>8, <1>12, FS_AddElement
<1>15. Cardinality(before \cup {i}) <= Cardinality(NotAfter(b, fs, x))
  BY <1>10, <1>13, FS_Subset
<1>16. Cardinality(AheadOf(b, fs, x)) \in Nat /\ Cardinality(NotAfter(b, fs, x)) \in Nat
  BY <1>12, <1>13, FS_CardinalityType
<1>17. /\ Cardinality(AheadOf(b, fs, x)) < k
       /\ Cardinality(NotAfter(b, fs, x)) >= k
  BY <1>7, <1>12, <1>14, <1>15, <1>16
<1> QED
  BY <1>6, <1>17 DEF Kth, x

\* The k-th of one list does not precede the k-th of another that has all of
\* its findings.
LEMMA NoneComesEarlier ==
  ASSUME NEW b, NEW n, NEW fs, Comparable(b, n, fs), NEW gs, Comparable(b, n, gs),
         NEW e, Embeds(fs, gs, e), NEW k \in 1..n
  PROVE  ~Before(b, sortFindings(b, fs)[k], sortFindings(b, gs)[k])
<1> DEFINE x == sortFindings(b, fs)[k]
           y == sortFindings(b, gs)[k]
<1>0. Kth(b, n, fs, k, x) /\ Kth(b, n, gs, k, y)
  BY CountedInOrder
<1> USE DEF Comparable
<1>1. (\E i \in 1..n : x = fs[i]) /\ Cardinality(NotAfter(b, fs, x)) >= k
  BY <1>0 DEF Kth
<1>2. (\E i \in 1..n : y = gs[i]) /\ Cardinality(AheadOf(b, gs, y)) < k
  BY <1>0 DEF Kth
<1> HIDE DEF x, y
<1>3. HasKey(b, x) /\ HasKey(b, y)
  BY <1>1, <1>2
<1>4. SUFFICES ASSUME Before(b, x, y)
               PROVE  FALSE
  BY DEF x, y
<1>5. \A p \in NotAfter(b, fs, x) : p \in 1..n /\ e[p] \in AheadOf(b, gs, y)
  <2> TAKE p \in NotAfter(b, fs, x)
  <2>1. p \in 1..n /\ ~Before(b, x, fs[p])
    BY DEF NotAfter
  <2>2. Before(b, fs[p], y)
    BY <1>3, <1>4, <2>1, BeforeIsWeakOrder
  <2>3. e[p] \in 1..n /\ fs[p] = gs[e[p]]
    BY <2>1 DEF Embeds, Injection
  <2> QED BY <2>1, <2>2, <2>3 DEF AheadOf
<1> DEFINE part == [p \in NotAfter(b, fs, x) |-> e[p]]
<1>6. part \in Injection(NotAfter(b, fs, x), AheadOf(b, gs, y))
  <2>1. \A p, q \in 1..n : e[p] = e[q] => p = q
    BY DEF Embeds, Injection, IsInjective
  <2> QED BY <1>5, <2>1 DEF Injection, IsInjective
<1>7. AheadOf(b, gs, y) \in SUBSET (1..n) /\ IsFiniteSet(1..n)
  BY FS_Interval DEF AheadOf
<1>8. IsFiniteSet(AheadOf(b, gs, y))
  BY <1>7, FS_Subset
<1> HIDE DEF part
<1>9. /\ IsFiniteSet(NotAfter(b, fs, x))
      /\ Cardinality(NotAfter(b, fs, x)) <= Cardinality(AheadOf(b, gs, y))
  BY <1>6, <1>8, FS_Injection
<1>10. Cardinality(NotAfter(b, fs, x)) \in Nat /\ Cardinality(AheadOf(b, gs, y)) \in Nat
  BY <1>8, <1>9, FS_CardinalityType
<1> QED
  BY <1>1, <1>2, <1>9, <1>10

\* The list kept has what is not redundant of the n findings fs, in order.
Remains(n, fs, kept) ==
  \E m \in 0..n : \E place \in [1..m -> 1..n] :
    /\ DOMAIN kept = 1..m
    /\ \A k \in 1..m : kept[k] = fs[place[k]] /\ ~Redundant(fs, kept[k])
    /\ \A i \in 1..n : ~Redundant(fs, fs[i]) => \E k \in 1..m : place[k] = i
    /\ \A j, k \in 1..m : j < k => place[j] < place[k]

LEMMA KeptRemains ==
  ASSUME NEW n \in Nat, NEW fs, DOMAIN fs = 1..n
  PROVE  Remains(n, fs, suppressRedundantBuiltinFindings(fs))
  BY KeptInOrder DEF Remains

\* Suppression leaves a reordering of what it leaves of the list.
LEMMA KeptEmbeds ==
  ASSUME NEW n \in Nat, NEW fs, DOMAIN fs = 1..n, NEW gs, DOMAIN gs = 1..n,
         NEW e, Embeds(gs, fs, e),
         \A f : Redundant(gs, f) <=> Redundant(fs, f)
  PROVE  \E d : Embeds(suppressRedundantBuiltinFindings(gs),
                       suppressRedundantBuiltinFindings(fs), d)
<1> DEFINE kept == suppressRedundantBuiltinFindings(fs)
           left == suppressRedundantBuiltinFindings(gs)
<1>0. Remains(n, fs, kept) /\ Remains(n, gs, left)
  BY KeptRemains
<1> HIDE DEF kept, left
<1>1. PICK m \in 0..n : \E place \in [1..m -> 1..n] :
        /\ DOMAIN kept = 1..m
        /\ \A k \in 1..m : kept[k] = fs[place[k]] /\ ~Redundant(fs, kept[k])
        /\ \A i \in 1..n : ~Redundant(fs, fs[i]) => \E k \in 1..m : place[k] = i
        /\ \A j, k \in 1..m : j < k => place[j] < place[k]
  BY <1>0 DEF Remains
<1>2. PICK place \in [1..m -> 1..n] :
        /\ DOMAIN kept = 1..m
        /\ \A k \in 1..m : kept[k] = fs[place[k]]
        /\ \A i \in 1..n : ~Redundant(fs, fs[i]) => \E k \in 1..m : place[k] = i
  BY <1>1
<1>3. PICK l \in 0..n : \E spot \in [1..l -> 1..n] :
        /\ DOMAIN left = 1..l
        /\ \A k \in 1..l : left[k] = gs[spot[k]] /\ ~Redundant(gs, left[k])
        /\ \A i \in 1..n : ~Redundant(gs, gs[i]) => \E k \in 1..l : spot[k] = i
        /\ \A j, k \in 1..l : j < k => spot[j] < spot[k]
  BY <1>0 DEF Remains
<1>4. PICK spot \in [1..l -> 1..n] :
        /\ DOMAIN left = 1..l
        /\ \A k \in 1..l : left[k] = gs[spot[k]] /\ ~Redundant(gs, left[k])
        /\ \A j, k \in 1..l : j < k => spot[j] < spot[k]
  BY <1>3
<1>5. \A i \in 1..n : e[i] \in 1..n /\ gs[i] = fs[e[i]]
  BY DEF Embeds, Injection
<1>6. \A k \in 1..l : \E j \in 1..m : place[j] = e[spot[k]]
  <2> TAKE k \in 1..l
  <2>1. /\ spot[k] \in 1..n /\ e[spot[k]] \in 1..n
        /\ left[k] = fs[e[spot[k]]]
        /\ ~Redundant(fs, left[k])
    BY <1>4, <1>5
  <2> QED BY <1>2, <2>1
<1> DEFINE target(k) == CHOOSE j \in 1..m : place[j] = e[spot[k]]
           d == [k \in 1..l |-> target(k)]
<1>7. \A k \in 1..l : target(k) \in 1..m /\ place[target(k)] = e[spot[k]]
  BY <1>6
<1> HIDE DEF target
<1>8. \A k \in 1..l : d[k] \in 1..m /\ place[d[k]] = e[spot[k]]
  BY <1>7
<1>9. ASSUME NEW j \in 1..l, NEW k \in 1..l, d[j] = d[k]
      PROVE  j = k
  <2>1. e[spot[j]] = e[spot[k]] /\ spot[j] \in 1..n /\ spot[k] \in 1..n
    BY <1>8, <1>9
  <2>2. spot[j] = spot[k]
    BY <2>1 DEF Embeds, Injection, IsInjective
  <2>3. ~(spot[j] < spot[k]) /\ ~(spot[k] < spot[j])
    BY <2>1, <2>2
  <2>4. ~(j < k) /\ ~(k < j)
    BY <1>4, <2>3
  <2> QED BY <2>4
<1>10. \A k \in 1..l : left[k] = kept[d[k]]
  <2> TAKE k \in 1..l
  <2>1. spot[k] \in 1..n /\ left[k] = fs[e[spot[k]]]
    BY <1>4, <1>5
  <2>2. kept[d[k]] = fs[place[d[k]]]
    BY <1>2, <1>8
  <2> QED BY <1>8, <2>1, <2>2
<1>11. d \in [1..l -> 1..m]
  BY <1>8
<1> HIDE DEF d
<1>12. d \in Injection(1..l, 1..m)
  BY <1>9, <1>11 DEF Injection, IsInjective
<1> QED
  BY <1>2, <1>4, <1>10, <1>12 DEF Embeds, kept, left

\* fs and gs have the same findings, as often, in whatever order.
Reordered(n, fs, gs) ==
  /\ n \in Nat /\ DOMAIN fs = 1..n /\ DOMAIN gs = 1..n
  /\ \E e : Embeds(fs, gs, e)
  /\ \E e : Embeds(gs, fs, e)

LEMMA ReorderingHolds ==
  ASSUME NEW n \in Nat, NEW fs, DOMAIN fs = 1..n, NEW gs, DOMAIN gs = 1..n,
         NEW p \in Bijection(1..n, 1..n), \A i \in 1..n : gs[i] = fs[p[i]]
  PROVE  Reordered(n, fs, gs)
<1>1. /\ p \in [1..n -> 1..n]
      /\ \A i, j \in 1..n : p[i] = p[j] => i = j
      /\ \A j \in 1..n : \E i \in 1..n : p[i] = j
  BY DEF Bijection, Injection, Surjection, IsInjective
<1>2. Embeds(gs, fs, p)
  BY <1>1 DEF Embeds, Injection, IsInjective
<1> DEFINE back(j) == CHOOSE i \in 1..n : p[i] = j
           q == [j \in 1..n |-> back(j)]
<1>3. \A j \in 1..n : back(j) \in 1..n /\ p[back(j)] = j
  BY <1>1
<1> HIDE DEF back
<1>4. q \in [1..n -> 1..n] /\ \A j \in 1..n : p[q[j]] = j
  BY <1>3
<1> HIDE DEF q
<1>5. \A i, j \in 1..n : q[i] = q[j] => i = j
  BY <1>4
<1>6. \A i \in 1..n : fs[i] = gs[q[i]]
  <2> TAKE i \in 1..n
  <2>1. q[i] \in 1..n /\ p[q[i]] = i
    BY <1>4
  <2> QED BY <2>1
<1>7. Embeds(fs, gs, q)
  BY <1>4, <1>5, <1>6 DEF Embeds, Injection, IsInjective
<1> QED
  BY <1>2, <1>7 DEF Reordered

LEMMA SameFindings ==
  ASSUME NEW n, NEW fs, NEW gs, Reordered(n, fs, gs)
  PROVE  /\ \A f : Redundant(gs, f) <=> Redundant(fs, f)
         /\ ToSet(fs) = ToSet(gs)
<1>1. PICK e : Embeds(fs, gs, e)
  BY DEF Reordered
<1>2. PICK d : Embeds(gs, fs, d)
  BY DEF Reordered
<1>3. \A i \in DOMAIN fs : e[i] \in DOMAIN gs /\ fs[i] = gs[e[i]]
  BY <1>1 DEF Embeds, Injection
<1>4. \A i \in DOMAIN gs : d[i] \in DOMAIN fs /\ gs[i] = fs[d[i]]
  BY <1>2 DEF Embeds, Injection
<1>5. ToSet(fs) = ToSet(gs)
  BY <1>3, <1>4 DEF ToSet
<1>6. ASSUME NEW f, Redundant(fs, f)
      PROVE  Redundant(gs, f)
  <2>1. PICK g \in Generic, i \in DOMAIN fs :
          /\ f.id = g.id
          /\ fs[i].id \notin GenericIds
          /\ fs[i].res = f.res
          /\ \E v \in f.ev \cap fs[i].ev : v.type = g.type
    BY <1>6 DEF Redundant
  <2>2. e[i] \in DOMAIN gs /\ fs[i] = gs[e[i]]
    BY <1>3
  <2> QED BY <2>1, <2>2 DEF Redundant
<1>7. ASSUME NEW f, Redundant(gs, f)
      PROVE  Redundant(fs, f)
  <2>1. PICK g \in Generic, i \in DOMAIN gs :
          /\ f.id = g.id
          /\ gs[i].id \notin GenericIds
          /\ gs[i].res = f.res
          /\ \E v \in f.ev \cap gs[i].ev : v.type = g.type
    BY <1>7 DEF Redundant
  <2>2. d[i] \in DOMAIN fs /\ gs[i] = fs[d[i]]
    BY <1>4
  <2> QED BY <2>1, <2>2 DEF Redundant
<1> QED
  BY <1>5, <1>6, <1>7

\* An injection from the first m numbers into the first l needs as many.
LEMMA NoMoreThan ==
  ASSUME NEW m \in Nat, NEW l \in Nat, NEW e \in Injection(1..m, 1..l)
  PROVE  m <= l
<1>1. IsFiniteSet(1..l) /\ Cardinality(1..l) = l /\ Cardinality(1..m) = m
  BY FS_Interval
<1>2. Cardinality(1..m) <= Cardinality(1..l)
  BY <1>1, FS_Injection
<1> QED
  BY <1>1, <1>2

LEMMA KeptIsReordered ==
  ASSUME NEW n, NEW fs, NEW gs, Reordered(n, fs, gs)
  PROVE  \E m : Reordered(m, suppressRedundantBuiltinFindings(fs),
                             suppressRedundantBuiltinFindings(gs))
<1> DEFINE kept == suppressRedundantBuiltinFindings(fs)
           left == suppressRedundantBuiltinFindings(gs)
<1>1. n \in Nat /\ DOMAIN fs = 1..n /\ DOMAIN gs = 1..n
  BY DEF Reordered
<1>2. /\ \A f : Redundant(gs, f) <=> Redundant(fs, f)
      /\ \A f : Redundant(fs, f) <=> Redundant(gs, f)
  BY SameFindings
<1>3. PICK e : Embeds(fs, gs, e)
  BY DEF Reordered
<1>4. PICK d : Embeds(gs, fs, d)
  BY DEF Reordered
<1>5. PICK x : Embeds(kept, left, x)
  BY <1>1, <1>2, <1>3, KeptEmbeds
<1>6. PICK y : Embeds(left, kept, y)
  BY <1>1, <1>2, <1>4, KeptEmbeds
<1>7. Remains(n, fs, kept) /\ Remains(n, gs, left)
  BY <1>1, KeptRemains
<1> HIDE DEF kept, left
<1>8. PICK m \in 0..n : DOMAIN kept = 1..m
  BY <1>7 DEF Remains
<1>9. PICK l \in 0..n : DOMAIN left = 1..l
  BY <1>7 DEF Remains
<1>10. m \in Nat /\ l \in Nat
  BY <1>1
<1>11. m <= l
  BY <1>5, <1>8, <1>9, <1>10, NoMoreThan DEF Embeds
<1>12. l <= m
  BY <1>6, <1>8, <1>9, <1>10, NoMoreThan DEF Embeds
<1>13. m = l
  BY <1>10, <1>11, <1>12
<1>14. Reordered(m, kept, left)
  BY <1>5, <1>6, <1>8, <1>9, <1>10, <1>13 DEF Reordered
<1> QED
  BY <1>14 DEF kept, left

LEMMA SortedAlike ==
  ASSUME NEW b, NEW n, NEW fs, Comparable(b, n, fs), NEW gs, Comparable(b, n, gs),
         Reordered(n, fs, gs), NEW k \in 1..n
  PROVE  SameKey(b, sortFindings(b, fs)[k], sortFindings(b, gs)[k])
<1> DEFINE x == sortFindings(b, fs)[k]
           y == sortFindings(b, gs)[k]
<1>1. PICK e : Embeds(fs, gs, e)
  BY DEF Reordered
<1>2. PICK d : Embeds(gs, fs, d)
  BY DEF Reordered
<1>3. ~Before(b, x, y)
  BY <1>1, NoneComesEarlier
<1>4. ~Before(b, y, x)
  BY <1>2, NoneComesEarlier
<1>5. Kth(b, n, fs, k, x) /\ Kth(b, n, gs, k, y)
  BY CountedInOrder
<1> HIDE DEF x, y
<1>6. HasKey(b, x) /\ HasKey(b, y)
  BY <1>5 DEF Kth, Comparable
<1>7. SameKey(b, x, y)
  BY <1>3, <1>4, <1>6, BeforeIsWeakOrder
<1> QED
  BY <1>7 DEF x, y
\* A list in another order is still one that the rules may produce.
LEMMA ReorderedRaw ==
  ASSUME NEW fs, IsRawList(fs), NEW p \in Bijection(DOMAIN fs, DOMAIN fs)
  PROVE  LET gs == [i \in DOMAIN fs |-> fs[p[i]]]
         IN  /\ IsRawList(gs)
             /\ Reordered(Len(fs), Noted(fs), Noted(gs))
<1> DEFINE n == Len(fs)
           gs == [i \in DOMAIN fs |-> fs[p[i]]]
<1>1. n \in Nat /\ DOMAIN fs = 1..n /\ DOMAIN gs = 1..n
  BY RawIsList
<1>2. p \in Bijection(1..n, 1..n)
  BY <1>1
<1>3. \A i \in 1..n : p[i] \in 1..n /\ gs[i] = fs[p[i]]
  BY <1>1, <1>2 DEF Bijection, Injection
<1>4. gs = [k \in DOMAIN gs |-> gs[k]]
  OBVIOUS
<1> HIDE DEF n, gs
<1>5. gs \in Seq(ToSet(gs))
  BY <1>1, <1>4, FunctionIsSequence
<1>6. ToSet(gs) \subseteq ToSet(fs)
  BY <1>1, <1>3 DEF ToSet
<1>7. IsRawList(gs)
  BY <1>5, <1>6 DEF IsRawList
<1>8. DOMAIN Noted(fs) = 1..n /\ DOMAIN Noted(gs) = 1..n
  BY <1>1 DEF Noted
<1>9. \A i \in 1..n : Noted(gs)[i] = Noted(fs)[p[i]]
  BY <1>1, <1>3 DEF Noted
<1>10. Reordered(n, Noted(fs), Noted(gs))
  BY <1>1, <1>2, <1>8, <1>9, ReorderingHolds
<1> QED
  BY <1>7, <1>10 DEF n, gs

\* Two reorderings of a list of findings end up with the same ranks.
LEMMA RankedAlike ==
  ASSUME NEW g \in Graphs, NEW fs, IsRawList(fs), NEW gs, IsRawList(gs),
         NEW n, Reordered(n, Noted(fs), Noted(gs))
  PROVE  [k \in DOMAIN Sorted(g, gs) |-> RankKey(Bonus(g, gs), Sorted(g, gs)[k])]
           = [k \in DOMAIN Sorted(g, fs) |-> RankKey(Bonus(g, fs), Sorted(g, fs)[k])]
<1>1. PICK m : Reordered(m, Kept(fs), Kept(gs))
  BY KeptIsReordered DEF Kept
<1>2. Bonus(g, fs) = Bonus(g, gs)
  <2>1. ToSet(Kept(fs)) = ToSet(Kept(gs))
    BY <1>1, SameFindings
  <2> QED BY <2>1 DEF Bonus, rankRootCauseBias
<1> DEFINE b == Bonus(g, fs)
<1>3. /\ DOMAIN Sorted(g, fs) = 1..m /\ Comparable(b, m, Kept(fs))
      /\ \A k \in 1..m : HasKey(b, Sorted(g, fs)[k]) /\ Sorted(g, fs)[k].id \in DOMAIN IdRank
  <2>0. PICK l \in 0..Len(fs) : Passed(g, fs, l)
    BY SortedIsList
  <2>1. /\ DOMAIN Kept(fs) = 1..l
        /\ DOMAIN Sorted(g, fs) = 1..l
        /\ \A k \in 1..l : HasKey(Bonus(g, fs), Kept(fs)[k])
        /\ \A k \in 1..l : HasKey(Bonus(g, fs), Sorted(g, fs)[k])
        /\ \A k \in 1..l : \E i \in 1..Len(fs) : Sorted(g, fs)[k] = Noted(fs)[i]
    BY <2>0 DEF Passed
  <2>2. m \in Nat /\ 1..l = 1..m
    BY <1>1, <2>1 DEF Reordered
  <2>3. ASSUME NEW k \in 1..l
        PROVE  Sorted(g, fs)[k].id \in DOMAIN IdRank
    <3>1. PICK i \in 1..Len(fs) : Sorted(g, fs)[k] = Noted(fs)[i]
      BY <2>1
    <3>2. SameButScore(Noted(fs)[i], fs[i]) /\ IsFinding(fs[i])
      BY NotedIsList, RawIsList
    <3> QED BY <3>1, <3>2 DEF SameButScore, IsFinding
  <2> QED BY <2>1, <2>2, <2>3 DEF Comparable
<1>4. /\ DOMAIN Sorted(g, gs) = 1..m /\ Comparable(b, m, Kept(gs))
      /\ \A k \in 1..m : HasKey(b, Sorted(g, gs)[k]) /\ Sorted(g, gs)[k].id \in DOMAIN IdRank
  <2>0. PICK l \in 0..Len(gs) : Passed(g, gs, l)
    BY SortedIsList
  <2>1. /\ DOMAIN Kept(gs) = 1..l
        /\ DOMAIN Sorted(g, gs) = 1..l
        /\ \A k \in 1..l : HasKey(Bonus(g, gs), Kept(gs)[k])
        /\ \A k \in 1..l : HasKey(Bonus(g, gs), Sorted(g, gs)[k])
        /\ \A k \in 1..l : \E i \in 1..Len(gs) : Sorted(g, gs)[k] = Noted(gs)[i]
    BY <2>0 DEF Passed
  <2>2. m \in Nat /\ 1..l = 1..m
    BY <1>1, <2>1 DEF Reordered
  <2>3. ASSUME NEW k \in 1..l
        PROVE  Sorted(g, gs)[k].id \in DOMAIN IdRank
    <3>1. PICK i \in 1..Len(gs) : Sorted(g, gs)[k] = Noted(gs)[i]
      BY <2>1
    <3>2. SameButScore(Noted(gs)[i], gs[i]) /\ IsFinding(gs[i])
      BY NotedIsList, RawIsList
    <3> QED BY <3>1, <3>2 DEF SameButScore, IsFinding
  <2> QED BY <1>2, <2>1, <2>2, <2>3 DEF Comparable
<1> HIDE DEF b
<1>5. Sorted(g, fs) = sortFindings(b, Kept(fs)) /\ Sorted(g, gs) = sortFindings(b, Kept(gs))
  BY <1>2 DEF Sorted, b
<1>6. ASSUME NEW k \in 1..m
      PROVE  RankKey(b, Sorted(g, gs)[k]) = RankKey(b, Sorted(g, fs)[k])
  <2> DEFINE x == Sorted(g, fs)[k]
             y == Sorted(g, gs)[k]
  <2>1. SameKey(b, x, y)
    BY <1>1, <1>3, <1>4, <1>5, SortedAlike
  <2>2. x.id \in DOMAIN IdRank /\ y.id \in DOMAIN IdRank
    BY <1>3, <1>4
  <2> HIDE DEF x, y
  <2>3. x.id = y.id
    BY <2>1, <2>2, IdRankAssumption DEF SameKey
  <2>4. RankKey(b, y) = RankKey(b, x)
    BY <2>1, <2>3 DEF SameKey, RankKey
  <2> QED BY <2>4 DEF x, y
<1>7. Bonus(g, gs) = b /\ Bonus(g, fs) = b
  BY <1>2 DEF b
<1> QED
  BY <1>3, <1>4, <1>6, <1>7

\* The report is the same whatever order rules and resources come in.
THEOREM OrderOfEvaluationIrrelevant == Spec => []EvaluationOrderIrrelevant
<1>1. PipelineInv => EvaluationOrderIrrelevant
  <2> SUFFICES ASSUME PipelineInv, stage = "done", NEW p \in Bijection(DOMAIN raw, DOMAIN raw)
               PROVE  Ranked([i \in DOMAIN raw |-> raw[p[i]]])
                        = [i \in DOMAIN list |-> RankKey(bias, list[i])]
    BY DEF EvaluationOrderIrrelevant
  <2>1. /\ graph \in Graphs /\ IsRawList(raw)
        /\ bias = Bonus(graph, raw) /\ list = Sorted(graph, raw)
    BY DEF PipelineInv
  <2> DEFINE gs == [i \in DOMAIN raw |-> raw[p[i]]]
  <2>2. IsRawList(gs) /\ Reordered(Len(raw), Noted(raw), Noted(gs))
    BY <2>1, ReorderedRaw
  <2> HIDE DEF gs
  <2>3. Ranked(gs) = [k \in DOMAIN Sorted(graph, gs) |->
                        RankKey(Bonus(graph, gs), Sorted(graph, gs)[k])]
    BY DEF Ranked, Noted, Kept, Bonus, Sorted
  <2> QED BY <2>1, <2>2, <2>3, RankedAlike DEF gs
<1> QED
  BY <1>1, Pipeline, PTL
=============================================================================
