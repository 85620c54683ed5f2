------------------------- MODULE Availability_proofs ------------------------
(***************************************************************************)
(* The answers of get_availability beside a moving ledger: of one moment,  *)
(* naming the best warehouse that has stock, and with a backorder flag     *)
(* that tells whether anything is left.                                    *)
(***************************************************************************)
EXTENDS Availability, ReservationTable_proofs, FiniteSetTheorems, TLAPS

\* A set of natural numbers has a least one: the induction of the lemmas below.
LEMMA FirstOf ==
  ASSUME NEW T, T \subseteq Nat, T # {}
  PROVE  \E i \in T : \A j \in T : i <= j
<1> DEFINE less == {p \in Nat \X Nat : p[1] < p[2]}
<1>1. IsWellFoundedOn(less, Nat)
  BY NatLessThanWellFounded, Zenon DEF OpToRel
<1>2. PICK i \in T : \A j \in T : <<j, i>> \notin less
  <2> HIDE DEF less
  <2> QED
    BY <1>1, WFMin
<1>3. \A j \in T : ~(j < i)
  BY <1>2
<1> QED
  BY <1>3

-----------------------------------------------------------------------------
(* sum(w["atp"] for w in warehouses), as the library's fold takes it *)

\* What MapThenSumSet has left to add once it has taken an element.
Rest(s) == s \ {CHOOSE x \in s : TRUE}

\* g adds f up over every subset of W, one element after the other.
Sums(f, W, g) ==
  g = [s \in SUBSET W |-> IF s = {} THEN 0 ELSE f[CHOOSE x \in s : TRUE] + g[Rest(s)]]

\* Taking one element leaves one less.
LEMMA RestIsSmaller ==
  ASSUME NEW s, IsFiniteSet(s), s # {}
  PROVE  /\ (CHOOSE x \in s : TRUE) \in s
         /\ Rest(s) \subseteq s /\ IsFiniteSet(Rest(s))
         /\ Cardinality(s) \in Nat /\ Cardinality(Rest(s)) \in Nat
         /\ Cardinality(Rest(s)) = Cardinality(s) - 1
<1>1. (CHOOSE x \in s : TRUE) \in s
  OBVIOUS
<1> QED
  BY <1>1, FS_RemoveElement, FS_CardinalityType DEF Rest

\* Such a g exists: it is defined on the sets of n + 1 elements if it is on those of n.
LEMMA SumExists ==
  ASSUME NEW W, IsFiniteSet(W), NEW f \in [W -> Nat]
  PROVE  \E g : Sums(f, W, g)
<1> DEFINE Value(g, s) == IF s = {} THEN 0 ELSE f[CHOOSE x \in s : TRUE] + g[Rest(s)]
           UpTo(n) == {g \in [SUBSET W -> Nat] :
                         \A s \in SUBSET W : Cardinality(s) <= n => g[s] = Value(g, s)}
           Bad == {n \in Nat : UpTo(n) = {}}
<1>1. \A s \in SUBSET W : IsFiniteSet(s) /\ Cardinality(s) \in Nat
                          /\ Cardinality(s) <= Cardinality(W)
  BY FS_Subset, FS_CardinalityType
<1>2. \A g \in [SUBSET W -> Nat], s \in SUBSET W : Value(g, s) \in Nat
  <2> TAKE g \in [SUBSET W -> Nat], s \in SUBSET W
  <2>1. CASE s = {}
    BY <2>1
  <2>2. CASE s # {}
    <3>1. (CHOOSE x \in s : TRUE) \in W /\ Rest(s) \in SUBSET W
      BY <1>1, <2>2, RestIsSmaller
    <3> QED
      BY <2>2, <3>1
  <2> QED
    BY <2>1, <2>2
<1>3. 0 \notin Bad
  <2> DEFINE g == [s \in SUBSET W |-> 0]
  <2>1. \A s \in SUBSET W : Cardinality(s) <= 0 => s = {}
    BY <1>1, FS_EmptySet
  <2>2. g \in UpTo(0)
    BY <2>1
  <2> QED
    BY <2>2
<1>4. ASSUME NEW n \in Nat, n \notin Bad
      PROVE  n + 1 \notin Bad
  <2>1. PICK g \in UpTo(n) : TRUE
    BY <1>4
  <2> DEFINE h == [s \in SUBSET W |-> Value(g, s)]
  <2>2. g \in [SUBSET W -> Nat] /\ h \in [SUBSET W -> Nat]
    BY <1>2
  <2>3. ASSUME NEW s \in SUBSET W, Cardinality(s) <= n + 1
        PROVE  h[s] = Value(h, s)
    <3>1. CASE s = {}
      BY <3>1
    <3>2. CASE s # {}
      <4>1. Rest(s) \in SUBSET W /\ Cardinality(Rest(s)) <= n
        BY <1>1, <2>3, <3>2, RestIsSmaller
      <4>2. h[Rest(s)] = g[Rest(s)]
        BY <4>1, <2>1
      <4> QED
        BY <3>2, <4>2
    <3> QED
      BY <3>1, <3>2
  <2>4. h \in UpTo(n + 1)
    BY <2>2, <2>3
  <2> QED
    BY <2>4
<1>5. Bad = {}
  <2> SUFFICES ASSUME Bad # {} PROVE FALSE
    OBVIOUS
  <2>1. Bad \subseteq Nat
    OBVIOUS
  <2> HIDE DEF Bad
  <2>2. PICK i \in Bad : \A j \in Bad : i <= j
    BY <2>1, FirstOf
  <2>3. i \in Nat /\ i # 0
    BY <1>3, <2>1
  <2>4. i - 1 \in Nat /\ i - 1 \notin Bad
    BY <2>2, <2>3
  <2>5. (i - 1) + 1 \notin Bad
    BY <1>4, <2>4
  <2> QED
    BY <2>3, <2>5
<1>6. Cardinality(W) \in Nat
  BY FS_CardinalityType
<1>7. PICK g \in UpTo(Cardinality(W)) : TRUE
  BY <1>5, <1>6
<1>8. \A s \in SUBSET W : g[s] = Value(g, s)
  BY <1>1, <1>7
<1>9. g = [s \in SUBSET W |-> Value(g, s)]
  BY <1>7, <1>8
<1>10. Sums(f, W, g)
  BY <1>9 DEF Sums
<1> QED
  BY <1>10

\* A sum of natural numbers is one, and 0 if and only if they all are.
LEMMA SumIsZero ==
  ASSUME NEW W, IsFiniteSet(W), NEW f \in [W -> Nat], NEW g, Sums(f, W, g)
  PROVE  g[W] \in Nat /\ (g[W] = 0 <=> \A w \in W : f[w] = 0)
<1> DEFINE P(s) == g[s] \in Nat /\ (g[s] = 0 <=> \A w \in s : f[w] = 0)
           Bad == {n \in Nat : \E s \in SUBSET W : n = Cardinality(s) /\ ~P(s)}
<1>1. \A s \in SUBSET W : g[s] = IF s = {} THEN 0
                                 ELSE f[CHOOSE x \in s : TRUE] + g[Rest(s)]
  BY DEF Sums
<1>2. \A s \in SUBSET W : IsFiniteSet(s) /\ Cardinality(s) \in Nat
  BY FS_Subset, FS_CardinalityType
<1>3. Bad = {}
  <2> SUFFICES ASSUME Bad # {} PROVE FALSE
    OBVIOUS
  <2>1. PICK i \in Bad : \A j \in Bad : i <= j
    <3>1. Bad \subseteq Nat
      OBVIOUS
    <3> HIDE DEF Bad
    <3> QED
      BY <3>1, FirstOf
  <2>2. PICK s \in SUBSET W : i = Cardinality(s) /\ ~P(s)
    BY <2>1
  <2>3. s # {}
    BY <1>1, <2>2
  <2> DEFINE x == CHOOSE y \in s : TRUE
  <2>4. /\ x \in s /\ Rest(s) \in SUBSET W
        /\ Cardinality(Rest(s)) \in Nat /\ Cardinality(Rest(s)) < i
    BY <1>2, <2>2, <2>3, RestIsSmaller
  <2>5. Cardinality(Rest(s)) \notin Bad
    BY <2>1, <2>4
  <2>6. P(Rest(s))
    BY <2>4, <2>5
  <2>7. g[s] = f[x] + g[Rest(s)]
    BY <1>1, <2>3
  <2>8. s = {x} \cup Rest(s)
    BY <2>4 DEF Rest
  <2> HIDE DEF x
  <2>9. f[x] \in Nat
    BY <2>4
  <2>10. g[s] \in Nat /\ (g[s] = 0 <=> f[x] = 0 /\ g[Rest(s)] = 0)
    BY <2>6, <2>7, <2>9
  <2>11. (\A w \in s : f[w] = 0) <=> f[x] = 0 /\ \A w \in Rest(s) : f[w] = 0
    BY <2>8
  <2> QED
    BY <2>2, <2>6, <2>10, <2>11
<1>4. Cardinality(W) \notin Bad /\ Cardinality(W) \in Nat
  BY <1>2, <1>3
<1>5. P(W)
  BY <1>4
<1> QED
  BY <1>1, <1>5

\* Rows of some warehouses, each with something left or nothing.
Listed(stock) ==
  /\ DOMAIN stock \subseteq Warehouses
  /\ \A w \in DOMAIN stock : Atp(stock, w) \in Nat

\* The total is 0 or less exactly if no warehouse has any (availability.py:78-80).
LEMMA TotalTells ==
  ASSUME NEW stock, Listed(stock)
  PROVE  TotalAtp(stock) <= 0 <=> \A w \in DOMAIN stock : Atp(stock, w) <= 0
<1> DEFINE W == DOMAIN stock
           f == [w \in W |-> Atp(stock, w)]
           Eq(g) == g = [s \in SUBSET W |->
                           IF s = {} THEN 0
                           ELSE Atp(stock, CHOOSE x \in s : TRUE)
                                  + g[s \ {CHOOSE x \in s : TRUE}]]
           total == CHOOSE g : Eq(g)
<1>1. TotalAtp(stock) = total[W]
  BY Zenon DEF TotalAtp, MapThenSumSet, MapThenFoldSet
<1>2. IsFiniteSet(W) /\ f \in [W -> Nat]
  BY AvailabilityAssumption, FS_Subset DEF Listed
<1>3. ASSUME NEW g PROVE Eq(g) <=> Sums(f, W, g)
  <2>1. ASSUME NEW s \in SUBSET W, s # {}
        PROVE  f[CHOOSE x \in s : TRUE] = Atp(stock, CHOOSE x \in s : TRUE)
    <3>1. (CHOOSE x \in s : TRUE) \in W
      BY <2>1
    <3> QED
      BY <3>1
  <2> HIDE DEF f
  <2>2. [s \in SUBSET W |->
           IF s = {} THEN 0
           ELSE Atp(stock, CHOOSE x \in s : TRUE) + g[s \ {CHOOSE x \in s : TRUE}]]
        = [s \in SUBSET W |->
             IF s = {} THEN 0 ELSE f[CHOOSE x \in s : TRUE] + g[Rest(s)]]
    BY <2>1 DEF Rest
  <2> QED
    BY <2>2 DEF Sums
<1>4. \E g : Eq(g)
  <2> HIDE DEF f, Eq
  <2> QED
    BY <1>2, <1>3, SumExists
<1>5. Eq(total)
  <2> HIDE DEF Eq
  <2> QED
    BY <1>4, Zenon
<1>6. Sums(f, W, total)
  <2> HIDE DEF f, Eq, total
  <2> QED
    BY <1>3, <1>5
<1>7. /\ total[W] \in Nat
      /\ total[W] = 0 <=> \A w \in W : f[w] = 0
  <2> HIDE DEF f, total
  <2> QED
    BY <1>2, <1>6, SumIsZero
<1>8. \A w \in W : f[w] = Atp(stock, w)
  OBVIOUS
<1>9. (\A w \in W : Atp(stock, w) <= 0) <=> \A w \in W : f[w] = 0
  BY <1>2, <1>8
<1> HIDE DEF f, total, Eq
<1>10. total[W] <= 0 <=> total[W] = 0
  BY <1>7
<1> QED
  BY <1>1, <1>7, <1>9, <1>10

-----------------------------------------------------------------------------
(* The two sorts, and what is first in the sorted list.  (The order lemmas are those of *)
(* Search_proofs, which cannot be extended here: both modules have their own Products.)  *)

StrictOrder(S, R) ==
  /\ \A p \in S : <<p, p>> \notin R
  /\ \A p, q, x \in S : <<p, q>> \in R /\ <<q, x>> \in R => <<p, x>> \in R
  /\ \A p, q \in S : p # q => <<p, q>> \in R \/ <<q, p>> \in R

\* The sequence that has at place i the element with i - 1 elements before it.
LEMMA SortExists ==
  ASSUME NEW S, IsFiniteSet(S), NEW R, StrictOrder(S, R)
  PROVE  \E r \in SetToSeqs(S) : \A i, j \in DOMAIN r : i < j => <<r[i], r[j]>> \in R
<1> DEFINE Ahead(p) == {q \in S : <<q, p>> \in R}
           n == Cardinality(S)
           place == [p \in S |-> Cardinality(Ahead(p)) + 1]
<1>1. n \in Nat /\ \A p \in S : IsFiniteSet(Ahead(p)) /\ Cardinality(Ahead(p)) \in Nat
  BY FS_Subset, FS_CardinalityType
<1>2. ASSUME NEW p \in S
      PROVE  Cardinality(Ahead(p)) + 1 <= n
  <2>1. p \notin Ahead(p) /\ Ahead(p) \cup {p} \in SUBSET S
    BY DEF StrictOrder
  <2>2. Cardinality(Ahead(p) \cup {p}) = Cardinality(Ahead(p)) + 1
    BY <1>1, <2>1, FS_AddElement
  <2>3. Cardinality(Ahead(p) \cup {p}) <= n
    BY <2>1, FS_Subset
  <2> QED
    BY <2>2, <2>3
<1>3. ASSUME NEW p \in S, NEW q \in S, <<p, q>> \in R
      PROVE  Cardinality(Ahead(p)) + 1 <= Cardinality(Ahead(q))
  <2>1. p \notin Ahead(p) /\ Ahead(p) \cup {p} \in SUBSET Ahead(q)
    BY <1>3 DEF StrictOrder
  <2>2. Cardinality(Ahead(p) \cup {p}) = Cardinality(Ahead(p)) + 1
    BY <1>1, <2>1, FS_AddElement
  <2>3. Cardinality(Ahead(p) \cup {p}) <= Cardinality(Ahead(q))
    BY <1>1, <2>1, FS_Subset
  <2> QED
    BY <2>2, <2>3
<1>4. \A p \in S : place[p] = Cardinality(Ahead(p)) + 1 /\ place[p] \in 1 .. n
  BY <1>1, <1>2
<1>5. \A p, q \in S : <<p, q>> \in R => place[p] < place[q]
  <2> TAKE p, q \in S
  <2>1. /\ place[p] = Cardinality(Ahead(p)) + 1 /\ place[q] = Cardinality(Ahead(q)) + 1
        /\ Cardinality(Ahead(p)) \in Nat /\ Cardinality(Ahead(q)) \in Nat
    BY <1>1, <1>4
  <2>2. <<p, q>> \in R => Cardinality(Ahead(p)) + 1 <= Cardinality(Ahead(q))
    BY <1>3
  <2> HIDE DEF place, Ahead
  <2> QED
    BY <2>1, <2>2
<1>6. place \in [S -> 1 .. n]
  BY <1>4
<1> HIDE DEF place
<1>7. \A p, q \in S : place[p] = place[q] => p = q
  <2> TAKE p, q \in S
  <2>1. place[p] \in Int /\ place[q] \in Int
    <3>1. place[p] \in 1 .. n /\ place[q] \in 1 .. n
      BY <1>4
    <3> QED
      BY <3>1
  <2>2. p # q => place[p] < place[q] \/ place[q] < place[p]
    BY <1>5 DEF StrictOrder
  <2> QED
    BY <2>1, <2>2
<1>8. place \in Injection(S, 1 .. n)
  BY <1>6, <1>7 DEF Injection, IsInjective
<1>9. IsFiniteSet(1 .. n) /\ Cardinality(1 .. n) = n
  BY <1>1, FS_Interval
<1>10. place \in Surjection(S, 1 .. n)
  BY <1>8, <1>9, FS_Injection
<1>11. \A i \in 1 .. n : \E p \in S : place[p] = i
  BY <1>10 DEF Surjection
<1> DEFINE r == [i \in 1 .. n |-> CHOOSE p \in S : place[p] = i]
<1>12. \A i \in 1 .. n : r[i] \in S /\ place[r[i]] = i
  BY <1>11
<1>13. r \in [1 .. n -> S] /\ DOMAIN r = 1 .. n
  BY <1>11
<1> HIDE DEF r
<1>14. r \in SetToSeqs(S)
  BY <1>12, <1>13 DEF SetToSeqs
<1>15. ASSUME NEW i \in DOMAIN r, NEW j \in DOMAIN r, i < j
       PROVE  <<r[i], r[j]>> \in R
  <2>1. i \in 1 .. n /\ j \in 1 .. n /\ i \in Int /\ j \in Int
    BY <1>1, <1>13
  <2>2. r[i] \in S /\ r[j] \in S /\ place[r[i]] = i /\ place[r[j]] = j
    BY <1>12, <2>1
  <2>3. r[i] # r[j]
    BY <1>15, <2>1, <2>2
  <2>4. <<r[j], r[i]>> \in R => j < i
    BY <1>5, <2>2
  <2> QED
    BY <1>15, <2>1, <2>2, <2>3, <2>4 DEF StrictOrder
<1> QED
  BY <1>14, <1>15

\* It holds every element.
LEMMA SeqHoldsAll ==
  ASSUME NEW S, IsFiniteSet(S), NEW r \in SetToSeqs(S)
  PROVE  /\ r \in Seq(S) /\ Len(r) = Cardinality(S) /\ Len(r) \in Nat
         /\ DOMAIN r = 1 .. Len(r)
         /\ \A i, j \in DOMAIN r : r[i] = r[j] => i = j
         /\ \A p \in S : \E i \in DOMAIN r : r[i] = p
<1> DEFINE n == Cardinality(S)
<1>1. n \in Nat
  BY FS_CardinalityType
<1>2. r \in [1 .. n -> S] /\ \A i, j \in 1 .. n : i # j => r[i] # r[j]
  BY DEF SetToSeqs
<1>3. r \in Injection(1 .. n, S)
  BY <1>2 DEF Injection, IsInjective
<1>4. Cardinality(1 .. n) = n
  BY <1>1, FS_Interval
<1>5. r \in Surjection(1 .. n, S)
  BY <1>3, <1>4, FS_Injection
<1>6. \A p \in S : \E i \in 1 .. n : r[i] = p
  BY <1>5 DEF Surjection
<1>7. r \in Seq(S) /\ Len(r) = n /\ DOMAIN r = 1 .. n
  BY <1>1, <1>2
<1> QED
  BY <1>1, <1>2, <1>6, <1>7

\* The sort by distance or code has a result: each warehouse once, none before a nearer.
LEMMA SortedIs ==
  ASSUME NEW stock, Listed(stock), NEW origin \in DOMAIN Distances \cup {None}
  PROVE  LET list == Sorted(stock, origin) IN
         /\ DOMAIN list \subseteq Nat
         /\ \A i \in DOMAIN list : list[i] \in DOMAIN stock
         /\ \A w \in DOMAIN stock : \E i \in DOMAIN list : list[i] = w
         /\ \A i, j \in DOMAIN list : i < j => Before(origin, list[i], list[j])
<1> DEFINE W == DOMAIN stock
           d == [w \in W |-> IF origin = None THEN 0 ELSE Distances[origin][w]]
           R == {x \in W \X W : d[x[1]] < d[x[2]] \/ (d[x[1]] = d[x[2]] /\ x[1] < x[2])}
           Ordered(r) == \A i, j \in DOMAIN r : i < j => Before(origin, r[i], r[j])
<1>1. W \subseteq Nat /\ IsFiniteSet(W)
  BY AvailabilityAssumption, FS_Subset DEF Listed
<1>2. d \in [W -> Nat]
  <2>1. origin # None => Distances[origin] \in [Warehouses -> Nat]
    BY AvailabilityAssumption
  <2> QED
    BY <2>1 DEF Listed
<1>3. \A v, w \in W : Before(origin, v, w) <=> <<v, w>> \in R
  BY DEF Before
<1>4. \A v, w \in W : <<v, w>> \in R <=> d[v] < d[w] \/ (d[v] = d[w] /\ v < w)
  OBVIOUS
<1> HIDE DEF d, R
<1>5. StrictOrder(W, R)
  <2>1. \A v \in W : <<v, v>> \notin R
    BY <1>1, <1>2, <1>4
  <2>2. \A v, w, x \in W : <<v, w>> \in R /\ <<w, x>> \in R => <<v, x>> \in R
    BY <1>1, <1>2, <1>4
  <2>3. \A v, w \in W : v # w => <<v, w>> \in R \/ <<w, v>> \in R
    BY <1>1, <1>2, <1>4
  <2> QED
    BY <2>1, <2>2, <2>3 DEF StrictOrder
<1>6. PICK r \in SetToSeqs(W) : \A i, j \in DOMAIN r : i < j => <<r[i], r[j]>> \in R
  BY <1>1, <1>5, SortExists
<1>7. \A x \in SetToSeqs(W) : \A i \in DOMAIN x : x[i] \in W
  BY DEF SetToSeqs
<1>8. Ordered(r)
  BY <1>3, <1>6, <1>7
<1>9. Sorted(stock, origin) \in SetToSeqs(W) /\ Ordered(Sorted(stock, origin))
  BY <1>8, Zenon DEF Sorted
<1>10. /\ Len(Sorted(stock, origin)) \in Nat
       /\ DOMAIN Sorted(stock, origin) = 1 .. Len(Sorted(stock, origin))
       /\ \A w \in W : \E i \in DOMAIN Sorted(stock, origin) : Sorted(stock, origin)[i] = w
  BY <1>1, <1>9, SeqHoldsAll
<1>11. DOMAIN Sorted(stock, origin) \subseteq Nat
  BY <1>10
<1> QED
  BY <1>7, <1>9, <1>10, <1>11

\* Some warehouse that has stock promises the most.
LEMMA MostExists ==
  ASSUME NEW A \in SUBSET Warehouses, A # {}, NEW f \in [A -> Nat]
  PROVE  \E v \in A : \A w \in A : f[w] <= f[v]
<1> DEFINE R == {x \in A \X A : f[x[1]] > f[x[2]] \/ (f[x[1]] = f[x[2]] /\ x[1] < x[2])}
<1>1. A \subseteq Nat /\ IsFiniteSet(A)
  BY AvailabilityAssumption, FS_Subset
<1>2. \A v, w \in A : <<v, w>> \in R <=> f[v] > f[w] \/ (f[v] = f[w] /\ v < w)
  OBVIOUS
<1> HIDE DEF R
<1>3. StrictOrder(A, R)
  <2>1. \A v \in A : <<v, v>> \notin R
    BY <1>1, <1>2
  <2>2. \A v, w, x \in A : <<v, w>> \in R /\ <<w, x>> \in R => <<v, x>> \in R
    BY <1>1, <1>2
  <2>3. \A v, w \in A : v # w => <<v, w>> \in R \/ <<w, v>> \in R
    BY <1>1, <1>2
  <2> QED
    BY <2>1, <2>2, <2>3 DEF StrictOrder
<1>4. PICK r \in SetToSeqs(A) : \A i, j \in DOMAIN r : i < j => <<r[i], r[j]>> \in R
  BY <1>1, <1>3, SortExists
<1>5. /\ r \in Seq(A) /\ Len(r) \in Nat /\ DOMAIN r = 1 .. Len(r)
      /\ \A v \in A : \E i \in DOMAIN r : r[i] = v
  BY <1>1, <1>4, SeqHoldsAll
<1>6. 1 \in DOMAIN r /\ r[1] \in A
  BY <1>5
<1>7. ASSUME NEW w \in A
      PROVE  f[w] <= f[r[1]]
  <2>1. PICK i \in DOMAIN r : r[i] = w
    BY <1>5
  <2>2. i = 1 \/ 1 < i
    BY <1>5
  <2>3. 1 < i => <<r[1], w>> \in R
    BY <1>4, <1>6, <2>1
  <2>4. f[w] \in Nat /\ f[r[1]] \in Nat
    BY <1>6
  <2> QED
    BY <1>2, <1>6, <2>1, <2>2, <2>3, <2>4
<1> QED
  BY <1>6, <1>7

\* The warehouse named is the best (availability.py:71-76).
LEMMA NearestWins ==
  ASSUME NEW stock, Listed(stock),
         NEW origin \in DOMAIN Distances \cup {None}
  PROVE  LET nearest == Nearest(stock, origin)
             rivals == {w \in DOMAIN stock : Atp(stock, w) > 0} \ {nearest}
         IN
         /\ nearest = None => rivals = {}
         /\ nearest # None =>
              /\ Atp(stock, nearest) > 0
              /\ \A w \in rivals :
                   IF origin # None
                     THEN LET d == Distances[origin] IN
                          d[nearest] < d[w] \/ (d[nearest] = d[w] /\ nearest < w)
                     ELSE \/ Atp(stock, nearest) > Atp(stock, w)
                          \/ Atp(stock, nearest) = Atp(stock, w) /\ nearest < w
<1> DEFINE list == Sorted(stock, origin)
           available == Available(stock, list)
           best == {i \in available :
                      \/ origin # None
                      \/ \A j \in available : Atp(stock, list[j]) <= Atp(stock, list[i])}
           nearest == Nearest(stock, origin)
<1>1. /\ DOMAIN list \subseteq Nat
      /\ \A i \in DOMAIN list : list[i] \in DOMAIN stock
      /\ \A w \in DOMAIN stock : \E i \in DOMAIN list : list[i] = w
      /\ \A i, j \in DOMAIN list : i < j => Before(origin, list[i], list[j])
  BY SortedIs
<1>2. nearest = IF available = {} THEN None ELSE list[Min(best)]
  BY Zenon DEF Nearest
<1> HIDE DEF list, nearest
<1>3. \A i : i \in available <=> i \in DOMAIN list /\ Atp(stock, list[i]) > 0
  BY DEF Available
<1>4. CASE available = {}
  <2>1. \A w \in DOMAIN stock : ~(Atp(stock, w) > 0)
    BY <1>1, <1>3, <1>4
  <2> QED
    BY <1>2, <1>4, <2>1 DEF nearest
<1>5. CASE available # {}
  <2> HIDE DEF available
  <2>1. \A i \in available : i \in Nat /\ list[i] \in DOMAIN stock /\ Atp(stock, list[i]) \in Nat
    BY <1>1, <1>3 DEF Listed
  <2>2. best # {} /\ best \subseteq Nat
    <3>1. best \subseteq Nat
      BY <2>1
    <3>2. CASE origin # None
      BY <1>5, <3>1, <3>2
    <3>3. CASE origin = None
      <4> DEFINE A == {list[i] : i \in available}
                 f == [w \in A |-> Atp(stock, w)]
      <4>1. A \in SUBSET Warehouses /\ A # {} /\ f \in [A -> Nat]
        BY <1>5, <2>1 DEF Listed
      <4>2. \A w \in A : f[w] = Atp(stock, w)
        OBVIOUS
      <4>3. PICK v \in A : \A w \in A : f[w] <= f[v]
        <5> HIDE DEF A, f
        <5> QED
          BY <4>1, MostExists
      <4>4. PICK i \in available : list[i] = v
        OBVIOUS
      <4>5. \A j \in available : list[j] \in A
        OBVIOUS
      <4> HIDE DEF A, f
      <4>6. \A j \in available : Atp(stock, list[j]) <= Atp(stock, list[i])
        BY <4>2, <4>3, <4>4, <4>5
      <4> QED
        BY <3>1, <4>6
    <3> QED
      BY <3>1, <3>2, <3>3
  <2>3. Min(best) \in best /\ \A i \in best : Min(best) <= i
    <3> HIDE DEF best
    <3>1. \E i \in best : \A j \in best : i <= j
      BY <2>2, FirstOf
    <3> QED
      BY <3>1, Zenon DEF Min
  <2> DEFINE k == Min(best)
  <2>4. k \in available /\ k \in best /\ \A i \in best : k <= i
    BY <2>3
  <2>5. nearest = list[k]
    BY <1>2, <1>5
  <2> HIDE DEF k
  <2>6. nearest \in DOMAIN stock /\ nearest # None /\ Atp(stock, nearest) > 0
    BY <1>3, <2>1, <2>4, <2>5, AvailabilityAssumption DEF Listed
  <2>7. ASSUME NEW w \in DOMAIN stock, Atp(stock, w) > 0, w # nearest
        PROVE  IF origin # None
                 THEN LET d == Distances[origin] IN
                      d[nearest] < d[w] \/ (d[nearest] = d[w] /\ nearest < w)
                 ELSE \/ Atp(stock, nearest) > Atp(stock, w)
                      \/ Atp(stock, nearest) = Atp(stock, w) /\ nearest < w
    <3>1. PICK i \in DOMAIN list : list[i] = w
      BY <1>1
    <3>2. i \in available /\ i # k /\ k \in DOMAIN list /\ i \in Nat /\ k \in Nat
      BY <1>3, <2>1, <2>4, <2>5, <2>7, <3>1
    <3>3. i \in best => Before(origin, nearest, w)
      BY <1>1, <2>4, <2>5, <3>1, <3>2
    <3>4. CASE origin # None
      <4>1. Before(origin, nearest, w)
        BY <3>2, <3>3, <3>4
      <4> QED
        BY <3>4, <4>1 DEF Before
    <3>5. CASE origin = None
      <4>1. Atp(stock, w) \in Nat /\ Atp(stock, nearest) \in Nat
        BY <2>6 DEF Listed
      <4>2. Atp(stock, w) <= Atp(stock, nearest)
        BY <2>4, <2>5, <3>1, <3>2, <3>5
      <4>3. Atp(stock, w) = Atp(stock, nearest) => i \in best
        BY <2>4, <2>5, <3>1, <3>2, <3>5
      <4>4. i \in best => nearest < w
        BY <3>3, <3>5 DEF Before
      <4> QED
        BY <3>5, <4>1, <4>2, <4>3, <4>4
    <3> QED
      BY <3>4, <3>5
  <2> QED
    BY <2>6, <2>7 DEF nearest
<1> QED
  BY <1>4, <1>5

-----------------------------------------------------------------------------
(* The call beside the moving ledger *)

\* Every field of the call is there.
QueryOK ==
  query = [step |-> query.step, sku |-> query.sku, region |-> query.region,
           answer |-> query.answer]

\* The ledger is well typed and never promises more than there is.
LedgerOK ==
  /\ loaded \in BOOLEAN
  /\ on_hand \in [Rows -> Nat]
  /\ reservations \in ReservationTables
  /\ \A r \in Rows : Held(reservations, r) <= on_hand[r]

\* A call that has found its product will read a moment that is remembered.
MomentsOK == query.step = "found" =>
  query.sku \in Products /\ Stock(query.sku) \in moments

\* An answer is of a moment, and its flag is about that moment.
AnswerOK == query.step = "answered" =>
  /\ query.answer.stock \in moments
  /\ query.answer.backorder
       <=> \A w \in DOMAIN query.answer.stock : Atp(query.answer.stock, w) <= 0

\* What every step keeps.
IInv == QueryOK /\ LedgerOK /\ MomentsOK /\ AnswerOK /\ NearestIsBest

\* No warehouse promises less than nothing of any product.
LEMMA StockIsNeverNegative ==
  ASSUME LedgerOK, NEW sku \in Products
  PROVE  Listed(Stock(sku))
<1>1. DOMAIN Stock(sku) \subseteq Warehouses
  BY DEF Stock
<1>2. ASSUME NEW w \in DOMAIN Stock(sku)
      PROVE  Atp(Stock(sku), w) \in Nat
  <2>1. <<sku, w>> \in Rows
    BY <1>1, <1>2 DEF Rows
  <2>2. on_hand[<<sku, w>>] \in Nat /\ Held(reservations, <<sku, w>>) \in Nat
    BY <2>1, UnitsFinite DEF LedgerOK
  <2>3. Held(reservations, <<sku, w>>) <= on_hand[<<sku, w>>]
    BY <2>1 DEF LedgerOK
  <2>4. Atp(Stock(sku), w) = on_hand[<<sku, w>>] - Held(reservations, <<sku, w>>)
    BY <1>2 DEF Atp, Stock
  <2> QED
    BY <2>2, <2>3, <2>4
<1> QED
  BY <1>1, <1>2 DEF Listed

\* No call has read anything at the start.
LEMMA InitIInv == InitAvailability => IInv
<1> SUFFICES ASSUME InitAvailability PROVE IInv
  OBVIOUS
<1>1. query = [step |-> "idle", sku |-> None, region |-> None, answer |-> NoAnswer]
  BY DEF InitAvailability
<1>2. QueryOK /\ MomentsOK /\ AnswerOK /\ NearestIsBest
  BY <1>1 DEF QueryOK, MomentsOK, AnswerOK, NearestIsBest
<1>3. /\ on_hand \in [Rows -> Nat] /\ reservations = [i \in Ids |-> NoReservation]
      /\ loaded \in BOOLEAN
  BY AvailabilityAssumption DEF InitAvailability, CatalogInit, Init
<1>4. reservations \in ReservationTables
  BY <1>3 DEF ReservationTables
<1>5. \A r \in Rows : Held(reservations, r) <= on_hand[r]
  BY <1>3, HeldEmpty
<1> QED
  BY <1>2, <1>3, <1>4, <1>5 DEF IInv, LedgerOK

\* A reservation keeps the ledger within what there is (reserve.py:48).
LEMMA TradeKept ==
  ASSUME LedgerOK, Next, UNCHANGED loaded
  PROVE  LedgerOK' /\ UNCHANGED on_hand
<1>1. UNCHANGED on_hand
  BY DEF Next, Reserve, Release
<1>2. ASSUME NEW i \in Ids, NEW r \in Rows, NEW q \in Quantities, Reserve(i, r, q)
      PROVE  LedgerOK'
  <2>1. /\ reservations[i] = NoReservation /\ q <= Promisable(r)
        /\ reservations' = [reservations EXCEPT ![i] = NewReservation(r, q)]
    BY <1>2 DEF Reserve
  <2>2. reservations' \in ReservationTables
    BY <2>1 DEF LedgerOK, ReservationTables, NewReservation, Reservation
  <2>3. ASSUME NEW s \in Rows
        PROVE  Held(reservations', s) <= on_hand[s]
    <3>1. reservations \in ReservationTables
      BY DEF LedgerOK
    <3>2. Held([reservations EXCEPT ![i] = NewReservation(r, q)], s)
            = Held(reservations, s) + (IF s = r THEN q ELSE 0)
      <4>1. reservations[i] = NoReservation
        BY <2>1
      <4> QED
        BY <3>1, <4>1, HeldAfterInsert, SMT
    <3>3. /\ Held(reservations, s) \in Nat /\ on_hand[s] \in Nat /\ q \in Nat
          /\ Held(reservations, s) <= on_hand[s]
      BY UnitsFinite, TableAssumption DEF LedgerOK, Quantities
    <3>4. s = r => q <= on_hand[s] - Held(reservations, s)
      BY <2>1 DEF Promisable
    <3> QED
      BY <2>1, <3>2, <3>3, <3>4
  <2> QED
    BY <1>1, <2>2, <2>3 DEF LedgerOK
<1>3. ASSUME NEW i \in Ids, Release(i)
      PROVE  LedgerOK'
  <2>1. /\ IsActive(reservations, i)
        /\ reservations' = [reservations EXCEPT ![i].status = "released"]
    BY <1>3 DEF Release
  <2>2. reservations \in ReservationTables /\ reservations[i] \in Reservation
    BY <2>1 DEF LedgerOK, ReservationTables, IsActive
  <2>3. reservations' \in ReservationTables
    BY <2>1, <2>2 DEF ReservationTables, Reservation
  <2>4. ASSUME NEW s \in Rows
        PROVE  Held(reservations', s) <= on_hand[s]
    <3> DEFINE freed == IF s = reservations[i].row THEN reservations[i].quantity ELSE 0
    <3>1. Held(reservations, s) = Held(reservations', s) + freed
      BY <2>1, <2>2, HeldAfterRelease
    <3>2. /\ Held(reservations, s) \in Nat /\ Held(reservations', s) \in Nat
          /\ on_hand[s] \in Nat /\ Held(reservations, s) <= on_hand[s]
      BY UnitsFinite DEF LedgerOK
    <3>3. freed \in Nat
      BY <2>2, TableAssumption DEF Reservation, Quantities
    <3> HIDE DEF freed
    <3> QED
      BY <3>1, <3>2, <3>3
  <2> QED
    BY <1>1, <2>3, <2>4 DEF LedgerOK
<1> QED
  BY <1>1, <1>2, <1>3 DEF Next

\* And so do the reset and the load, before which there are no reservations.
LEMMA LedgerKept ==
  ASSUME LedgerOK, CatalogNext
  PROVE  LedgerOK' /\ UNCHANGED on_hand
<1>1. CASE Trade
  BY <1>1, TradeKept DEF Trade
<1>2. CASE Unload
  <2>1. /\ loaded' = FALSE /\ reservations' = [i \in Ids |-> NoReservation]
        /\ UNCHANGED on_hand
    BY <1>2 DEF Unload
  <2>2. \A r \in Rows : Held(reservations', r) <= on_hand'[r]
    BY <2>1, HeldEmpty DEF LedgerOK
  <2> QED
    BY <2>1, <2>2 DEF LedgerOK, ReservationTables
<1>3. CASE Load
  BY <1>3 DEF Load, vars, LedgerOK
<1> QED
  BY <1>1, <1>2, <1>3 DEF CatalogNext

\* Every step of the reader and of the ledger keeps the invariant.
LEMMA NextIInv == IInv /\ [NextAvailability]_allVars => IInv'
<1> SUFFICES ASSUME IInv, [NextAvailability]_allVars PROVE IInv'
  OBVIOUS
<1>1. ASSUME NEW sku \in Skus, NEW region \in Regions \cup {None}, LookUp(sku, region)
      PROVE  IInv'
  <2> DEFINE found == loaded /\ sku \in Products
  <2>1. /\ query' = [step |-> IF found THEN "found" ELSE "not_found",
                     sku |-> sku, region |-> region, answer |-> NoAnswer]
        /\ moments' = IF found THEN {Stock(sku)} ELSE {}
        /\ UNCHANGED <<on_hand, reservations, loaded>>
    BY <1>1 DEF LookUp, catalogVars, vars
  <2>2. LedgerOK'
    BY <2>1 DEF IInv, LedgerOK
  <2>3. QueryOK' /\ AnswerOK' /\ NearestIsBest'
    BY <2>1 DEF QueryOK, AnswerOK, NearestIsBest
  <2>4. MomentsOK'
    BY <2>1 DEF MomentsOK, Stock
  <2> QED
    BY <2>2, <2>3, <2>4 DEF IInv
<1>2. CASE ReadStock
  <2> DEFINE stock == Stock(query.sku)
  <2>1. /\ query.step = "found"
        /\ query' = [query EXCEPT !.step = "answered",
                                  !.answer = Answer(stock, Origin(query.region))]
        /\ UNCHANGED <<on_hand, reservations, loaded, moments>>
    BY <1>2 DEF ReadStock, catalogVars, vars
  <2>2. query' = [step |-> "answered", sku |-> query.sku, region |-> query.region,
                  answer |-> Answer(stock, Origin(query.region))]
    BY <2>1 DEF IInv, QueryOK
  <2>3. LedgerOK' /\ QueryOK' /\ MomentsOK'
    BY <2>1, <2>2 DEF IInv, LedgerOK, QueryOK, MomentsOK
  <2>4. stock \in moments /\ query.sku \in Products
    BY <2>1 DEF IInv, MomentsOK
  <2>5. Listed(stock)
    BY <2>4, StockIsNeverNegative DEF IInv
  <2>6. /\ query'.answer.stock = stock
        /\ query'.answer.nearest = Nearest(stock, Origin(query.region))
        /\ query'.answer.backorder = (TotalAtp(stock) <= 0)
        /\ query'.region = query.region
    BY <2>2 DEF Answer
  <2> HIDE DEF stock
  <2>7. query'.answer.backorder <=> \A w \in DOMAIN stock : Atp(stock, w) <= 0
    BY <2>5, <2>6, TotalTells
  <2>8. AnswerOK'
    BY <2>1, <2>4, <2>6, <2>7 DEF AnswerOK, Atp
  <2>9. /\ Origin(query.region) \in DOMAIN Distances \cup {None}
        /\ query.region # None /\ Upper(query.region) \in DOMAIN Distances =>
             Origin(query.region) = Upper(query.region) /\ Origin(query.region) # None
        /\ ~(query.region # None /\ Upper(query.region) \in DOMAIN Distances) =>
             Origin(query.region) = None
    BY AvailabilityAssumption DEF Origin
  <2>10. NearestIsBest'
    BY <2>5, <2>6, <2>9, NearestWins DEF NearestIsBest, Atp
  <2> QED
    BY <2>3, <2>8, <2>10 DEF IInv
<1>3. CASE Move
  <2>1. /\ moments' = IF query.step = "found"
                        THEN moments \cup {Stock(query.sku)'} ELSE moments
        /\ UNCHANGED query
    BY <1>3 DEF Move
  <2>2. LedgerOK' /\ UNCHANGED on_hand
    BY <1>3, LedgerKept DEF IInv, Move
  <2>3. QueryOK'
    BY <2>1 DEF IInv, QueryOK
  <2>4. MomentsOK'
    BY <2>1 DEF IInv, MomentsOK
  <2>5. AnswerOK' /\ NearestIsBest'
    BY <2>1 DEF IInv, AnswerOK, NearestIsBest, Atp
  <2> QED
    BY <2>2, <2>3, <2>4, <2>5 DEF IInv
<1>4. CASE UNCHANGED allVars
  <2>1. UNCHANGED <<on_hand, reservations, loaded, query, moments>>
    BY <1>4 DEF allVars, catalogVars, vars
  <2> QED
    BY <2>1 DEF IInv, QueryOK, LedgerOK, MomentsOK, AnswerOK, NearestIsBest,
       Stock, Atp
<1> QED
  BY <1>1, <1>2, <1>3, <1>4 DEF NextAvailability

-----------------------------------------------------------------------------
(* Theorems *)

\* The ledger the reader meets is sound, and so is what the reader remembers of it.
THEOREM CallsAreSound == SpecAvailability => []IInv
<1>1. InitAvailability => IInv
  BY InitIInv
<1>2. IInv /\ [NextAvailability]_allVars => IInv'
  BY NextIInv
<1> QED
  BY <1>1, <1>2, PTL DEF SpecAvailability

\* For any products, warehouses, stock and traffic, an answer shows the stock of one
\* moment of the call, whatever is reserved meanwhile (availability.py:36-45).
THEOREM AnswersAreOfOneMoment == SpecAvailability => []AnswerIsOneMoment
<1>1. IInv => AnswerIsOneMoment
  BY DEF IInv, AnswerOK, AnswerIsOneMoment
<1> QED
  BY <1>1, CallsAreSound, PTL

\* The backorder flag, computed from a total, tells whether any single warehouse has
\* anything left (availability.py:5-6, 78-90).
THEOREM BackorderIsTold == SpecAvailability => []BackorderMeansNothingLeft
<1>1. IInv => BackorderMeansNothingLeft
  BY DEF IInv, AnswerOK, BackorderMeansNothingLeft
<1> QED
  BY <1>1, CallsAreSound, PTL

\* The warehouse that is named has stock, and of those that have it is the nearest, or
\* without a known region the one with the most; nobody is named only if none has
\* (availability.py:63-76).
THEOREM NearestIsNamed == SpecAvailability => []NearestIsBest
<1>1. IInv => NearestIsBest
  BY DEF IInv
<1> QED
  BY <1>1, CallsAreSound, PTL
=============================================================================
