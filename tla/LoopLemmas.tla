----------------------------- MODULE LoopLemmas -----------------------------
(***************************************************************************)
(* Lemmas about the forms the modules use for the loops and the sorting of *)
(* the code: recursive functions over 0..n, places given by counting, the  *)
(* greatest and the least of some numbers.                                 *)
(***************************************************************************)
EXTENDS Integers, Sequences, FiniteSetsExt, FiniteSetTheorems, FunctionTheorems,
        SequenceTheorems, WellFoundedInduction, TLAPS

-----------------------------------------------------------------------------
(* Loops.  A recursive function over 0..n is what its equation says, and   *)
(* what holds before the first turn and after every next one holds to the  *)
(* end.                                                                    *)

LEMMA LeastTurn ==
    ASSUME NEW S \in SUBSET Nat, S # {}
    PROVE  \E m \in S : \A k \in S : m <= k
<1>1. PICK m \in S : \A k \in S : ~ (<<k, m>> \in OpToRel(<, Nat))
  BY NatLessThanWellFounded, WFMin
<1>2. ASSUME NEW k \in S PROVE m <= k
  <2>1. m \in Nat /\ k \in Nat
    OBVIOUS
  <2>2. k < m => <<k, m>> \in OpToRel(<, Nat)
    BY <2>1 DEF OpToRel
  <2>3. ~ (k < m)
    BY <1>1, <2>2
  <2> QED
    BY <2>1, <2>3
<1> QED
  BY <1>2

LEMMA EveryTurn ==
    ASSUME NEW n \in Nat, NEW P, 0 \in P, \A i \in 1..n : i - 1 \in P => i \in P
    PROVE  0..n \subseteq P
<1> DEFINE Bad == 0..n \ P
<1>1. SUFFICES ASSUME Bad # {} PROVE FALSE
  OBVIOUS
<1>2. PICK m \in Bad : \A k \in Bad : m <= k
  <2>1. Bad \in SUBSET Nat
    OBVIOUS
  <2> HIDE DEF Bad
  <2> QED
    BY <1>1, <2>1, LeastTurn
<1>3. m \in 1..n /\ m - 1 \in 0..n /\ m - 1 \notin Bad
  BY <1>2
<1> QED
  BY <1>3

\* What a loop of n turns may do: turn i makes G[i, v] of v.
Loops(n, V, base, G) ==
    {f \in [0..n -> V] : f[0] = base /\ \A i \in 1..n : f[i] = G[<<i, f[i - 1]>>]}

LEMMA Looped ==
    ASSUME NEW n \in Nat, NEW V, NEW base \in V, NEW G,
           \A i \in 1..n : \A v \in V : G[<<i, v>>] \in V
    PROVE  Loops(n, V, base, G) # {}
<1> DEFINE Runs(m) == {f \in [0..m -> V] :
                          f[0] = base /\ \A i \in 1..m : f[i] = G[<<i, f[i - 1]>>]}
           P == {m \in 0..n : Runs(m) # {}}
<1>1. 0 \in P
  <2>1. [i \in 0..0 |-> base] \in Runs(0)
    OBVIOUS
  <2> QED
    BY <2>1
<1>2. ASSUME NEW m \in 1..n, m - 1 \in P PROVE m \in P
  <2>1. PICK f \in Runs(m - 1) : TRUE
    BY <1>2
  <2> DEFINE g == [i \in 0..m |-> IF i = m THEN G[<<m, f[m - 1]>>] ELSE f[i]]
  <2>2. f \in [0..(m - 1) -> V] /\ f[0] = base
        /\ \A i \in 1..(m - 1) : f[i] = G[<<i, f[i - 1]>>]
    OBVIOUS
  <2>3. f[m - 1] \in V /\ G[<<m, f[m - 1]>>] \in V
    BY <2>2
  <2>4. g \in [0..m -> V]
    BY <2>2, <2>3
  <2>5. g[0] = base
    BY <2>2
  <2>6. ASSUME NEW i \in 1..m PROVE g[i] = G[<<i, g[i - 1]>>]
    <3>1. g[i - 1] = f[i - 1]
      OBVIOUS
    <3>2. CASE i = m
      <4>1. g[i] = G[<<m, f[m - 1]>>]
        BY <3>2
      <4>2. g[m - 1] = f[m - 1]
        BY <3>1, <3>2
      <4> HIDE DEF g
      <4> QED
        BY <3>2, <4>1, <4>2
    <3>3. CASE i # m
      <4>1. i \in 1..(m - 1)
        BY <3>3
      <4>2. f[i] = G[<<i, f[i - 1]>>]
        BY <2>2, <4>1
      <4>3. g[i] = f[i]
        BY <3>3
      <4> QED
        BY <3>1, <4>2, <4>3
    <3> QED
      BY <3>2, <3>3
  <2> HIDE DEF g
  <2>7. g \in Runs(m)
    BY <2>4, <2>5, <2>6
  <2> QED
    BY <2>7
<1> HIDE DEF P
<1>3. 0..n \subseteq P
  BY <1>1, <1>2, EveryTurn
<1>4. n \in P
  BY <1>3
<1> QED
  BY <1>4 DEF P, Loops

-----------------------------------------------------------------------------
(* Places.                                                                 *)

\* Numbers given by how many come before are 1..n, in a strict total order of
\* n things.
StrictOrder(R, S) ==
    /\ \A x \in S : <<x, x>> \notin R
    /\ \A x, y, z \in S : <<x, y>> \in R /\ <<y, z>> \in R => <<x, z>> \in R
    /\ \A x, y \in S : x # y => <<x, y>> \in R \/ <<y, x>> \in R
PlacesIn(R, S) == [x \in S |-> 1 + Cardinality({y \in S : <<y, x>> \in R})]
Numbered(place, R, S) ==
    /\ \A x \in S : place[x] \in 1..Cardinality(S)
    /\ \A p \in 1..Cardinality(S) : \E x \in S : place[x] = p
    /\ \A x, y \in S : x # y => place[x] # place[y]
    /\ \A x, y \in S : place[x] < place[y] <=> <<x, y>> \in R

LEMMA PlacesOfOrder ==
    ASSUME NEW S, IsFiniteSet(S), NEW R, StrictOrder(R, S), NEW place, place = PlacesIn(R, S)
    PROVE  Numbered(place, R, S)
<1> DEFINE Earlier(x) == {y \in S : <<y, x>> \in R}
           n == Cardinality(S)
           N == 1..n
<1>1. n \in Nat /\ IsFiniteSet(N) /\ Cardinality(N) = n
  BY FS_CardinalityType, FS_Interval
<1>2. ASSUME NEW x \in S
      PROVE  IsFiniteSet(Earlier(x)) /\ Cardinality(Earlier(x)) \in 0..(n - 1)
  <2>1. Earlier(x) \subseteq S \ {x}
    BY DEF StrictOrder
  <2>2. IsFiniteSet(S \ {x}) /\ Cardinality(S \ {x}) = n - 1
    BY FS_RemoveElement
  <2> HIDE DEF Earlier
  <2>3. IsFiniteSet(Earlier(x)) /\ Cardinality(Earlier(x)) <= Cardinality(S \ {x})
    BY <2>1, <2>2, FS_Subset
  <2> QED
    BY <1>1, <2>2, <2>3, FS_CardinalityType
<1>3. ASSUME NEW x \in S, NEW y \in S, <<x, y>> \in R
      PROVE  Cardinality(Earlier(x)) < Cardinality(Earlier(y))
  <2>1. Earlier(x) \subseteq Earlier(y) /\ x \in Earlier(y) /\ x \notin Earlier(x)
    BY <1>3 DEF StrictOrder
  <2> HIDE DEF Earlier
  <2> QED
    BY <1>2, <2>1, FS_Subset, FS_CardinalityType
<1>4. place = [x \in S |-> 1 + Cardinality(Earlier(x))]
  BY DEF PlacesIn
<1> HIDE DEF Earlier
<1>5. ASSUME NEW x \in S PROVE place[x] \in N
  <2>1. Cardinality(Earlier(x)) \in 0..(n - 1)
    BY <1>2
  <2>2. place[x] = 1 + Cardinality(Earlier(x))
    BY <1>4
  <2> QED
    BY <1>1, <2>1, <2>2
<1>6. ASSUME NEW x \in S, NEW y \in S
      PROVE  (x # y => place[x] # place[y]) /\ (place[x] < place[y] <=> <<x, y>> \in R)
  <2>c. /\ Cardinality(Earlier(x)) \in Int /\ place[x] = 1 + Cardinality(Earlier(x))
        /\ Cardinality(Earlier(y)) \in Int /\ place[y] = 1 + Cardinality(Earlier(y))
    <3>1. Cardinality(Earlier(x)) \in 0..(n - 1) /\ Cardinality(Earlier(y)) \in 0..(n - 1)
      BY <1>2
    <3> QED
      BY <1>4, <3>1
  <2>2. <<x, y>> \in R => place[x] < place[y]
    BY <1>3, <2>c
  <2>3. <<y, x>> \in R => place[y] < place[x]
    BY <1>3, <2>c
  <2>4. x # y => <<x, y>> \in R \/ <<y, x>> \in R
    BY DEF StrictOrder
  <2>5. <<x, x>> \notin R
    BY DEF StrictOrder
  <2> QED
    BY <2>c, <2>2, <2>3, <2>4, <2>5
<1>7. place \in [S -> N]
  BY <1>4, <1>5
<1>8. place \in Injection(S, N)
  BY <1>6, <1>7, Fun_IsInj
<1> HIDE DEF N
<1>9. place \in Surjection(S, N)
  BY <1>1, <1>8, FS_Injection
<1>10. \A p \in N : \E x \in S : place[x] = p
  BY <1>9, Fun_SurjectionProperties
<1> QED
  BY <1>5, <1>6, <1>10 DEF Numbered, N

\* The list of the members of S by their places.
Lists(all, S) ==
    /\ Cardinality(S) \in Nat /\ DOMAIN all = 1..Cardinality(S)
    /\ all = [p \in 1..Cardinality(S) |-> all[p]]
    /\ \A p \in 1..Cardinality(S) : all[p] \in S
    /\ \A x \in S : \E p \in 1..Cardinality(S) : all[p] = x
    /\ \A p, q \in 1..Cardinality(S) : all[p] = all[q] => p = q

LEMMA ListOfOrder ==
    ASSUME NEW S, IsFiniteSet(S), NEW R, StrictOrder(R, S), NEW place, place = PlacesIn(R, S),
           NEW all, all = [p \in 1..Cardinality(S) |-> CHOOSE x \in S : place[x] = p]
    PROVE  Lists(all, S)
<1> DEFINE n == Cardinality(S)
<1>1. Numbered(place, R, S)
  BY PlacesOfOrder
<1>2. n \in Nat
  BY FS_CardinalityType
<1>3. \A p \in 1..n : all[p] = CHOOSE x \in S : place[x] = p
  OBVIOUS
<1>4. DOMAIN all = 1..n /\ all = [p \in 1..n |-> all[p]]
  OBVIOUS
<1>5. \A x \in S : place[x] \in 1..n /\ \A y \in S : x # y => place[x] # place[y]
  BY <1>1 DEF Numbered
<1>6. \A p \in 1..n : \E x \in S : place[x] = p
  BY <1>1 DEF Numbered
<1> HIDE DEF n
<1>7. \A p \in 1..n : all[p] \in S /\ place[all[p]] = p
  BY <1>3, <1>6
<1>8. \A x \in S : \E p \in 1..n : all[p] = x
  BY <1>5, <1>7
<1>9. \A p, q \in 1..n : all[p] = all[q] => p = q
  BY <1>7
<1> QED
  BY <1>2, <1>4, <1>7, <1>8, <1>9 DEF Lists, n

-----------------------------------------------------------------------------
(* The greatest number.                                                    *)

LEMMA GreatestTurn ==
    ASSUME NEW n \in Nat, NEW S \in SUBSET (0..n), S # {}
    PROVE  Max(S) \in S /\ \A x \in S : x <= Max(S)
<1> DEFINE Down == {n - x : x \in S}
<1>1. Down \in SUBSET Nat /\ Down # {}
  OBVIOUS
<1>2. PICK m \in Down : \A k \in Down : m <= k
  <2> HIDE DEF Down
  <2> QED
    BY <1>1, LeastTurn
<1>3. PICK x \in S : m = n - x
  BY <1>2
<1>4. \A y \in S : x >= y
  <2> SUFFICES ASSUME NEW y \in S PROVE x >= y
    OBVIOUS
  <2>1. m <= n - y
    BY <1>2
  <2> QED
    BY <1>3, <2>1
<1>5. Max(S) \in S /\ \A y \in S : Max(S) >= y
  BY <1>4 DEF Max
<1> QED
  BY <1>5

LEMMA LeastNumber ==
    ASSUME NEW S \in SUBSET Nat, S # {}
    PROVE  Min(S) \in S /\ \A x \in S : Min(S) <= x
<1>1. PICK m \in S : \A k \in S : m <= k
  BY LeastTurn
<1>2. Min(S) \in S /\ \A y \in S : Min(S) =< y
  BY <1>1 DEF Min
<1> QED
  BY <1>2

\* Finitely many numbers have a bound.
LEMMA Bounded ==
    ASSUME NEW n \in Nat, NEW f \in [1..n -> Nat]
    PROVE  \E b \in Nat : \A i \in 1..n : f[i] <= b
<1> DEFINE P == {i \in 0..n : \E b \in Nat : \A k \in 1..i : f[k] <= b}
<1>1. 0 \in P
  OBVIOUS
<1>2. ASSUME NEW i \in 1..n, i - 1 \in P PROVE i \in P
  <2>1. PICK b \in Nat : \A k \in 1..(i - 1) : f[k] <= b
    BY <1>2
  <2> DEFINE d == IF b < f[i] THEN f[i] ELSE b
  <2>2. d \in Nat /\ b <= d /\ f[i] <= d
    OBVIOUS
  <2> HIDE DEF d
  <2>3. \A k \in 1..i : f[k] <= d
    <3> SUFFICES ASSUME NEW k \in 1..i PROVE f[k] <= d
      OBVIOUS
    <3>1. f[k] \in Nat
      OBVIOUS
    <3>2. k = i \/ k \in 1..(i - 1)
      OBVIOUS
    <3> QED
      BY <2>1, <2>2, <3>1, <3>2
  <2>4. i \in 0..n
    OBVIOUS
  <2> QED
    BY <2>2, <2>3, <2>4
<1> HIDE DEF P
<1>3. 0..n \subseteq P
  BY <1>1, <1>2, EveryTurn
<1>4. n \in P
  BY <1>3
<1> QED
  BY <1>4 DEF P
=============================================================================
