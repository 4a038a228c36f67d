------------------------ MODULE RankingProjectProofs ------------------------
(***************************************************************************)
(* Proofs about RankingProject, for any number of editors, bakers and      *)
(* candidates and any data: first about the layout of some settings and    *)
(* about an edit of them, then about the requests.  The two halves of the  *)
(* state do not disturb each other: an editor's step leaves the bakes      *)
(* alone and the other way round.                                          *)
(***************************************************************************)
EXTENDS RankingProject, LoopLemmas

-----------------------------------------------------------------------------
(* The slots.                                                              *)

Datum == [score : Int, trimStart : Nat, trimEnd : Nat \union {Null}, asset : BOOLEAN,
          assetMs : Nat \union {Null}, narrated : BOOLEAN,
          narrationMs : Nat \union {Null}, numbered : BOOLEAN]

LEMMA Greater ==
    ASSUME NEW x \in Int, NEW y \in Int
    PROVE  Max({x, y}) = IF x >= y THEN x ELSE y
<1>1. \A m \in {x, y} : (\A k \in {x, y} : m >= k) <=> m = IF x >= y THEN x ELSE y
  OBVIOUS
<1> QED
  BY <1>1 DEF Max

LEMMA Smaller ==
    ASSUME NEW x \in Int, NEW y \in Int
    PROVE  Min({x, y}) = IF x <= y THEN x ELSE y
<1>1. \A m \in {x, y} : (\A k \in {x, y} : m <= k) <=> m = IF x <= y THEN x ELSE y
  OBVIOUS
<1> QED
  BY <1>1 DEF Min

\* A slot has a length, whatever a candidate's trim is.
LEMMA SlotHasLength ==
    ASSUME NEW d \in Datum
    PROVE  SlotMs(d) \in Nat \ {0}
<1> DEFINE end == IF d.trimEnd # Null THEN d.trimEnd ELSE d.assetMs
           range == end - d.trimStart
<1>1. end \in Nat \union {Null} /\ d.trimStart \in Nat
  BY DEF Datum
<1>2. CASE end # Null /\ end > d.trimStart
  <2>1. range \in Int /\ SlotMs(d) = Min({MaxSlot, Max({MinSlot, range})})
    BY <1>1, <1>2 DEF SlotMs
  <2> DEFINE low == Max({MinSlot, range})
  <2> HIDE DEF range
  <2>2. MinSlot \in Nat \ {0} /\ MaxSlot \in Nat \ {0}
    BY SlotAssumption
  <2>3. low \in Nat \ {0}
    BY <2>1, <2>2, Greater
  <2> HIDE DEF low
  <2>4. Min({MaxSlot, low}) \in Nat \ {0}
    BY <2>2, <2>3, Smaller
  <2> QED
    BY <2>1, <2>4 DEF low
<1>3. CASE ~ (end # Null /\ end > d.trimStart)
  BY <1>3, SlotAssumption DEF SlotMs
<1> QED
  BY <1>2, <1>3

LEMMA NarrationFits ==
    ASSUME NEW d \in Datum
    PROVE  NarrationCut(d) \in Nat /\ NarrationCut(d) <= SlotMs(d)
<1>1. SlotMs(d) \in Nat
  BY SlotHasLength
<1>2. CASE d.narrationMs = Null
  BY <1>1, <1>2 DEF NarrationCut
<1>3. CASE d.narrationMs # Null
  <2> DEFINE a == d.narrationMs
             b == SlotMs(d)
  <2>1. a \in Nat /\ b \in Nat /\ NarrationCut(d) = Min({a, b})
    BY <1>1, <1>3 DEF Datum, NarrationCut
  <2> HIDE DEF a, b
  <2>2. Min({a, b}) \in Nat /\ Min({a, b}) <= b
    BY <2>1, Smaller
  <2> QED
    BY <2>1, <2>2 DEF b
<1> QED
  BY <1>2, <1>3

\* What the layout is made from: candidates with different ids.
Candid(cs) ==
    /\ cs \in Seq(Candidate)
    /\ \A i, k \in DOMAIN cs : cs[i].id = cs[k].id => i = k

LEMMA CursorRuns ==
    ASSUME NEW q, Len(q) \in Nat, \A i \in 1..Len(q) : q[i].data \in Datum
    PROVE  /\ Cursor(q) \in [0..Len(q) -> Nat]
           /\ Cursor(q)[0] = 0
           /\ \A i \in 1..Len(q) : Cursor(q)[i] = Cursor(q)[i - 1] + SlotMs(q[i].data)
<1> DEFINE n == Len(q)
           slot == [i \in 1..n |-> SlotMs(q[i].data)]
           G == [p \in (1..n) \X Nat |-> p[2] + slot[p[1]]]
           Eq(f) == f = [i \in 0..n |-> IF i = 0 THEN 0 ELSE f[i - 1] + SlotMs(q[i].data)]
<1>1. \A i \in 1..n : slot[i] \in Nat
  BY SlotHasLength
<1>2. \A i \in 1..n : \A v \in Nat : G[<<i, v>>] = v + slot[i] /\ G[<<i, v>>] \in Nat
  <2> HIDE DEF slot
  <2> QED
    BY <1>1
<1>3. PICK f \in Loops(n, Nat, 0, G) : TRUE
  <2>1. n \in Nat /\ 0 \in Nat /\ \A i \in 1..n : \A v \in Nat : G[<<i, v>>] \in Nat
    BY <1>2
  <2> HIDE DEF G, n
  <2> QED
    BY <2>1, Looped
<1>f. f \in [0..n -> Nat] /\ f[0] = 0 /\ \A i \in 1..n : f[i] = G[<<i, f[i - 1]>>]
  <2> HIDE DEF G, n
  <2> QED
    BY DEF Loops
<1>4. \A i \in 1..n : f[i] = f[i - 1] + SlotMs(q[i].data)
  <2> SUFFICES ASSUME NEW i \in 1..n PROVE f[i] = f[i - 1] + SlotMs(q[i].data)
    OBVIOUS
  <2>0. i - 1 \in 0..n
    OBVIOUS
  <2>1. i - 1 \in 0..n /\ f[i - 1] \in Nat
    BY <1>f, <2>0
  <2>2. f[i] = f[i - 1] + slot[i]
    <3> HIDE DEF G, slot
    <3> QED
      BY <1>2, <1>f, <2>1
  <2> QED
    BY <2>2
<1>5. Eq(f)
  <2>1. \A i \in 0..n : i # 0 => i \in 1..n
    OBVIOUS
  <2> QED
    BY <1>f, <1>4, <2>1
<1>6. Eq(Cursor(q))
  <2>1. Cursor(q) = CHOOSE g : Eq(g)
    BY DEF Cursor
  <2> HIDE DEF Eq
  <2> QED
    BY <1>5, <2>1
<1>7. Cursor(q)[0] = 0 /\ \A i \in 1..n : Cursor(q)[i] = Cursor(q)[i - 1] + SlotMs(q[i].data)
  BY <1>6
<1>8. \A i \in 0..n : Cursor(q)[i] \in Nat
  <2> DEFINE P == {i \in 0..n : Cursor(q)[i] \in Nat}
  <2>1. 0 \in P
    BY <1>7
  <2>2. \A i \in 1..n : i - 1 \in P => i \in P
    BY <1>1, <1>7
  <2> HIDE DEF P
  <2>3. 0..n \subseteq P
    BY <2>1, <2>2, EveryTurn
  <2> QED
    BY <2>3 DEF P
<1>9. Cursor(q) \in [0..n -> Nat]
  BY <1>6, <1>8
<1> QED
  BY <1>7, <1>9

LEMMA CursorGrows ==
    ASSUME NEW q, Len(q) \in Nat, \A i \in 1..Len(q) : q[i].data \in Datum,
           NEW i \in 0..Len(q), NEW k \in 0..Len(q), i <= k
    PROVE  Cursor(q)[i] <= Cursor(q)[k]
<1> DEFINE n == Len(q)
           P == {m \in 0..n : i <= m => Cursor(q)[i] <= Cursor(q)[m]}
<1>1. /\ Cursor(q) \in [0..n -> Nat]
      /\ \A m \in 1..n : Cursor(q)[m] = Cursor(q)[m - 1] + SlotMs(q[m].data)
  BY CursorRuns
<1>2. \A m \in 1..n : SlotMs(q[m].data) \in Nat
  BY SlotHasLength
<1>3. 0 \in P
  BY <1>1
<1>4. ASSUME NEW m \in 1..n, m - 1 \in P PROVE m \in P
  <2>0. m - 1 \in 0..n /\ m \in 0..n
    OBVIOUS
  <2>1. Cursor(q)[m - 1] \in Nat /\ Cursor(q)[m] \in Nat /\ Cursor(q)[i] \in Nat
        /\ SlotMs(q[m].data) \in Nat
    BY <1>1, <1>2, <2>0
  <2>2. Cursor(q)[m - 1] <= Cursor(q)[m]
    BY <1>1, <2>1
  <2>3. i <= m - 1 => Cursor(q)[i] <= Cursor(q)[m - 1]
    BY <1>4
  <2> QED
    BY <2>1, <2>2, <2>3
<1> HIDE DEF P
<1>5. 0..n \subseteq P
  BY <1>3, <1>4, EveryTurn
<1> QED
  BY <1>5 DEF P
-----------------------------------------------------------------------------
(* The order.                                                              *)

\* Settings a bake may read.
SettingsOK(s) ==
    /\ s = [candidates |-> s.candidates, order |-> s.order, orderMode |-> s.orderMode,
            reveal |-> s.reveal, header |-> s.header]
    /\ Candid(s.candidates)
    /\ s.order \in {"asc", "desc"} /\ s.orderMode \in {"custom", "score"}
    /\ s.reveal \in {"countdown", "topfirst"} /\ s.header \in BOOLEAN

LEMMA CandidatesHaveData ==
    ASSUME NEW cs, Candid(cs)
    PROVE  /\ Len(cs) \in Nat /\ DOMAIN cs = 1..Len(cs)
           /\ \A k \in 1..Len(cs) : /\ cs[k] \in Candidate /\ cs[k].id \in Candidates
                                    /\ cs[k].data \in Datum
<1>1. cs \in Seq(Candidate)
  BY DEF Candid
<1>2. Len(cs) \in Nat /\ DOMAIN cs = 1..Len(cs) /\ \A k \in 1..Len(cs) : cs[k] \in Candidate
  BY <1>1
<1> QED
  BY <1>2, DataAssumption DEF Candidate, Datum

\* The order is total: stored places break the ties.
LEMMA BeforeIsOrder ==
    ASSUME NEW s, SettingsOK(s), NEW n, n = Len(s.candidates)
    PROVE  /\ \A i \in 1..n : ~ Before(s, i, i)
           /\ \A i, j, k \in 1..n : Before(s, i, j) /\ Before(s, j, k) => Before(s, i, k)
           /\ \A i, k \in 1..n : i # k => Before(s, i, k) \/ Before(s, k, i)
<1>1. n \in Nat /\ \A k \in 1..n : s.candidates[k].data.score \in Int
  BY CandidatesHaveData DEF SettingsOK, Datum
<1> DEFINE score(k) == s.candidates[k].data.score
<1>2. \A i, k : Before(s, i, k) <=>
          IF s.orderMode = "custom" \/ score(i) = score(k) THEN i < k
          ELSE IF s.order = "asc" THEN score(i) < score(k) ELSE score(i) > score(k)
  BY DEF Before
<1>3. \A k \in 1..n : score(k) \in Int
  BY <1>1
<1> HIDE DEF score
<1>4. \A i \in 1..n : ~ Before(s, i, i)
  BY <1>1, <1>2
<1>5. \A i, j, k \in 1..n : Before(s, i, j) /\ Before(s, j, k) => Before(s, i, k)
  <2> SUFFICES ASSUME NEW i \in 1..n, NEW j \in 1..n, NEW k \in 1..n,
                      Before(s, i, j), Before(s, j, k)
               PROVE  Before(s, i, k)
    OBVIOUS
  <2>1. score(i) \in Int /\ score(j) \in Int /\ score(k) \in Int
    BY <1>3
  <2>2. CASE s.orderMode = "custom"
    BY <1>1, <1>2, <2>2
  <2>3. CASE s.orderMode # "custom" /\ s.order = "asc"
    BY <1>1, <1>2, <2>1, <2>3
  <2>4. CASE s.orderMode # "custom" /\ s.order # "asc"
    BY <1>1, <1>2, <2>1, <2>4
  <2> QED
    BY <2>2, <2>3, <2>4
<1>6. \A i, k \in 1..n : i # k => Before(s, i, k) \/ Before(s, k, i)
  BY <1>1, <1>2, <1>3
<1> QED
  BY <1>4, <1>5, <1>6

\* Each slot shows one of the stored candidates, each another, and the ranks
\* are in their order.
LEMMA SlotsShowCandidates ==
    ASSUME NEW s, SettingsOK(s), NEW n, n = Len(s.candidates)
    PROVE  /\ n \in Nat /\ Len(Revealed(s)) = n /\ DOMAIN s.candidates = 1..n
           /\ \E at \in [1..n -> 1..n] :
                 /\ \A i \in 1..n : Revealed(s)[i] = s.candidates[at[i]]
                 /\ \A i, k \in 1..n : i # k => at[i] # at[k]
                 /\ \A i, k \in 1..n :
                       RankAt(s, i) < RankAt(s, k) <=> Before(s, at[i], at[k])
<1> DEFINE R == {p \in (1..n) \X (1..n) : Before(s, p[1], p[2])}
           place == [k \in 1..n |-> 1 + Cardinality({i \in 1..n : <<i, k>> \in R})]
           put == [p \in 1..n |-> CHOOSE k \in 1..n : place[k] = p]
<1>1. n \in Nat /\ DOMAIN s.candidates = 1..n /\ \A k \in 1..n : s.candidates[k] \in Candidate
  BY CandidatesHaveData DEF SettingsOK
<1>2. \A i, k \in 1..n : <<i, k>> \in R <=> Before(s, i, k)
  OBVIOUS
<1> DEFINE all == 1..n
<1>s. IsFiniteSet(all) /\ Cardinality(all) = n
  BY <1>1, FS_Interval
<1>3. Numbered(place, R, all)
  <2>1. StrictOrder(R, all)
    <3>1. /\ \A i \in 1..n : ~ Before(s, i, i)
          /\ \A i, j, k \in 1..n : Before(s, i, j) /\ Before(s, j, k) => Before(s, i, k)
          /\ \A i, k \in 1..n : i # k => Before(s, i, k) \/ Before(s, k, i)
      BY BeforeIsOrder
    <3> HIDE DEF R
    <3> QED
      BY <1>2, <3>1 DEF StrictOrder
  <2>2. place = PlacesIn(R, all)
    BY DEF PlacesIn
  <2> HIDE DEF R, place, all
  <2> QED
    BY <1>s, <2>1, <2>2, PlacesOfOrder
<1>4. Ordered(s) = [p \in 1..n |-> s.candidates[put[p]]]
  <2>1. \A k \in 1..n : {i \in 1..n : <<i, k>> \in R} = {i \in 1..n : Before(s, i, k)}
    BY <1>2
  <2>2. place = [k \in 1..n |-> 1 + Cardinality({i \in 1..n : Before(s, i, k)})]
    <3> HIDE DEF R
    <3> QED
      BY <2>1
  <2> HIDE DEF R, place
  <2> QED
    BY <1>1, <2>2 DEF Ordered
<1> HIDE DEF R, place
<1>5. \A p \in 1..n : put[p] \in 1..n /\ place[put[p]] = p
  BY <1>3, <1>s DEF Numbered
<1> HIDE DEF put
<1>6. ASSUME NEW p \in 1..n, NEW r \in 1..n
      PROVE  /\ p # r => put[p] # put[r]
             /\ p < r <=> Before(s, put[p], put[r])
  <2>1. /\ put[p] \in 1..n /\ place[put[p]] = p
        /\ put[r] \in 1..n /\ place[put[r]] = r
    BY <1>5
  <2>2. /\ put[p] # put[r] => place[put[p]] # place[put[r]]
        /\ place[put[p]] < place[put[r]] <=> <<put[p], put[r]>> \in R
    BY <1>3, <2>1 DEF Numbered
  <2>3. <<put[p], put[r]>> \in R <=> Before(s, put[p], put[r])
    BY <1>2, <2>1
  <2>4. p # r => put[p] # put[r]
    BY <2>1
  <2>5. p < r <=> Before(s, put[p], put[r])
    BY <2>1, <2>2, <2>3
  <2> QED
    BY <2>4, <2>5
<1>7. Ordered(s) \in Seq(Candidate) /\ Len(Ordered(s)) = n
  BY <1>1, <1>4, <1>5
<1> DEFINE at == [i \in 1..n |-> put[RankAt(s, i)]]
<1>8. \A i \in 1..n : RankAt(s, i) \in 1..n
  BY <1>1 DEF RankAt
<1>9. /\ Len(Revealed(s)) = n
      /\ \A i \in 1..n : Revealed(s)[i] = Ordered(s)[RankAt(s, i)]
  <2>1. CASE s.reveal = "topfirst"
    BY <1>1, <1>7, <2>1 DEF Revealed, RankAt
  <2>2. CASE s.reveal # "topfirst"
    <3>1. Revealed(s) = [i \in 1..n |-> Ordered(s)[n - i + 1]]
      BY <1>7, <2>2 DEF Revealed, Reverse
    <3>2. \A i \in 1..n : n - i + 1 \in 1..n /\ n - i + 1 = RankAt(s, i)
      BY <1>1, <2>2 DEF RankAt
    <3>3. \A p \in 1..n : Ordered(s)[p] \in Candidate
      BY <1>7
    <3>4. Revealed(s) \in Seq(Candidate) /\ Len(Revealed(s)) = n
      BY <1>1, <3>1, <3>2, <3>3
    <3> QED
      BY <3>1, <3>2, <3>4
  <2> QED
    BY <2>1, <2>2
<1>10. \A i \in 1..n : Revealed(s)[i] = s.candidates[at[i]]
  BY <1>4, <1>8, <1>9
<1>11. at \in [1..n -> 1..n]
  BY <1>5, <1>8
<1>12. \A i, k \in 1..n : i # k => RankAt(s, i) # RankAt(s, k)
  BY <1>1 DEF RankAt
<1>13. \A i, k \in 1..n : /\ i # k => at[i] # at[k]
                          /\ RankAt(s, i) < RankAt(s, k) <=> Before(s, at[i], at[k])
  BY <1>6, <1>8, <1>12
<1> HIDE DEF at
<1> QED
  BY <1>1, <1>9, <1>10, <1>11, <1>13
-----------------------------------------------------------------------------
(* The layout.                                                             *)

\* A clip of slot i that a bake lays out, and the header.
OfSlot(s, c, i) ==
    /\ i \in 1..Len(s.candidates)
    /\ c.role # "header" /\ c.id = Revealed(s)[i].id /\ c.rank = RankAt(s, i)
    /\ c.start = Cursor(Revealed(s))[i - 1]
    /\ c.length \in Nat /\ c.start + c.length <= Cursor(Revealed(s))[i]
IsHeader(s, c) == c.role = "header" /\ c.id = Null /\ c.start = 0 /\ c.length = TotalMs(s)

LEMMA CursorOfSlots ==
    ASSUME NEW s, SettingsOK(s), NEW n, n = Len(s.candidates), NEW C, C = Cursor(Revealed(s))
    PROVE  /\ n \in Nat /\ TotalMs(s) = C[n] /\ C[0] = 0
           /\ \A i \in 0..n : C[i] \in Nat
           /\ \A i \in 1..n : /\ Revealed(s)[i].data \in Datum
                              /\ C[i] = C[i - 1] + SlotMs(Revealed(s)[i].data)
                              /\ C[i - 1] < C[i]
           /\ \A i, k \in 0..n : i <= k => C[i] <= C[k]
<1> DEFINE q == Revealed(s)
<1>1. /\ n \in Nat /\ Len(q) = n
      /\ \E at \in [1..n -> 1..n] : \A i \in 1..n : q[i] = s.candidates[at[i]]
  BY SlotsShowCandidates
<1>2. \A k \in 1..n : s.candidates[k].data \in Datum
  BY CandidatesHaveData DEF SettingsOK
<1> HIDE DEF q
<1>3. \A i \in 1..n : q[i].data \in Datum
  BY <1>1, <1>2
<1>4. C = Cursor(q)
  BY DEF q
<1>5. /\ C \in [0..n -> Nat] /\ C[0] = 0
      /\ \A i \in 1..n : C[i] = C[i - 1] + SlotMs(q[i].data)
  BY <1>1, <1>3, <1>4, CursorRuns
<1>6. \A i, k \in 0..n : i <= k => C[i] <= C[k]
  BY <1>1, <1>3, <1>4, CursorGrows
<1>7. ASSUME NEW i \in 1..n PROVE C[i - 1] < C[i]
  <2>1. i - 1 \in 0..n /\ SlotMs(q[i].data) \in Nat \ {0}
    BY <1>1, <1>3, SlotHasLength
  <2>2. C[i - 1] \in Nat /\ C[i] = C[i - 1] + SlotMs(q[i].data)
    BY <1>5, <2>1
  <2> QED
    BY <2>1, <2>2
<1>8. TotalMs(s) = C[n]
  BY DEF TotalMs
<1>9. \A i \in 0..n : C[i] \in Nat
  BY <1>5
<1> QED
  BY <1>1, <1>3, <1>5, <1>6, <1>7, <1>8, <1>9 DEF q

LEMMA ClipsAreOfSlots ==
    ASSUME NEW s, SettingsOK(s), NEW c \in Layout(s)
    PROVE  IsHeader(s, c) \/ \E i : OfSlot(s, c, i)
<1> DEFINE n == Len(s.candidates)
           C == Cursor(Revealed(s))
<1>1. DOMAIN s.candidates = 1..n
  BY SlotsShowCandidates
<1>2. CASE c \in IF s.header /\ TotalMs(s) > 0
                 THEN {[role |-> "header", id |-> Null, rank |-> 0, start |-> 0,
                        length |-> TotalMs(s)]} ELSE {}
  BY <1>2 DEF IsHeader
<1>3. CASE c \in UNION {SlotClips(s, i) : i \in DOMAIN s.candidates}
  <2>1. PICK i \in 1..n : c \in SlotClips(s, i)
    BY <1>1, <1>3
  <2> DEFINE d == Revealed(s)[i].data
  <2>2. \E role \in {"overlay", "card", "voiceover", "number"} :
        \E length \in {SlotMs(d), NarrationCut(d)} :
            c = [role |-> role, id |-> Revealed(s)[i].id, rank |-> RankAt(s, i),
                 start |-> StartOf(Revealed(s), i), length |-> length]
    BY <2>1 DEF SlotClips
  <2>3. /\ c.role # "header" /\ c.id = Revealed(s)[i].id /\ c.rank = RankAt(s, i)
        /\ c.start = C[i - 1] /\ c.length \in {SlotMs(d), NarrationCut(d)}
    BY <2>2 DEF StartOf
  <2>4. d \in Datum /\ C[i] = C[i - 1] + SlotMs(d) /\ C[i - 1] \in Nat
    <3>1. i - 1 \in 0..n
      BY CursorOfSlots
    <3> QED
      BY <3>1, CursorOfSlots
  <2> HIDE DEF d, C
  <2>5. c.length \in Nat /\ c.length <= SlotMs(d) /\ SlotMs(d) \in Nat
    BY <2>3, <2>4, SlotHasLength, NarrationFits
  <2>6. c.start + c.length <= C[i]
    BY <2>3, <2>4, <2>5
  <2> QED
    BY <2>3, <2>5, <2>6 DEF OfSlot, C
<1> QED
  BY <1>2, <1>3 DEF Layout

\* Slots of different candidates, and no slot of the header's.
LEMMA IdsTellSlots ==
    ASSUME NEW s, SettingsOK(s), NEW i \in 1..Len(s.candidates)
    PROVE  /\ Revealed(s)[i].id # Null
           /\ \A k \in 1..Len(s.candidates) : Revealed(s)[i].id = Revealed(s)[k].id => i = k
<1> DEFINE n == Len(s.candidates)
<1>1. DOMAIN s.candidates = 1..n /\ \A k \in 1..n : s.candidates[k].id \in Candidates
  BY CandidatesHaveData DEF SettingsOK
<1>2. PICK at \in [1..n -> 1..n] :
         /\ \A k \in 1..n : Revealed(s)[k] = s.candidates[at[k]]
         /\ \A j, k \in 1..n : j # k => at[j] # at[k]
         /\ \A j, k \in 1..n : RankAt(s, j) < RankAt(s, k) <=> Before(s, at[j], at[k])
  BY SlotsShowCandidates
<1>3. \A j, k \in 1..n : s.candidates[j].id = s.candidates[k].id => j = k
  BY <1>1 DEF SettingsOK, Candid
<1>4. ASSUME NEW k \in 1..n, Revealed(s)[i].id = Revealed(s)[k].id PROVE i = k
  <2>1. at[i] \in 1..n /\ at[k] \in 1..n
    BY <1>2
  <2>2. at[i] = at[k]
    BY <1>2, <1>3, <1>4, <2>1
  <2> QED
    BY <1>2, <2>2
<1>5. Revealed(s)[i].id # Null
  BY <1>1, <1>2, CandidatesAssumption
<1> QED
  BY <1>4, <1>5

LEMMA LaterSlotsStartLater ==
    ASSUME NEW s, SettingsOK(s), NEW c, NEW e, NEW i, NEW k, OfSlot(s, c, i), OfSlot(s, e, k),
           i < k
    PROVE  c.start + c.length <= e.start /\ c.start < e.start
<1> DEFINE n == Len(s.candidates)
           C == Cursor(Revealed(s))
<1>1. n \in Nat /\ i \in 1..n /\ k \in 1..n
  BY CursorOfSlots DEF OfSlot
<1>2. i \in 0..n /\ k - 1 \in 0..n /\ i - 1 \in 0..n /\ i <= k - 1
  BY <1>1
<1>3. C[i] <= C[k - 1] /\ C[i - 1] < C[i] /\ C[i - 1] \in Nat /\ C[i] \in Nat /\ C[k - 1] \in Nat
  BY <1>1, <1>2, CursorOfSlots
<1>4. c.start = C[i - 1] /\ c.length \in Nat /\ c.start + c.length <= C[i] /\ e.start = C[k - 1]
  BY DEF OfSlot
<1> QED
  BY <1>3, <1>4

LEMMA LayoutFits ==
    ASSUME NEW s, SettingsOK(s)
    PROVE  ClipsFit(s)
<1> DEFINE n == Len(s.candidates)
           C == Cursor(Revealed(s))
<1> SUFFICES ASSUME NEW c \in Layout(s), NEW e \in Layout(s)
             PROVE  /\ c.start + c.length <= TotalMs(s)
                    /\ c.role = e.role /\ c.id # e.id =>
                          c.start + c.length <= e.start \/ e.start + e.length <= c.start
                    /\ c.id = e.id => c.start = e.start
  BY DEF ClipsFit
<1>1. n \in Nat /\ TotalMs(s) = C[n] /\ C[n] \in Nat
  BY CursorOfSlots
<1>2. c.start + c.length <= TotalMs(s)
  <2>1. CASE IsHeader(s, c)
    BY <1>1, <2>1 DEF IsHeader
  <2>2. ASSUME NEW i, OfSlot(s, c, i) PROVE c.start + c.length <= TotalMs(s)
    <3>1. i \in 1..n /\ c.start = C[i - 1] /\ c.length \in Nat /\ c.start + c.length <= C[i]
      BY <2>2 DEF OfSlot
    <3>2. i \in 0..n /\ n \in 0..n /\ i <= n /\ i - 1 \in 0..n
      BY <1>1, <3>1
    <3>3. C[i] <= C[n] /\ C[i] \in Nat /\ C[i - 1] \in Nat
      BY <3>2, CursorOfSlots
    <3> QED
      BY <1>1, <3>1, <3>3
  <2> QED
    BY <2>1, <2>2, ClipsAreOfSlots
<1>3. CASE IsHeader(s, c) /\ IsHeader(s, e)
  BY <1>2, <1>3 DEF IsHeader
<1>4. CASE ~ (IsHeader(s, c) <=> IsHeader(s, e))
  <2>1. \E i : (OfSlot(s, c, i) /\ IsHeader(s, e)) \/ (OfSlot(s, e, i) /\ IsHeader(s, c))
    BY <1>4, ClipsAreOfSlots
  <2>2. c.role # e.role /\ c.id # e.id
    BY <2>1, IdsTellSlots DEF OfSlot, IsHeader
  <2> QED
    BY <1>2, <2>2
<1>5. ASSUME NEW i, NEW k, OfSlot(s, c, i), OfSlot(s, e, k)
      PROVE  /\ c.id # e.id => c.start + c.length <= e.start \/ e.start + e.length <= c.start
             /\ c.id = e.id => c.start = e.start
  <2>1. i \in 1..n /\ k \in 1..n
    BY <1>5 DEF OfSlot
  <2>2. CASE i = k
    BY <1>5, <2>2 DEF OfSlot
  <2>3. CASE i # k
    <3>1. c.id # e.id
      BY <1>5, <2>1, <2>3, IdsTellSlots DEF OfSlot
    <3>2. CASE i < k
      BY <1>5, <3>1, <3>2, LaterSlotsStartLater
    <3>3. CASE k < i
      BY <1>5, <3>1, <3>3, LaterSlotsStartLater
    <3> QED
      BY <2>1, <2>3, <3>2, <3>3
  <2> QED
    BY <2>2, <2>3
<1> QED
  BY <1>2, <1>3, <1>4, <1>5, ClipsAreOfSlots

LEMMA RanksAreThePlaces ==
    ASSUME NEW s, SettingsOK(s)
    PROVE  RanksFollowOrder(s)
<1> DEFINE n == Len(s.candidates)
           titles == {c \in Layout(s) : c.role = "overlay"}
           at(id) == CHOOSE k \in DOMAIN s.candidates : s.candidates[k].id = id
           score(c) == s.candidates[at(c.id)].data.score
<1>1. n \in Nat /\ DOMAIN s.candidates = 1..n
  BY SlotsShowCandidates
<1>2. PICK of \in [1..n -> 1..n] :
         /\ \A i \in 1..n : Revealed(s)[i] = s.candidates[of[i]]
         /\ \A i, k \in 1..n : RankAt(s, i) < RankAt(s, k) <=> Before(s, of[i], of[k])
  BY SlotsShowCandidates
<1>3. \A i \in 1..n : RankAt(s, i) \in 1..n /\ RankAt(s, RankAt(s, i)) = i
  BY <1>1 DEF RankAt
<1>4. \A c \in titles : \E i \in 1..n : OfSlot(s, c, i)
  BY ClipsAreOfSlots DEF IsHeader, OfSlot
<1>5. {c.rank : c \in titles} = 1..n
  <2>1. ASSUME NEW c \in titles PROVE c.rank \in 1..n
    BY <1>3, <1>4 DEF OfSlot
  <2>2. ASSUME NEW r \in 1..n PROVE \E c \in titles : c.rank = r
    <3> DEFINE i == RankAt(s, r)
               c == [role |-> "overlay", id |-> Revealed(s)[i].id, rank |-> RankAt(s, i),
                     start |-> StartOf(Revealed(s), i), length |-> SlotMs(Revealed(s)[i].data)]
    <3>1. i \in 1..n /\ c.rank = r /\ c.role = "overlay"
      BY <1>3
    <3>2. c \in SlotClips(s, i)
      BY DEF SlotClips
    <3> HIDE DEF c, i
    <3>3. c \in Layout(s)
      BY <1>1, <3>1, <3>2 DEF Layout
    <3> QED
      BY <3>1, <3>3
  <2> HIDE DEF titles
  <2> QED
    BY <2>1, <2>2
<1>6. ASSUME NEW c \in titles, NEW e \in titles, c.rank < e.rank
      PROVE  /\ (c.start < e.start) <=> (s.reveal = "topfirst")
             /\ s.orderMode = "score" /\ s.order = "desc" => score(c) >= score(e)
             /\ s.orderMode = "score" /\ s.order = "asc" => score(c) <= score(e)
             /\ s.orderMode = "custom" => at(c.id) < at(e.id)
  <2>1. PICK i \in 1..n, k \in 1..n : OfSlot(s, c, i) /\ OfSlot(s, e, k)
    BY <1>4
  <2>2. RankAt(s, i) < RankAt(s, k) /\ of[i] \in 1..n /\ of[k] \in 1..n
    BY <1>2, <1>6, <2>1 DEF OfSlot
  <2>3. Before(s, of[i], of[k])
    BY <1>2, <2>2
  <2>4. at(c.id) = of[i] /\ at(e.id) = of[k]
    <3>1. c.id = s.candidates[of[i]].id /\ e.id = s.candidates[of[k]].id
      BY <1>2, <2>1 DEF OfSlot
    <3>2. \A j, l \in 1..n : s.candidates[j].id = s.candidates[l].id => j = l
      BY <1>1 DEF SettingsOK, Candid
    <3> QED
      BY <1>1, <2>2, <3>1, <3>2
  <2>5. /\ score(c) = s.candidates[of[i]].data.score /\ score(c) \in Int
        /\ score(e) = s.candidates[of[k]].data.score /\ score(e) \in Int
    BY <2>2, <2>4, CandidatesHaveData DEF SettingsOK, Datum
  <2>6. (c.start < e.start) <=> (s.reveal = "topfirst")
    <3>1. CASE s.reveal = "topfirst"
      <4>1. i < k
        BY <2>2, <3>1 DEF RankAt
      <4> QED
        BY <2>1, <3>1, <4>1, LaterSlotsStartLater
    <3>2. CASE s.reveal # "topfirst"
      <4>1. k < i
        BY <1>1, <2>2, <3>2 DEF RankAt
      <4>2. e.start < c.start
        BY <2>1, <4>1, LaterSlotsStartLater
      <4>3. c.start \in Int /\ e.start \in Int
        <5>1. i - 1 \in 0..n /\ k - 1 \in 0..n
          BY <1>1
        <5> QED
          BY <2>1, <5>1, CursorOfSlots DEF OfSlot
      <4> QED
        BY <3>2, <4>2, <4>3
    <3> QED
      BY <3>1, <3>2
  <2> HIDE DEF score, at
  <2>7. /\ s.orderMode = "score" /\ s.order = "desc" => score(c) >= score(e)
        /\ s.orderMode = "score" /\ s.order = "asc" => score(c) <= score(e)
        /\ s.orderMode = "custom" => at(c.id) < at(e.id)
    BY <2>3, <2>4, <2>5 DEF Before
  <2> QED
    BY <2>6, <2>7
<1> QED
  BY <1>5, <1>6 DEF RanksFollowOrder
-----------------------------------------------------------------------------
(* The edits.                                                              *)

LEMMA AppendIsCandid ==
    ASSUME NEW cs, Candid(cs), NEW c \in Candidate, c.id \notin Ids(cs)
    PROVE  Candid(Append(cs, c)) /\ Ids(Append(cs, c)) = Ids(cs) \union {c.id}
<1> DEFINE n == Len(cs)
           more == Append(cs, c)
<1>1. cs \in Seq(Candidate) /\ n \in Nat /\ DOMAIN cs = 1..n
  BY DEF Candid
<1>2. more \in Seq(Candidate) /\ Len(more) = n + 1 /\ DOMAIN more = 1..(n + 1)
      /\ \A i \in 1..n : more[i] = cs[i]
  BY <1>1
<1>3. more[n + 1] = c
  BY <1>1
<1>4. \A i \in 1..n : cs[i].id # c.id
  BY <1>1 DEF Ids
<1>5. \A i, k \in 1..n : cs[i].id = cs[k].id => i = k
  BY <1>1 DEF Candid
<1> HIDE DEF more
<1>6. \A i \in 1..(n + 1) : i = n + 1 \/ i \in 1..n
  BY <1>1
<1>7. \A i, k \in 1..(n + 1) : more[i].id = more[k].id => i = k
  BY <1>2, <1>3, <1>4, <1>5, <1>6
<1>8. Candid(more)
  BY <1>2, <1>7 DEF Candid
<1>9. Ids(more) = Ids(cs) \union {c.id}
  <2>1. 1..n \subseteq 1..(n + 1) /\ n + 1 \in 1..(n + 1)
    BY <1>1
  <2> QED
    BY <1>1, <1>2, <1>3, <1>6, <2>1 DEF Ids
<1> QED
  BY <1>8, <1>9 DEF more

LEMMA JoinIsCandid ==
    ASSUME NEW a, NEW b, Candid(a), Candid(b), Ids(a) \intersect Ids(b) = {}
    PROVE  Candid(a \o b) /\ Ids(a \o b) = Ids(a) \union Ids(b)
<1> DEFINE n == Len(a)
           m == Len(b)
           both == a \o b
<1>1. /\ a \in Seq(Candidate) /\ n \in Nat /\ DOMAIN a = 1..n
      /\ b \in Seq(Candidate) /\ m \in Nat /\ DOMAIN b = 1..m
  BY DEF Candid
<1>2. both \in Seq(Candidate) /\ Len(both) = n + m /\ DOMAIN both = 1..(n + m)
  BY <1>1
<1>3. \A i \in 1..n : both[i] = a[i]
  BY <1>1
<1>4. \A i \in 1..m : both[n + i] = b[i]
  BY <1>1
<1> HIDE DEF both
<1>5. \A i \in 1..(n + m) : i \in 1..n \/ \E k \in 1..m : i = n + k
  <2> SUFFICES ASSUME NEW i \in 1..(n + m), i \notin 1..n
               PROVE  \E k \in 1..m : i = n + k
    OBVIOUS
  <2>1. i - n \in 1..m /\ i = n + (i - n)
    BY <1>1
  <2> QED
    BY <2>1
<1>6. \A i \in 1..n : \A k \in 1..m : a[i].id # b[k].id
  BY <1>1 DEF Ids
<1>7. /\ \A i, k \in 1..n : a[i].id = a[k].id => i = k
      /\ \A i, k \in 1..m : b[i].id = b[k].id => i = k
  BY <1>1 DEF Candid
<1>8. \A i, k \in 1..(n + m) : both[i].id = both[k].id => i = k
  <2> SUFFICES ASSUME NEW i \in 1..(n + m), NEW k \in 1..(n + m), both[i].id = both[k].id
               PROVE  i = k
    OBVIOUS
  <2>1. CASE i \in 1..n /\ k \in 1..n
    BY <1>3, <1>7, <2>1
  <2>2. CASE i \in 1..n /\ k \notin 1..n
    <3>1. PICK y \in 1..m : k = n + y
      BY <1>5, <2>2
    <3>2. a[i].id = b[y].id
      BY <1>3, <1>4, <2>2, <3>1
    <3> QED
      BY <1>6, <2>2, <3>2
  <2>3. CASE i \notin 1..n /\ k \in 1..n
    <3>1. PICK x \in 1..m : i = n + x
      BY <1>5, <2>3
    <3>2. b[x].id = a[k].id
      BY <1>3, <1>4, <2>3, <3>1
    <3> QED
      BY <1>6, <2>3, <3>2
  <2>4. CASE i \notin 1..n /\ k \notin 1..n
    <3>1. PICK x \in 1..m : i = n + x
      BY <1>5, <2>4
    <3>2. PICK y \in 1..m : k = n + y
      BY <1>5, <2>4
    <3>3. b[x].id = b[y].id
      BY <1>4, <3>1, <3>2
    <3> QED
      BY <1>7, <3>1, <3>2, <3>3
  <2> QED
    BY <2>1, <2>2, <2>3, <2>4
<1>9. Candid(both)
  BY <1>2, <1>8 DEF Candid
<1>10. Ids(both) = Ids(a) \union Ids(b)
  <2>1. \A i \in 1..n : i \in 1..(n + m)
    BY <1>1
  <2>2. \A k \in 1..m : n + k \in 1..(n + m)
    BY <1>1
  <2>3. ASSUME NEW x \in Ids(both) PROVE x \in Ids(a) \union Ids(b)
    <3>1. PICK i \in 1..(n + m) : x = both[i].id
      BY <1>2 DEF Ids
    <3>2. CASE i \in 1..n
      BY <1>1, <1>3, <3>1, <3>2 DEF Ids
    <3>3. CASE i \notin 1..n
      <4>1. PICK k \in 1..m : i = n + k
        BY <1>5, <3>3
      <4>2. x = b[k].id
        BY <1>4, <3>1, <4>1
      <4> QED
        BY <1>1, <4>2 DEF Ids
    <3> QED
      BY <3>2, <3>3
  <2>4. ASSUME NEW x \in Ids(a) PROVE x \in Ids(both)
    BY <1>1, <1>2, <1>3, <2>1 DEF Ids
  <2>5. ASSUME NEW x \in Ids(b) PROVE x \in Ids(both)
    <3>1. PICK k \in 1..m : x = b[k].id
      BY <1>1 DEF Ids
    <3>2. n + k \in 1..(n + m) /\ both[n + k].id = x
      BY <1>4, <2>2, <3>1
    <3> QED
      BY <1>2, <3>2 DEF Ids
  <2> QED
    BY <2>3, <2>4, <2>5
<1> QED
  BY <1>9, <1>10 DEF both

\* There are as many ids as candidates.
LEMMA IdsCount ==
    ASSUME NEW cs, Candid(cs)
    PROVE  Cardinality(Ids(cs)) = Len(cs)
<1> DEFINE n == Len(cs)
           id == [k \in 1..n |-> cs[k].id]
<1>1. n \in Nat /\ DOMAIN cs = 1..n
  BY CandidatesHaveData
<1>2. \A i, k \in 1..n : cs[i].id = cs[k].id => i = k
  BY <1>1 DEF Candid
<1>3. Ids(cs) = {id[k] : k \in 1..n}
  BY <1>1 DEF Ids
<1>4. id \in Bijection(1..n, Ids(cs))
  <2>1. id \in [1..n -> Ids(cs)] /\ \A i, k \in 1..n : id[i] = id[k] => i = k
    BY <1>2, <1>3
  <2>2. \A x \in Ids(cs) : \E k \in 1..n : id[k] = x
    BY <1>3
  <2> HIDE DEF id
  <2> QED
    BY <2>1, <2>2 DEF Bijection, Injection, Surjection, IsInjective
<1> HIDE DEF id, n
<1>5. IsFiniteSet(1..n) /\ Cardinality(1..n) = n
  BY <1>1, FS_Interval
<1>6. ExistsBijection(1..n, Ids(cs))
  BY <1>4 DEF ExistsBijection
<1> QED
  BY <1>5, <1>6, FS_Bijection DEF n

LEMMA UpdatedIsCandid ==
    ASSUME NEW cs, Candid(cs), NEW e, e.data \in Data
    PROVE  Candid(Updated(cs, e)) /\ Ids(Updated(cs, e)) = Ids(cs)
<1> DEFINE n == Len(cs)
           new == Updated(cs, e)
<1>1. cs \in Seq(Candidate) /\ n \in Nat /\ DOMAIN cs = 1..n /\ \A k \in 1..n : cs[k] \in Candidate
  BY DEF Candid
<1>2. new = [k \in 1..n |-> IF cs[k].id = e.id THEN [cs[k] EXCEPT !.data = e.data] ELSE cs[k]]
  BY <1>1 DEF Updated
<1>3. ASSUME NEW k \in 1..n PROVE new[k] \in Candidate /\ new[k].id = cs[k].id
  <2>1. cs[k] \in Candidate
    BY <1>1
  <2> QED
    BY <1>2, <2>1 DEF Candidate
<1>4. new \in Seq(Candidate) /\ Len(new) = n /\ DOMAIN new = 1..n
  BY <1>1, <1>2, <1>3
<1>5. \A i, k \in 1..n : cs[i].id = cs[k].id => i = k
  BY <1>1 DEF Candid
<1> HIDE DEF new
<1>6. Candid(new)
  BY <1>3, <1>4, <1>5 DEF Candid
<1>7. Ids(new) = Ids(cs)
  BY <1>1, <1>3, <1>4 DEF Ids
<1> QED
  BY <1>6, <1>7 DEF new

\* A loop that goes through a list and may append a candidate at each turn.
Gathers(got, n, pick, may) ==
    /\ got[0] = <<>>
    /\ \A i \in 1..n : got[i] = IF may[<<i, got[i - 1]>>] THEN Append(got[i - 1], pick[i])
                                                       ELSE got[i - 1]

LEMMA Gathered ==
    ASSUME NEW n \in Nat, NEW pick \in [1..n -> Candidate], NEW may
    PROVE  \E got \in [0..n -> Seq(Candidate)] : Gathers(got, n, pick, may)
<1> DEFINE V == Seq(Candidate)
           G == [p \in (1..n) \X V |-> IF may[p] THEN Append(p[2], pick[p[1]]) ELSE p[2]]
<1>1. <<>> \in V
  OBVIOUS
<1>2. ASSUME NEW i \in 1..n, NEW v \in V
      PROVE  /\ G[<<i, v>>] = IF may[<<i, v>>] THEN Append(v, pick[i]) ELSE v
             /\ G[<<i, v>>] \in V
  <2>1. Append(v, pick[i]) \in V
    OBVIOUS
  <2>2. <<i, v>> \in (1..n) \X V
    OBVIOUS
  <2>3. G[<<i, v>>] = IF may[<<i, v>>] THEN Append(v, pick[i]) ELSE v
    BY <2>2
  <2> QED
    BY <2>1, <2>3
<1> HIDE DEF G, V
<1>3. PICK got \in Loops(n, V, <<>>, G) : TRUE
  BY <1>1, <1>2, Looped
<1>4. got \in [0..n -> V] /\ got[0] = <<>> /\ \A i \in 1..n : got[i] = G[<<i, got[i - 1]>>]
  BY DEF Loops
<1>5. ASSUME NEW i \in 1..n
      PROVE  got[i] = IF may[<<i, got[i - 1]>>] THEN Append(got[i - 1], pick[i]) ELSE got[i - 1]
  <2>1. i - 1 \in 0..n
    OBVIOUS
  <2>2. got[i - 1] \in V
    BY <1>4, <2>1
  <2> QED
    BY <1>2, <1>4, <2>2
<1> QED
  BY <1>4, <1>5 DEF V, Gathers

LEMMA NoneIsCandid == Candid(<<>>) /\ Ids(<<>>) = {}
<1>1. <<>> \in Seq(Candidate) /\ DOMAIN <<>> = {}
  OBVIOUS
<1> QED
  BY <1>1 DEF Candid, Ids

LEMMA KeptTurns ==
    ASSUME NEW cs, Candid(cs), NEW ids
    PROVE  \E kept :
              /\ kept[0] = <<>> /\ Kept(cs, ids) = kept[Len(cs)]
              /\ \A i \in 1..Len(cs) :
                    kept[i] = IF cs[i].id \in ids THEN Append(kept[i - 1], cs[i]) ELSE kept[i - 1]
<1> DEFINE n == Len(cs)
           may == [p \in (1..n) \X Seq(Candidate) |-> cs[p[1]].id \in ids]
           Then(f, i) == IF cs[i].id \in ids THEN Append(f[i - 1], cs[i]) ELSE f[i - 1]
           Eq(f) == f = [i \in 0..n |-> IF i = 0 THEN <<>> ELSE Then(f, i)]
           Turn(f) == \A i \in 1..n : f[i] = Then(f, i)
<1>1. n \in Nat /\ cs \in [1..n -> Candidate]
  <2>1. cs \in Seq(Candidate)
    BY DEF Candid
  <2> QED
    BY <2>1
<1>2. PICK f \in [0..n -> Seq(Candidate)] : Gathers(f, n, cs, may)
  <2> HIDE DEF n, may
  <2> QED
    BY <1>1, Gathered
<1>3. Turn(f)
  <2> SUFFICES ASSUME NEW i \in 1..n
               PROVE  f[i] = Then(f, i)
    OBVIOUS
  <2>1. i - 1 \in 0..n
    OBVIOUS
  <2>2. f[i - 1] \in Seq(Candidate)
    BY <2>1
  <2>3. may[<<i, f[i - 1]>>] = (cs[i].id \in ids)
    BY <2>2
  <2> HIDE DEF may
  <2> QED
    BY <1>2, <2>3 DEF Gathers
<1>4. Eq(f)
  <2>1. f[0] = <<>>
    BY <1>2 DEF Gathers
  <2>2. \A i \in 0..n : i # 0 => i \in 1..n
    OBVIOUS
  <2> QED
    BY <1>3, <2>1, <2>2
<1> DEFINE kept == CHOOSE g : Eq(g)
<1>5. Eq(kept)
  <2> HIDE DEF Eq
  <2> QED
    BY <1>4
<1>6. Kept(cs, ids) = kept[n]
  BY DEF Kept
<1> HIDE DEF kept
<1>7. kept[0] = <<>> /\ Turn(kept)
  <2>1. \A i \in 1..n : i \in 0..n /\ i # 0
    BY <1>1
  <2>2. 0 \in 0..n
    BY <1>1
  <2> HIDE DEF Then, n
  <2> QED
    BY <1>5, <2>1, <2>2
<1> QED
  BY <1>6, <1>7

\* Filtering keeps each candidate once, and just the wanted ones.
LEMMA KeptIsCandid ==
    ASSUME NEW cs, Candid(cs), NEW ids
    PROVE  Candid(Kept(cs, ids)) /\ Ids(Kept(cs, ids)) = Ids(cs) \intersect ids
<1> DEFINE n == Len(cs)
           upto(i) == {cs[k].id : k \in 1..i} \intersect ids
<1>1. PICK kept :
         /\ kept[0] = <<>> /\ Kept(cs, ids) = kept[n]
         /\ \A i \in 1..n :
               kept[i] = IF cs[i].id \in ids THEN Append(kept[i - 1], cs[i]) ELSE kept[i - 1]
  BY KeptTurns
<1>2. n \in Nat /\ DOMAIN cs = 1..n /\ \A k \in 1..n : cs[k] \in Candidate
  BY CandidatesHaveData
<1>3. \A i, k \in 1..n : cs[i].id = cs[k].id => i = k
  BY <1>2 DEF Candid
<1> DEFINE P == {i \in 0..n : Candid(kept[i]) /\ Ids(kept[i]) = upto(i)}
<1>4. 0 \in P
  <2>1. kept[0] = <<>> /\ upto(0) = {} /\ 0 \in 0..n
    BY <1>1, <1>2
  <2> QED
    BY <2>1, NoneIsCandid
<1>5. ASSUME NEW i \in 1..n, i - 1 \in P PROVE i \in P
  <2>1. Candid(kept[i - 1]) /\ Ids(kept[i - 1]) = upto(i - 1)
    BY <1>5
  <2>2. 1..i = 1..(i - 1) \union {i} /\ i \notin 1..(i - 1) /\ 1..i \subseteq 1..n /\ i \in 0..n
    BY <1>2
  <2>3. cs[i].id \notin {cs[k].id : k \in 1..(i - 1)}
    BY <1>3, <2>2
  <2>4. {cs[k].id : k \in 1..i} = {cs[k].id : k \in 1..(i - 1)} \union {cs[i].id}
    BY <2>2
  <2>5. CASE cs[i].id \in ids
    <3>1. kept[i] = Append(kept[i - 1], cs[i]) /\ cs[i] \in Candidate
      BY <1>1, <1>2, <2>5
    <3>2. cs[i].id \notin Ids(kept[i - 1])
      BY <2>1, <2>3
    <3>3. Candid(kept[i]) /\ Ids(kept[i]) = upto(i - 1) \union {cs[i].id}
      BY <2>1, <3>1, <3>2, AppendIsCandid
    <3> QED
      BY <2>2, <2>4, <2>5, <3>3
  <2>6. CASE cs[i].id \notin ids
    <3>1. kept[i] = kept[i - 1]
      BY <1>1, <2>6
    <3> QED
      BY <2>1, <2>2, <2>4, <2>6, <3>1
  <2> QED
    BY <2>5, <2>6
<1>6. n \in P
  <2> HIDE DEF P
  <2>1. 0..n \subseteq P
    BY <1>2, <1>4, <1>5, EveryTurn
  <2> QED
    BY <1>2, <2>1
<1>7. upto(n) = Ids(cs) \intersect ids
  BY <1>2 DEF Ids
<1> QED
  BY <1>1, <1>6, <1>7

LEMMA ListedTurns ==
    ASSUME NEW cs, Candid(cs), NEW ids, Len(ids) \in Nat
    PROVE  \E listed :
              /\ listed[0] = <<>> /\ Listed(cs, ids) = listed[Len(ids)]
              /\ \A i \in 1..Len(ids) :
                    listed[i] = IF ids[i] \in Ids(cs) \ Ids(listed[i - 1])
                                THEN Append(listed[i - 1], CHOOSE c \in Range(cs) : c.id = ids[i])
                                ELSE listed[i - 1]
<1> DEFINE n == Len(ids)
           with(id) == CHOOSE c \in Range(cs) : c.id = id
           some == CHOOSE c \in Candidate : TRUE
           pick == [i \in 1..n |-> IF ids[i] \in Ids(cs) THEN with(ids[i]) ELSE some]
           may == [p \in (1..n) \X Seq(Candidate) |-> ids[p[1]] \in Ids(cs) \ Ids(p[2])]
           Then(f, i) == IF ids[i] \in Ids(cs) \ Ids(f[i - 1])
                          THEN Append(f[i - 1], with(ids[i])) ELSE f[i - 1]
           Eq(f) == f = [i \in 0..n |-> IF i = 0 THEN <<>> ELSE Then(f, i)]
           Turn(f) == \A i \in 1..n : f[i] = Then(f, i)
<1>0. cs \in Seq(Candidate)
  BY DEF Candid
<1> DEFINE blank == [i \in 0..n |-> <<>>]
<1>3. \E f : f[0] = <<>> /\ Turn(f) /\ f = [i \in 0..n |-> f[i]]
  <2>1. CASE Ids(cs) = {}
    <3>1. \A i \in 1..n : i - 1 \in 0..n /\ i \in 0..n
      OBVIOUS
    <3>2. Turn(blank) /\ blank[0] = <<>>
      BY <2>1, <3>1
    <3> QED
      BY <3>2
  <2>2. CASE Ids(cs) # {}
    <3>1. pick \in [1..n -> Candidate]
      <4>1. \A id \in Ids(cs) : \E c \in Range(cs) : c.id = id
        BY DEF Ids, Range
      <4>2. Range(cs) \subseteq Candidate
        BY <1>0 DEF Range
      <4>3. \A id \in Ids(cs) : with(id) \in Candidate
        BY <4>1, <4>2
      <4>4. some \in Candidate
        BY <2>2, <4>1, <4>2
      <4> HIDE DEF with, some
      <4> QED
        BY <4>3, <4>4
    <3>2. PICK f \in [0..n -> Seq(Candidate)] : Gathers(f, n, pick, may)
      <4>1. n \in Nat
        OBVIOUS
      <4> HIDE DEF n, may, pick
      <4> QED
        BY <3>1, <4>1, Gathered
    <3>3. Turn(f)
      <4> SUFFICES ASSUME NEW i \in 1..n PROVE f[i] = Then(f, i)
        OBVIOUS
      <4>1. i - 1 \in 0..n
        OBVIOUS
      <4>2. f[i - 1] \in Seq(Candidate)
        BY <4>1
      <4>3. may[<<i, f[i - 1]>>] = (ids[i] \in Ids(cs) \ Ids(f[i - 1]))
        BY <4>2
      <4>4. ids[i] \in Ids(cs) => pick[i] = with(ids[i])
        OBVIOUS
      <4> HIDE DEF may, pick, with
      <4> QED
        BY <3>2, <4>3, <4>4 DEF Gathers
    <3>4. f[0] = <<>> /\ f = [i \in 0..n |-> f[i]]
      BY <3>2 DEF Gathers
    <3> QED
      BY <3>3, <3>4
  <2> QED
    BY <2>1, <2>2
<1>4. \E f : Eq(f)
  <2>1. PICK f : f[0] = <<>> /\ Turn(f) /\ f = [i \in 0..n |-> f[i]]
    BY <1>3
  <2>2. \A i \in 0..n : i # 0 => i \in 1..n
    OBVIOUS
  <2> HIDE DEF Then
  <2>3. Eq(f)
    BY <2>1, <2>2
  <2> QED
    BY <2>3
<1> DEFINE listed == CHOOSE g : Eq(g)
<1>5. Eq(listed)
  <2> HIDE DEF Eq
  <2> QED
    BY <1>4
<1>6. Listed(cs, ids) = listed[n]
  BY DEF Listed
<1> HIDE DEF listed
<1>7. listed[0] = <<>> /\ Turn(listed)
  <2> HIDE DEF Then
  <2> QED
    BY <1>5
<1> QED
  BY <1>6, <1>7

\* Listing by ids takes each listed candidate once, whatever is repeated or
\* unknown.
LEMMA ListedIsCandid ==
    ASSUME NEW cs, Candid(cs), NEW ids, Len(ids) \in Nat
    PROVE  /\ Candid(Listed(cs, ids))
           /\ Ids(Listed(cs, ids)) = Ids(cs) \intersect {ids[k] : k \in 1..Len(ids)}
<1> DEFINE n == Len(ids)
           with(id) == CHOOSE c \in Range(cs) : c.id = id
           upto(i) == Ids(cs) \intersect {ids[k] : k \in 1..i}
<1>1. PICK listed :
         /\ listed[0] = <<>> /\ Listed(cs, ids) = listed[n]
         /\ \A i \in 1..n :
               listed[i] = IF ids[i] \in Ids(cs) \ Ids(listed[i - 1])
                           THEN Append(listed[i - 1], with(ids[i])) ELSE listed[i - 1]
  BY ListedTurns
<1>2. \A id \in Ids(cs) : with(id) \in Candidate /\ with(id).id = id
  <2>1. cs \in Seq(Candidate)
    BY DEF Candid
  <2>2. Range(cs) \subseteq Candidate
    BY <2>1 DEF Range
  <2>3. \A id \in Ids(cs) : \E c \in Range(cs) : c.id = id
    BY DEF Ids, Range
  <2> QED
    BY <2>2, <2>3
<1> HIDE DEF with
<1> DEFINE P == {i \in 0..n : Candid(listed[i]) /\ Ids(listed[i]) = upto(i)}
<1>4. 0 \in P
  <2>1. listed[0] = <<>> /\ upto(0) = {} /\ 0 \in 0..n
    BY <1>1
  <2> QED
    BY <2>1, NoneIsCandid
<1>5. ASSUME NEW i \in 1..n, i - 1 \in P PROVE i \in P
  <2>1. Candid(listed[i - 1]) /\ Ids(listed[i - 1]) = upto(i - 1)
    BY <1>5
  <2>2. 1..i = 1..(i - 1) \union {i} /\ i \in 0..n
    OBVIOUS
  <2>4. {ids[k] : k \in 1..i} = {ids[k] : k \in 1..(i - 1)} \union {ids[i]}
    BY <2>2
  <2>5. CASE ids[i] \in Ids(cs) \ Ids(listed[i - 1])
    <3>1. listed[i] = Append(listed[i - 1], with(ids[i]))
      BY <1>1, <2>5
    <3>2. with(ids[i]) \in Candidate /\ with(ids[i]).id = ids[i]
      BY <1>2, <2>5
    <3>3. Candid(listed[i]) /\ Ids(listed[i]) = upto(i - 1) \union {ids[i]}
      BY <2>1, <2>5, <3>1, <3>2, AppendIsCandid
    <3> QED
      BY <2>2, <2>4, <2>5, <3>3
  <2>6. CASE ids[i] \notin Ids(cs) \ Ids(listed[i - 1])
    <3>1. listed[i] = listed[i - 1]
      BY <1>1, <2>6
    <3>2. upto(i) = upto(i - 1)
      BY <2>1, <2>4, <2>6
    <3> QED
      BY <2>1, <2>2, <3>1, <3>2
  <2> QED
    BY <2>5, <2>6
<1>6. n \in P
  <2> HIDE DEF P
  <2>1. 0..n \subseteq P
    BY <1>4, <1>5, EveryTurn
  <2> QED
    BY <2>1
<1> QED
  BY <1>1, <1>6

LEMMA ReorderedIsCandid ==
    ASSUME NEW cs, Candid(cs), NEW e, e.ids \in IdLists
    PROVE  Candid(Reordered(cs, e)) /\ Ids(Reordered(cs, e)) = Ids(cs)
<1>1. PICK n \in Nat : e.ids \in [1..n -> Candidates]
  BY DEF IdLists
<1> DEFINE ids == e.ids
           first == Listed(cs, ids)
           rest == Kept(cs, Ids(cs) \ Range(ids))
<1>2. Len(ids) = n /\ Range(ids) = {ids[k] : k \in 1..Len(ids)}
  BY <1>1 DEF Range
<1> HIDE DEF ids
<1>3. Candid(first) /\ Ids(first) = Ids(cs) \intersect Range(ids)
  BY <1>2, ListedIsCandid
<1>4. Candid(rest) /\ Ids(rest) = Ids(cs) \ Range(ids)
  BY KeptIsCandid
<1>5. Reordered(cs, e) = first \o rest
  BY DEF Reordered, ids
<1> HIDE DEF first, rest
<1>6. Ids(first) \intersect Ids(rest) = {} /\ Ids(first) \union Ids(rest) = Ids(cs)
  BY <1>3, <1>4
<1>7. Candid(first \o rest) /\ Ids(first \o rest) = Ids(first) \union Ids(rest)
  BY <1>3, <1>4, <1>6, JoinIsCandid
<1> QED
  BY <1>5, <1>6, <1>7

\* What an edit asks is something the settings of then allow: a new candidate
\* has a new id.
Applicable(s, e) == e \in Edit /\ (e.op = "add" => e.id \notin Ids(s.candidates))

\* An edit keeps the settings well-formed.  Only a removal loses a candidate,
\* and it is the one named; only an addition brings one.
LEMMA EditKeepsCandidates ==
    ASSUME NEW s, SettingsOK(s), NEW e, Applicable(s, e)
    PROVE  /\ SettingsOK(Apply(s, e))
           /\ \A id \in Ids(s.candidates) \ Ids(Apply(s, e).candidates) :
                 e.op = "remove" /\ e.id = id
           /\ \A id \in Ids(Apply(s, e).candidates) \ Ids(s.candidates) :
                 e.op = "add" /\ e.id = id
<1> DEFINE cs == s.candidates
           With(new) == [s EXCEPT !.candidates = new]
<1>0. Candid(cs) /\ e \in Edit
  BY DEF SettingsOK, Applicable
<1>1. ASSUME NEW new, Candid(new) PROVE SettingsOK(With(new)) /\ With(new).candidates = new
  <2>1. s = [candidates |-> s.candidates, order |-> s.order, orderMode |-> s.orderMode,
             reveal |-> s.reveal, header |-> s.header]
    BY DEF SettingsOK
  <2>2. With(new) = [candidates |-> new, order |-> s.order, orderMode |-> s.orderMode,
                     reveal |-> s.reveal, header |-> s.header]
    BY <2>1
  <2> HIDE DEF With
  <2> QED
    BY <1>1, <2>2 DEF SettingsOK
<1> HIDE DEF With
<1>2. CASE e.op = "add"
  <2>1. e.id \in Candidates /\ e.data \in Data /\ e.id \notin Ids(cs)
    BY <1>0, <1>2 DEF Edit, Applicable
  <2>2. [id |-> e.id, data |-> e.data] \in Candidate
    BY <2>1 DEF Candidate
  <2>3. Candid(Added(cs, e)) /\ Ids(Added(cs, e)) = Ids(cs) \union {e.id}
    BY <1>0, <2>1, <2>2, AppendIsCandid DEF Added
  <2>4. Apply(s, e) = With(Added(cs, e))
    BY <1>2 DEF Apply, With
  <2> QED
    BY <1>1, <1>2, <2>3, <2>4
<1>3. CASE e.op = "update"
  <2>1. e.data \in Data
    BY <1>0, <1>3 DEF Edit
  <2>2. Candid(Updated(cs, e)) /\ Ids(Updated(cs, e)) = Ids(cs)
    BY <1>0, <2>1, UpdatedIsCandid
  <2>3. Apply(s, e) = With(Updated(cs, e))
    BY <1>3 DEF Apply, With
  <2> QED
    BY <1>1, <2>2, <2>3
<1>4. CASE e.op = "remove"
  <2>1. Candid(Removed(cs, e)) /\ Ids(Removed(cs, e)) = Ids(cs) \ {e.id}
    BY <1>0, KeptIsCandid DEF Removed
  <2>2. Apply(s, e) = With(Removed(cs, e))
    BY <1>4 DEF Apply, With
  <2> QED
    BY <1>1, <1>4, <2>1, <2>2
<1>5. CASE e.op = "reorder"
  <2>1. e.ids \in IdLists
    BY <1>0, <1>5 DEF Edit
  <2>2. Candid(Reordered(cs, e)) /\ Ids(Reordered(cs, e)) = Ids(cs)
    BY <1>0, <2>1, ReorderedIsCandid
  <2>3. Apply(s, e) = With(Reordered(cs, e))
    BY <1>5 DEF Apply, With
  <2> QED
    BY <1>1, <2>2, <2>3
<1>6. CASE e.op = "meta"
  <2>1. e.meta \in Metas
    BY <1>0, <1>6 DEF Edit
  <2>2. e.meta \in [order : {"asc", "desc"}, orderMode : {"custom", "score"},
                    reveal : {"countdown", "topfirst"}, header : BOOLEAN]
    BY <2>1, MetasAssumption
  <2>3. Apply(s, e) = Settings(cs, e.meta)
    BY <1>6 DEF Apply
  <2>4. SettingsOK(Apply(s, e)) /\ Apply(s, e).candidates = cs
    BY <1>0, <2>2, <2>3 DEF Settings, SettingsOK
  <2> QED
    BY <2>4
<1>7. e.op \in {"add", "update", "remove", "reorder", "meta"}
  BY <1>0 DEF Edit
<1> QED
  BY <1>2, <1>3, <1>4, <1>5, <1>6, <1>7

-----------------------------------------------------------------------------
(* The requests.                                                           *)

\* The row lock is what makes a read value still current when it is written.
LockInv ==
    /\ editor = [e \in Editors |-> editor[e]]
    /\ \A e \in Editors : editor[e].pc = "locked" => lock = e /\ editor[e].seen = settings
    /\ NoEditIsLost

\* What becomes of the clips of b while a bake that began after b is at work:
\* they are looked for, found, deleted.
WillReplace(c, b) ==
    \/ baker[c].pc \in {"read", "tracks", "delete", "failed"}
    \/ baker[c].pc = "deleting" /\ b \in baker[c].snapshot
    \/ baker[c].pc = "insert" /\ b \in baker[c].deleted

\* A baker has its fields and no other.
Shaped(r) == r = [pc |-> r.pc, seen |-> r.seen, past |-> r.past, snapshot |-> r.snapshot,
                  deleted |-> r.deleted, made |-> r.made]

BakeInv ==
    /\ baker = [b \in Bakers |-> baker[b]]
    /\ \A b \in Bakers : Shaped(baker[b])
    /\ \A b \in timeline : b \in Bakers /\ baker[b].pc = "done"
    /\ \A c \in Bakers : \A b \in baker[c].past : b \in Bakers /\ baker[b].pc \in Finished
    /\ \A c \in Bakers : \A b \in baker[c].past : b \in timeline => WillReplace(c, b)

-----------------------------------------------------------------------------
LEMMA InitLock == Init => LockInv
<1> SUFFICES ASSUME Init PROVE LockInv
  OBVIOUS
<1>1. editor = [e \in Editors |-> IdleEditor] /\ serial = settings
  BY DEF Init
<1>2. \A e \in Editors : editor[e].pc = "idle"
  BY <1>1 DEF IdleEditor
<1> QED
  BY <1>1, <1>2 DEF LockInv, NoEditIsLost

LEMMA InitBake == Init => BakeInv
<1> SUFFICES ASSUME Init PROVE BakeInv
  OBVIOUS
<1>1. baker = [b \in Bakers |-> IdleBaker] /\ timeline = {}
  BY DEF Init
<1>2. Shaped(IdleBaker) /\ IdleBaker.past = {}
  BY DEF IdleBaker, Shaped
<1> QED
  BY <1>1, <1>2 DEF BakeInv

\* An editor that gets the lock finds it free, so no other editor holds a
\* value of the settings; the one that commits is the one that read last.
LEMMA LockStep == LockInv /\ [Next]_vars => LockInv'
<1> SUFFICES ASSUME LockInv, [Next]_vars PROVE LockInv'
  OBVIOUS
<1> USE NobodyAssumption
<1>1. ASSUME NEW e \in Editors, NEW edit \in Edit, SelectForUpdate(e, edit) PROVE LockInv'
  <2>1. \A f \in Editors : editor[f].pc # "locked"
    BY <1>1 DEF SelectForUpdate, LockInv
  <2>2. settings' = settings /\ serial' = serial /\ lock' = e
    BY <1>1 DEF SelectForUpdate
  <2>3. editor' = [editor EXCEPT ![e] = [pc |-> "locked", edit |-> edit, seen |-> settings]]
    BY <1>1 DEF SelectForUpdate
  <2> QED
    BY <2>1, <2>2, <2>3 DEF LockInv, NoEditIsLost
<1>2. ASSUME NEW e \in Editors, Commit(e) PROVE LockInv'
  <2>1. editor[e].seen = serial
    BY <1>2 DEF Commit, LockInv, NoEditIsLost
  <2>2. \A f \in Editors \ {e} : editor[f].pc # "locked"
    BY <1>2 DEF Commit, LockInv
  <2>3. settings' = serial'
    BY <1>2, <2>1 DEF Commit
  <2>4. editor' = [editor EXCEPT ![e] = IdleEditor]
    BY <1>2 DEF Commit
  <2> QED
    BY <2>2, <2>3, <2>4 DEF LockInv, NoEditIsLost, IdleEditor
<1>3. ASSUME NEW e \in Editors, Rollback(e) PROVE LockInv'
  <2>1. \A f \in Editors \ {e} : editor[f].pc # "locked"
    BY <1>3 DEF Rollback, LockInv
  <2>2. settings' = settings /\ serial' = serial
    BY <1>3 DEF Rollback
  <2>3. editor' = [editor EXCEPT ![e] = IdleEditor]
    BY <1>3 DEF Rollback
  <2> QED
    BY <2>1, <2>2, <2>3 DEF LockInv, NoEditIsLost, IdleEditor
<1>4. ASSUME NEW b \in Bakers, BakerStep(b) PROVE LockInv'
  <2>1. UNCHANGED editing
    BY <1>4 DEF BakerStep, BakeRead, BakeTracks, MakeOverlay, DeleteStarts, DeleteEnds,
                BakeCommits, BakeFails
  <2> QED
    BY <2>1 DEF editing, LockInv, NoEditIsLost
<1>5. CASE UNCHANGED vars
  BY <1>5 DEF vars, LockInv, NoEditIsLost
<1> QED
  BY <1>1, <1>2, <1>3, <1>4, <1>5 DEF Next, EditorStep

\* Concurrent edits of one project are serialised by the row lock, whatever
\* they do and however many there are: the settings are those that the
\* committed edits give one after the other.
THEOREM EditsAreSerial == Spec => []NoEditIsLost
<1>1. Init => LockInv
  BY InitLock
<1>2. LockInv /\ [Next]_vars => LockInv'
  BY LockStep
<1>3. LockInv => NoEditIsLost
  BY DEF LockInv
<1> QED
  BY <1>1, <1>2, <1>3, PTL DEF Spec

-----------------------------------------------------------------------------
\* A step of bake c that leaves the timeline alone: the others keep their
\* record, c keeps its past and moves to where it still will replace.
LEMMA QuietBake ==
    ASSUME BakeInv, NEW c \in Bakers, NEW r,
           baker[c].pc \notin Finished \union {"idle"},
           baker' = [baker EXCEPT ![c] = r],
           timeline' = timeline,
           Shaped(r),
           r.past = baker[c].past,
           r.pc \in BakerPc \ {"done"},
           \A b \in timeline \intersect baker[c].past :
               \/ r.pc \in {"read", "tracks", "delete", "failed"}
               \/ r.pc = "deleting" /\ b \in r.snapshot
               \/ r.pc = "insert" /\ b \in r.deleted
    PROVE  BakeInv'
<1>1. baker' = [b \in Bakers |-> baker'[b]]
  BY DEF BakeInv
<1>2. baker'[c] = r /\ \A b \in Bakers \ {c} : baker'[b] = baker[b]
  BY DEF BakeInv
<1>3. \A b \in Bakers : baker'[b].past = baker[b].past /\ Shaped(baker'[b])
  BY <1>2 DEF BakeInv
<1>4. \A b \in timeline : b \in Bakers \ {c} /\ baker'[b].pc = "done"
  BY <1>2 DEF BakeInv, Finished
<1>5. \A d \in Bakers : \A b \in baker[d].past : b \in Bakers \ {c} /\ baker'[b].pc \in Finished
  BY <1>2 DEF BakeInv
<1>6. \A d \in Bakers : \A b \in baker[d].past : b \in timeline => WillReplace(d, b)'
  <2> SUFFICES ASSUME NEW d \in Bakers, NEW b \in baker[d].past, b \in timeline
               PROVE  WillReplace(d, b)'
    OBVIOUS
  <2>1. CASE d = c
    BY <2>1, <1>2 DEF WillReplace
  <2>2. CASE d # c
    BY <2>2, <1>2 DEF WillReplace, BakeInv
  <2> QED
    BY <2>1, <2>2
<1> QED
  BY <1>1, <1>3, <1>4, <1>5, <1>6 DEF BakeInv

\* One case per statement of bakeTimeline; the commit is the only one that
\* changes the timeline.
LEMMA BakeStep == BakeInv /\ [Next]_vars => BakeInv'
<1> SUFFICES ASSUME BakeInv, [Next]_vars PROVE BakeInv'
  OBVIOUS
<1> USE DEF Finished, BakerPc, Open
<1>1. ASSUME NEW c \in Bakers, BakeRead(c) PROVE BakeInv'
  <2>1. baker' = [baker EXCEPT ![c] = [baker[c] EXCEPT !.pc = "read", !.seen = settings,
                     !.past = {b \in Bakers : baker[b].pc \in Finished}]]
        /\ timeline' = timeline /\ baker[c].pc = "idle"
    BY <1>1 DEF BakeRead
  <2>2. PICK past : past = {b \in Bakers : baker[b].pc \in Finished}
    OBVIOUS
  <2>3. baker'[c] = [pc |-> "read", seen |-> settings, past |-> past,
                     snapshot |-> baker[c].snapshot, deleted |-> baker[c].deleted,
                     made |-> baker[c].made]
    <3>1. Shaped(baker[c])
      BY DEF BakeInv
    <3>2. baker'[c] = [baker[c] EXCEPT !.pc = "read", !.seen = settings, !.past = past]
      BY <2>1, <2>2 DEF BakeInv
    <3> QED
      BY <3>1, <3>2 DEF Shaped
  <2>4. \A b \in Bakers \ {c} : baker'[b] = baker[b]
    BY <2>1 DEF BakeInv
  <2>5. baker' = [b \in Bakers |-> baker'[b]]
    BY <2>1 DEF BakeInv
  <2>6. \A b \in timeline : b \in Bakers \ {c} /\ baker'[b].pc = "done"
    BY <2>1, <2>4 DEF BakeInv
  <2>9. \A b \in Bakers : Shaped(baker'[b])
    BY <2>3, <2>4 DEF BakeInv, Shaped
  <2>7. \A d \in Bakers : \A b \in baker'[d].past : b \in Bakers \ {c} /\ baker'[b].pc \in Finished
    BY <2>1, <2>2, <2>3, <2>4 DEF BakeInv
  <2>8. \A d \in Bakers : \A b \in baker'[d].past : b \in timeline => WillReplace(d, b)'
    BY <2>3, <2>4 DEF WillReplace, BakeInv
  <2> QED
    BY <2>1, <2>5, <2>6, <2>7, <2>8, <2>9 DEF BakeInv
<1>2. ASSUME NEW c \in Bakers, BakeTracks(c) PROVE BakeInv'
  <2>1. Shaped(baker[c])
    BY DEF BakeInv
  <2>2. PICK r : r = [baker[c] EXCEPT !.pc = IF overlay THEN "delete" ELSE "tracks"]
    OBVIOUS
  <2>3. baker' = [baker EXCEPT ![c] = r] /\ timeline' = timeline
    BY <1>2, <2>2 DEF BakeTracks
  <2>4. Shaped(r) /\ r.past = baker[c].past /\ r.pc \in {"delete", "tracks"}
    BY <2>1, <2>2 DEF Shaped
  <2> QED
    BY <1>2, <2>3, <2>4, QuietBake DEF BakeTracks
<1>3. ASSUME NEW c \in Bakers, MakeOverlay(c) PROVE BakeInv'
  <2>1. Shaped(baker[c])
    BY DEF BakeInv
  <2>2. PICK r : r = [baker[c] EXCEPT !.pc = "delete", !.made = TRUE]
    OBVIOUS
  <2>3. baker' = [baker EXCEPT ![c] = r] /\ timeline' = timeline
    BY <1>3, <2>2 DEF MakeOverlay
  <2>4. Shaped(r) /\ r.past = baker[c].past /\ r.pc = "delete"
    BY <2>1, <2>2 DEF Shaped
  <2> QED
    BY <1>3, <2>3, <2>4, QuietBake DEF MakeOverlay
<1>4. ASSUME NEW c \in Bakers, DeleteStarts(c) PROVE BakeInv'
  <2>1. Shaped(baker[c])
    BY DEF BakeInv
  <2>2. PICK r : r = [baker[c] EXCEPT !.pc = "deleting", !.snapshot = timeline]
    OBVIOUS
  <2>3. baker' = [baker EXCEPT ![c] = r] /\ timeline' = timeline
    BY <1>4, <2>2 DEF DeleteStarts
  <2>4. Shaped(r) /\ r.past = baker[c].past /\ r.pc = "deleting" /\ r.snapshot = timeline
    BY <2>1, <2>2 DEF Shaped
  <2> QED
    BY <1>4, <2>3, <2>4, QuietBake DEF DeleteStarts
<1>5. ASSUME NEW c \in Bakers, DeleteEnds(c) PROVE BakeInv'
  <2>1. Shaped(baker[c])
    BY DEF BakeInv
  <2>2. PICK r : r = [baker[c] EXCEPT !.pc = "insert",
                              !.deleted = baker[c].snapshot \intersect timeline]
    OBVIOUS
  <2>3. baker' = [baker EXCEPT ![c] = r] /\ timeline' = timeline
    BY <1>5, <2>2 DEF DeleteEnds
  <2>4. Shaped(r) /\ r.past = baker[c].past /\ r.pc = "insert"
        /\ r.deleted = baker[c].snapshot \intersect timeline
    BY <2>1, <2>2 DEF Shaped
  <2>5. \A b \in timeline \intersect baker[c].past : b \in r.deleted
    BY <1>5, <2>4 DEF DeleteEnds, BakeInv, WillReplace
  <2> QED
    BY <1>5, <2>3, <2>4, <2>5, QuietBake DEF DeleteEnds
<1>6. ASSUME NEW c \in Bakers, BakeCommits(c) PROVE BakeInv'
  <2>1. Shaped(baker[c]) /\ baker[c].pc = "insert"
    BY <1>6 DEF BakeInv, BakeCommits
  <2>2. PICK r : r = [baker[c] EXCEPT !.pc = "done", !.made = FALSE, !.deleted = {},
                                      !.snapshot = {}]
    OBVIOUS
  <2>3. baker' = [baker EXCEPT ![c] = r] /\ timeline' = (timeline \ baker[c].deleted) \union {c}
    BY <1>6, <2>2 DEF BakeCommits
  <2>4. Shaped(r) /\ r.past = baker[c].past /\ r.pc = "done"
    BY <2>1, <2>2 DEF Shaped
  <2>5. baker'[c] = r /\ \A b \in Bakers \ {c} : baker'[b] = baker[b]
    BY <2>3 DEF BakeInv
  <2>6. baker' = [b \in Bakers |-> baker'[b]] /\ \A b \in Bakers : Shaped(baker'[b])
    BY <2>3, <2>4, <2>5 DEF BakeInv
  <2>7. \A b \in timeline' : b \in Bakers /\ baker'[b].pc = "done"
    BY <2>3, <2>4, <2>5 DEF BakeInv
  <2>8. \A d \in Bakers : \A b \in baker'[d].past : b \in Bakers \ {c} /\ baker'[b].pc \in Finished
    BY <2>1, <2>4, <2>5 DEF BakeInv
  <2>9. \A d \in Bakers : \A b \in baker'[d].past : b \in timeline' => WillReplace(d, b)'
    <3> SUFFICES ASSUME NEW d \in Bakers, NEW b \in baker'[d].past, b \in timeline'
                 PROVE  WillReplace(d, b)'
      OBVIOUS
    <3>1. b \in timeline \ baker[c].deleted
      BY <2>3, <2>8
    <3>2. b \in baker[d].past
      BY <2>4, <2>5
    <3>3. d # c
      BY <2>1, <3>1, <3>2 DEF BakeInv, WillReplace
    <3> QED
      BY <2>5, <3>1, <3>2, <3>3 DEF BakeInv, WillReplace
  <2> QED
    BY <2>6, <2>7, <2>8, <2>9 DEF BakeInv
<1>7. ASSUME NEW c \in Bakers, BakeFails(c) PROVE BakeInv'
  <2>1. Shaped(baker[c])
    BY DEF BakeInv
  <2>2. PICK r : r = [IdleBaker EXCEPT !.pc = "failed", !.past = baker[c].past]
    OBVIOUS
  <2>3. baker' = [baker EXCEPT ![c] = r] /\ timeline' = timeline
    BY <1>7, <2>2 DEF BakeFails
  <2>4. Shaped(r) /\ r.past = baker[c].past /\ r.pc = "failed"
    BY <2>1, <2>2 DEF Shaped, IdleBaker
  <2> QED
    BY <1>7, <2>3, <2>4, QuietBake DEF BakeFails
<1>8. ASSUME NEW e \in Editors, EditorStep(e) PROVE BakeInv'
  <2>1. UNCHANGED baking
    BY <1>8 DEF EditorStep, SelectForUpdate, Commit, Rollback
  <2> QED
    BY <2>1 DEF baking, BakeInv, WillReplace
<1>9. CASE UNCHANGED vars
  BY <1>9 DEF vars, BakeInv, WillReplace
<1> QED
  BY <1>1, <1>2, <1>3, <1>4, <1>5, <1>6, <1>7, <1>8, <1>9 DEF Next, BakerStep

\* A bake that began when another had ended leaves none of the other's clips,
\* for any number of bakes, failed ones included, in any interleaving.
THEOREM LaterBakesReplace == Spec => []LaterBakeReplaces
<1>1. Init => BakeInv
  BY InitBake
<1>2. BakeInv /\ [Next]_vars => BakeInv'
  BY BakeStep
<1>3. BakeInv => LaterBakeReplaces
  BY DEF BakeInv, LaterBakeReplaces, WillReplace
<1> QED
  BY <1>1, <1>2, <1>3, PTL DEF Spec

-----------------------------------------------------------------------------
DurationInv ==
    BakesFollowEachOther => \A b \in timeline : duration = TotalMs(baker[b].seen)

\* A step that keeps pasts, and lets bakers leave idle but not return, does
\* not make overlapping bakes follow each other.
LEMMA OverlapStays ==
    ASSUME BakeInv, BakesFollowEachOther', NEW c \in Bakers,
           \A b \in Bakers \ {c} : baker'[b] = baker[b],
           \/ baker[c].pc = "idle"
           \/ baker'[c].past = baker[c].past /\ baker'[c].pc # "idle"
    PROVE  BakesFollowEachOther
<1> SUFFICES ASSUME NEW b \in Bakers, NEW d \in Bakers, b # d,
                    baker[b].pc # "idle", baker[d].pc # "idle"
             PROVE  b \in baker[d].past \/ d \in baker[b].past
  BY DEF BakesFollowEachOther
<1>1. baker'[b].pc # "idle" /\ baker'[d].pc # "idle"
  OBVIOUS
<1>2. baker'[b].past = baker[b].past /\ baker'[d].past = baker[d].past
  OBVIOUS
<1> QED
  BY <1>1, <1>2 DEF BakesFollowEachOther

\* Only a commit changes the timeline and the duration: it leaves none of the
\* clips of the bakes it follows, and writes the duration of its own.
LEMMA DurationStep == BakeInv /\ BakeInv' /\ DurationInv /\ [Next]_vars => DurationInv'
<1> SUFFICES ASSUME BakeInv, BakeInv', DurationInv, [Next]_vars, BakesFollowEachOther',
                    NEW b \in timeline'
             PROVE  duration' = TotalMs(baker'[b].seen)
  BY DEF DurationInv
<1> USE DEF Finished, Open
<1>1. ASSUME NEW c \in Bakers, BakeCommits(c) PROVE duration' = TotalMs(baker'[b].seen)
  <2>1. baker[c].pc = "insert" /\ Shaped(baker[c])
    BY <1>1 DEF BakeCommits, BakeInv
  <2>2. PICK r : r = [baker[c] EXCEPT !.pc = "done", !.made = FALSE, !.deleted = {},
                                      !.snapshot = {}]
    OBVIOUS
  <2>3. r.pc = "done" /\ r.seen = baker[c].seen /\ r.past = baker[c].past
    BY <2>1, <2>2 DEF Shaped
  <2>4. baker'[c] = r /\ \A d \in Bakers \ {c} : baker'[d] = baker[d]
    BY <1>1, <2>2 DEF BakeCommits, BakeInv
  <2>5. b = c
    <3> SUFFICES ASSUME b # c PROVE FALSE
      OBVIOUS
    <3>1. b \in Bakers /\ baker'[b].pc = "done" /\ baker[b].pc = "done"
      BY <1>1, <2>4 DEF BakeInv, BakeCommits
    <3>2. b \in baker'[c].past \/ c \in baker'[b].past
      BY <2>3, <2>4, <3>1 DEF BakesFollowEachOther
    <3>3. c \notin baker[b].past
      BY <2>1, <3>1 DEF BakeInv
    <3>4. b \notin baker'[c].past
      BY <2>3, <2>4 DEF BakeInv, WillReplace
    <3> QED
      BY <2>4, <3>1, <3>2, <3>3, <3>4
  <2> QED
    BY <1>1, <2>3, <2>4, <2>5 DEF BakeCommits
<1>2. ASSUME NEW c \in Bakers, duration' = duration, timeline' = timeline,
             \A d \in Bakers \ {c} : baker'[d] = baker[d],
             baker[c].pc # "done",
             \/ baker[c].pc = "idle"
             \/ baker'[c].past = baker[c].past /\ baker'[c].pc # "idle"
      PROVE  duration' = TotalMs(baker'[b].seen)
  <2>1. BakesFollowEachOther
    BY <1>2, OverlapStays
  <2>2. b # c /\ b \in Bakers
    BY <1>2 DEF BakeInv
  <2> QED
    BY <1>2, <2>1, <2>2 DEF DurationInv
<1>3. ASSUME NEW c \in Bakers, BakeRead(c) PROVE duration' = TotalMs(baker'[b].seen)
  BY <1>3, <1>2 DEF BakeRead, BakeInv
<1>4. ASSUME NEW c \in Bakers,
             BakeTracks(c) \/ MakeOverlay(c) \/ DeleteStarts(c) \/ DeleteEnds(c)
      PROVE  duration' = TotalMs(baker'[b].seen)
  <2>1. Shaped(baker[c]) /\ baker[c].pc \in {"read", "tracks", "delete", "deleting"}
    BY <1>4 DEF BakeTracks, MakeOverlay, DeleteStarts, DeleteEnds, BakeInv
  <2>2. duration' = duration /\ timeline' = timeline
    BY <1>4 DEF BakeTracks, MakeOverlay, DeleteStarts, DeleteEnds
  <2>3. \A d \in Bakers \ {c} : baker'[d] = baker[d]
    BY <1>4 DEF BakeTracks, MakeOverlay, DeleteStarts, DeleteEnds, BakeInv
  <2>4. baker'[c].past = baker[c].past /\ baker'[c].pc # "idle"
    <3>1. CASE BakeTracks(c)
      BY <2>1, <3>1 DEF BakeTracks, BakeInv, Shaped
    <3>2. CASE MakeOverlay(c)
      BY <2>1, <3>2 DEF MakeOverlay, BakeInv, Shaped
    <3>3. CASE DeleteStarts(c)
      BY <2>1, <3>3 DEF DeleteStarts, BakeInv, Shaped
    <3>4. CASE DeleteEnds(c)
      BY <2>1, <3>4 DEF DeleteEnds, BakeInv, Shaped
    <3> QED
      BY <1>4, <3>1, <3>2, <3>3, <3>4
  <2> QED
    BY <1>2, <2>1, <2>2, <2>3, <2>4
<1>5. ASSUME NEW c \in Bakers, BakeFails(c) PROVE duration' = TotalMs(baker'[b].seen)
  <2>1. baker'[c].past = baker[c].past /\ baker'[c].pc = "failed"
    BY <1>5 DEF BakeFails, BakeInv, IdleBaker
  <2> QED
    BY <1>2, <1>5, <2>1 DEF BakeFails, BakeInv
<1>6. ASSUME UNCHANGED baking PROVE duration' = TotalMs(baker'[b].seen)
  BY <1>6 DEF baking, DurationInv, BakesFollowEachOther
<1>7. ASSUME NEW e \in Editors, EditorStep(e) PROVE UNCHANGED baking
  BY <1>7 DEF EditorStep, SelectForUpdate, Commit, Rollback
<1>8. CASE UNCHANGED vars
  BY <1>6, <1>8 DEF vars, baking
<1> QED
  BY <1>1, <1>3, <1>4, <1>5, <1>6, <1>7, <1>8 DEF Next, BakerStep

LEMMA AtMostOne ==
    ASSUME NEW S, \A x, y \in S : x = y
    PROVE  Cardinality(S) <= 1
<1>1. CASE S = {}
  BY <1>1, FS_EmptySet
<1>2. CASE S # {}
  <2>1. PICK x : x \in S
    BY <1>2
  <2>2. S = {x}
    BY <2>1
  <2> QED
    BY <2>2, FS_Singleton
<1> QED
  BY <1>1, <1>2

\* Bakes that follow each other, failed ones included, leave the clips of one
\* bake and the duration that goes with them.
THEOREM SerialBakes == Spec => []SerialBakesAgree
<1>1. Init => BakeInv /\ DurationInv
  BY InitBake DEF Init, DurationInv
<1>2. BakeInv /\ DurationInv /\ [Next]_vars => (BakeInv /\ DurationInv)'
  BY BakeStep, DurationStep
<1>3. BakeInv /\ DurationInv => SerialBakesAgree
  <2> SUFFICES ASSUME BakeInv, DurationInv, BakesFollowEachOther
               PROVE  /\ Cardinality(timeline) <= 1
                      /\ \A b \in timeline : duration = TotalMs(baker[b].seen)
    BY DEF SerialBakesAgree
  <2>1. \A b, c \in timeline : b = c
    BY DEF BakeInv, WillReplace, BakesFollowEachOther
  <2> QED
    BY <2>1, AtMostOne DEF DurationInv
<1> QED
  BY <1>1, <1>2, <1>3, PTL DEF Spec

-----------------------------------------------------------------------------
(* What the requests hold.                                                 *)

\* The settings are well-formed, and so is the edit of the editor that holds
\* the lock: a candidate it adds is not there yet.
EditInv ==
    /\ SettingsOK(settings)
    /\ used \subseteq Candidates
    /\ Ids(settings.candidates) \subseteq used
    /\ lock \in Editors \union {Nobody}
    /\ edits \in 0..MaxEdits
    /\ \A e \in Editors :
          /\ editor[e].pc \in {"idle", "locked"}
          /\ editor[e].pc = "locked" => /\ Applicable(settings, editor[e].edit)
                                        /\ editor[e].edit.op = "add" => editor[e].edit.id \in used
                                        /\ edits < MaxEdits

\* A bake at work holds settings it may lay out.
SeenInv ==
    /\ duration \in Nat
    /\ overlay \in BOOLEAN
    /\ timeline \subseteq Bakers
    /\ \A b \in Bakers :
          /\ baker[b].pc \in BakerPc
          /\ baker[b].snapshot \subseteq Bakers /\ baker[b].deleted \subseteq Bakers
          /\ baker[b].made \in BOOLEAN
          /\ baker[b].pc \in {"read"} \union Open => SettingsOK(baker[b].seen)

LEMMA InitEdit == Init => EditInv /\ SeenInv
<1> SUFFICES ASSUME Init PROVE EditInv /\ SeenInv
  OBVIOUS
<1>1. PICK order \in {"asc", "desc"} :
         settings = Settings(<<>>, [order |-> order, orderMode |-> "custom",
                                    reveal |-> "countdown", header |-> FALSE])
  BY DEF Init
<1>2. settings.candidates = <<>> /\ SettingsOK(settings)
  BY <1>1, NoneIsCandid DEF Settings, SettingsOK
<1>3. Ids(settings.candidates) = {}
  BY <1>2, NoneIsCandid
<1>4. \A e \in Editors : editor[e] = IdleEditor
  BY DEF Init
<1>5. \A b \in Bakers : baker[b] = IdleBaker
  BY DEF Init
<1>e. \A e \in Editors : editor[e].pc = "idle"
  BY <1>4 DEF IdleEditor
<1>6. EditInv
  <2>1. used = {} /\ lock = Nobody /\ edits = 0
    BY DEF Init
  <2>2. edits \in 0..MaxEdits
    BY <2>1, MaxEditsAssumption
  <2> QED
    BY <1>2, <1>3, <1>e, <2>1, <2>2 DEF EditInv
<1>7. SeenInv
  BY <1>5 DEF Init, SeenInv, IdleBaker, BakerPc, Open, Finished
<1> QED
  BY <1>6, <1>7

\* The editor that commits applies its edit to the settings as they are; the
\* others hold no edit.
LEMMA EditStep == LockInv /\ EditInv /\ [Next]_vars => EditInv'
<1> SUFFICES ASSUME LockInv, EditInv, [Next]_vars PROVE EditInv'
  OBVIOUS
<1>1. ASSUME NEW e \in Editors, NEW edit \in Edit, SelectForUpdate(e, edit) PROVE EditInv'
  <2>1. \A f \in Editors : editor[f].pc # "locked"
    BY <1>1, NobodyAssumption DEF SelectForUpdate, LockInv
  <2>2. settings' = settings /\ edits' = edits /\ lock' = e /\ edits < MaxEdits
        /\ (edit.op = "add" => edit.id \notin used)
    BY <1>1 DEF SelectForUpdate
  <2>3. used' = IF edit.op = "add" THEN used \union {edit.id} ELSE used
    BY <1>1 DEF SelectForUpdate
  <2>4. editor'[e] = [pc |-> "locked", edit |-> edit, seen |-> settings]
        /\ \A f \in Editors \ {e} : editor'[f] = editor[f]
    BY <1>1 DEF SelectForUpdate, LockInv
  <2>5. used' \subseteq Candidates /\ used \subseteq used' /\ (edit.op = "add" => edit.id \in used')
    <3>1. edit.op = "add" => edit.id \in Candidates
      BY DEF Edit
    <3> QED
      BY <2>3, <3>1 DEF EditInv
  <2>6. Applicable(settings, edit)
    BY <2>2 DEF Applicable, EditInv
  <2>7. \A f \in Editors :
           /\ editor'[f].pc \in {"idle", "locked"}
           /\ editor'[f].pc = "locked" => f = e
    BY <2>1, <2>4 DEF EditInv
  <2>8. Ids(settings'.candidates) \subseteq used' /\ SettingsOK(settings')
    BY <2>2, <2>5 DEF EditInv
  <2> QED
    BY <2>2, <2>4, <2>5, <2>6, <2>7, <2>8 DEF EditInv
<1>2. ASSUME NEW e \in Editors, Commit(e) PROVE EditInv'
  <2>1. editor[e].pc = "locked" /\ editor[e].seen = settings
    BY <1>2 DEF Commit, LockInv
  <2>2. settings' = Apply(settings, editor[e].edit) /\ used' = used /\ lock' = Nobody
        /\ edits' = edits + 1
    BY <1>2, <2>1 DEF Commit
  <2>3. \A f \in Editors : editor'[f].pc = "idle"
    <3>1. editor' = [editor EXCEPT ![e] = IdleEditor]
      BY <1>2 DEF Commit
    <3>2. \A f \in Editors \ {e} : editor[f].pc = "idle"
      BY <2>1 DEF LockInv, EditInv
    <3> QED
      BY <3>1, <3>2 DEF LockInv, IdleEditor
  <2>4. Applicable(settings, editor[e].edit)
        /\ (editor[e].edit.op = "add" => editor[e].edit.id \in used) /\ edits < MaxEdits
    BY <2>1 DEF EditInv
  <2>5. SettingsOK(settings') /\ Ids(settings'.candidates) \subseteq used
    BY <2>2, <2>4, EditKeepsCandidates DEF EditInv
  <2>6. edits' \in 0..MaxEdits
    BY <2>2, <2>4, MaxEditsAssumption DEF EditInv
  <2> QED
    BY <2>2, <2>3, <2>5, <2>6 DEF EditInv
<1>3. ASSUME NEW e \in Editors, Rollback(e) PROVE EditInv'
  <2>1. settings' = settings /\ used' = used /\ edits' = edits /\ lock' = Nobody
    BY <1>3 DEF Rollback
  <2>2. editor' = [editor EXCEPT ![e] = IdleEditor]
    BY <1>3 DEF Rollback
  <2>3. \A f \in Editors : editor'[f].pc = "idle" \/ editor'[f] = editor[f]
    BY <2>2 DEF LockInv, IdleEditor
  <2> QED
    BY <2>1, <2>3 DEF EditInv
<1>4. ASSUME NEW b \in Bakers, BakerStep(b) PROVE EditInv'
  <2>1. UNCHANGED editing
    BY <1>4 DEF BakerStep, BakeRead, BakeTracks, MakeOverlay, DeleteStarts, DeleteEnds,
                BakeCommits, BakeFails
  <2> QED
    BY <2>1 DEF editing, EditInv
<1>5. CASE UNCHANGED vars
  BY <1>5 DEF vars, EditInv
<1> QED
  BY <1>1, <1>2, <1>3, <1>4, <1>5 DEF Next, EditorStep

\* A bake reads settings that are well-formed and keeps them until it ends.
LEMMA SeenStep == BakeInv /\ EditInv /\ SeenInv /\ [Next]_vars => SeenInv'
<1> SUFFICES ASSUME BakeInv, EditInv, SeenInv, [Next]_vars PROVE SeenInv'
  OBVIOUS
<1> USE DEF Finished, BakerPc, Open
<1> DEFINE Fine(r) ==
             /\ r.pc \in BakerPc
             /\ r.snapshot \subseteq Bakers /\ r.deleted \subseteq Bakers /\ r.made \in BOOLEAN
             /\ r.pc \in {"read"} \union Open => SettingsOK(r.seen)
<1>1. \A b \in Bakers : Shaped(baker[b]) /\ Fine(baker[b])
  BY DEF BakeInv, SeenInv
<1>2. ASSUME NEW c \in Bakers, NEW r, baker' = [baker EXCEPT ![c] = r], Fine(r),
             duration' \in Nat, overlay' \in BOOLEAN, timeline' \subseteq Bakers
      PROVE  SeenInv'
  <2>1. \A b \in Bakers : baker'[b] = r \/ baker'[b] = baker[b]
    BY <1>2 DEF BakeInv
  <2>2. \A b \in Bakers : Fine(baker'[b])
    BY <1>1, <1>2, <2>1
  <2> QED
    BY <1>2, <2>2 DEF SeenInv
<1>3. ASSUME UNCHANGED <<duration, overlay, timeline>>
      PROVE  duration' \in Nat /\ overlay' \in BOOLEAN /\ timeline' \subseteq Bakers
  BY <1>3 DEF SeenInv
<1>4. ASSUME NEW c \in Bakers, BakeRead(c) PROVE SeenInv'
  <2>1. PICK r : r = [baker[c] EXCEPT !.pc = "read", !.seen = settings,
                        !.past = {b \in Bakers : baker[b].pc \in Finished}]
    OBVIOUS
  <2>2. Shaped(baker[c]) /\ Fine(baker[c])
    BY <1>1
  <2>3. Fine(r)
    BY <2>1, <2>2 DEF Shaped, EditInv
  <2> QED
    BY <1>2, <1>3, <1>4, <2>1, <2>3 DEF BakeRead
<1>5. ASSUME NEW c \in Bakers, BakeTracks(c) PROVE SeenInv'
  <2>1. PICK r : r = [baker[c] EXCEPT !.pc = IF overlay THEN "delete" ELSE "tracks"]
    OBVIOUS
  <2>2. Shaped(baker[c]) /\ Fine(baker[c]) /\ baker[c].pc = "read"
    BY <1>1, <1>5 DEF BakeTracks
  <2>3. Fine(r)
    BY <2>1, <2>2 DEF Shaped
  <2> QED
    BY <1>2, <1>3, <1>5, <2>1, <2>3 DEF BakeTracks
<1>6. ASSUME NEW c \in Bakers, MakeOverlay(c) PROVE SeenInv'
  <2>1. PICK r : r = [baker[c] EXCEPT !.pc = "delete", !.made = TRUE]
    OBVIOUS
  <2>2. Shaped(baker[c]) /\ Fine(baker[c]) /\ baker[c].pc = "tracks"
    BY <1>1, <1>6 DEF MakeOverlay
  <2>3. Fine(r)
    BY <2>1, <2>2 DEF Shaped
  <2> QED
    BY <1>2, <1>3, <1>6, <2>1, <2>3 DEF MakeOverlay
<1>7. ASSUME NEW c \in Bakers, DeleteStarts(c) PROVE SeenInv'
  <2>1. PICK r : r = [baker[c] EXCEPT !.pc = "deleting", !.snapshot = timeline]
    OBVIOUS
  <2>2. Shaped(baker[c]) /\ Fine(baker[c]) /\ baker[c].pc = "delete" /\ timeline \subseteq Bakers
    BY <1>1, <1>7 DEF DeleteStarts, SeenInv
  <2>3. Fine(r)
    BY <2>1, <2>2 DEF Shaped
  <2> QED
    BY <1>2, <1>3, <1>7, <2>1, <2>3 DEF DeleteStarts
<1>8. ASSUME NEW c \in Bakers, DeleteEnds(c) PROVE SeenInv'
  <2>1. PICK r : r = [baker[c] EXCEPT !.pc = "insert",
                              !.deleted = baker[c].snapshot \intersect timeline]
    OBVIOUS
  <2>2. Shaped(baker[c]) /\ Fine(baker[c]) /\ baker[c].pc = "deleting"
    BY <1>1, <1>8 DEF DeleteEnds
  <2>3. Fine(r)
    BY <2>1, <2>2 DEF Shaped
  <2> QED
    BY <1>2, <1>3, <1>8, <2>1, <2>3 DEF DeleteEnds
<1>9. ASSUME NEW c \in Bakers, BakeCommits(c) PROVE SeenInv'
  <2>1. PICK r : r = [baker[c] EXCEPT !.pc = "done", !.made = FALSE, !.deleted = {},
                                      !.snapshot = {}]
    OBVIOUS
  <2>2. Shaped(baker[c]) /\ Fine(baker[c]) /\ baker[c].pc = "insert"
    BY <1>1, <1>9 DEF BakeCommits
  <2>3. Fine(r)
    BY <2>1, <2>2 DEF Shaped
  <2>4. SettingsOK(baker[c].seen)
    BY <2>2
  <2>5. TotalMs(baker[c].seen) \in Nat
    <3> DEFINE n == Len(baker[c].seen.candidates)
               C == Cursor(Revealed(baker[c].seen))
    <3>1. n \in Nat /\ TotalMs(baker[c].seen) = C[n] /\ \A i \in 0..n : C[i] \in Nat
      BY <2>4, CursorOfSlots
    <3> HIDE DEF n, C
    <3> QED
      BY <3>1
  <2>6. overlay' \in BOOLEAN
    BY <1>9, <2>2 DEF BakeCommits, SeenInv
  <2>7. timeline' \subseteq Bakers
    BY <1>9 DEF BakeCommits, SeenInv
  <2>8. duration' \in Nat /\ baker' = [baker EXCEPT ![c] = r]
    BY <1>9, <2>1, <2>5 DEF BakeCommits
  <2> HIDE DEF Fine
  <2> QED
    BY <1>2, <2>3, <2>6, <2>7, <2>8
<1>10. ASSUME NEW c \in Bakers, BakeFails(c) PROVE SeenInv'
  <2>1. PICK r : r = [IdleBaker EXCEPT !.pc = "failed", !.past = baker[c].past]
    OBVIOUS
  <2>2. Fine(r)
    BY <2>1 DEF IdleBaker
  <2> QED
    BY <1>2, <1>3, <1>10, <2>1, <2>2 DEF BakeFails
<1>11. ASSUME NEW e \in Editors, EditorStep(e) PROVE SeenInv'
  <2>1. UNCHANGED baking
    BY <1>11 DEF EditorStep, SelectForUpdate, Commit, Rollback
  <2> QED
    BY <2>1 DEF baking, SeenInv
<1>12. CASE UNCHANGED vars
  BY <1>12 DEF vars, SeenInv
<1> QED
  BY <1>4, <1>5, <1>6, <1>7, <1>8, <1>9, <1>10, <1>11, <1>12 DEF Next, BakerStep

\* All the halves together.
RankingInv == LockInv /\ BakeInv /\ EditInv /\ SeenInv

LEMMA RankingIsInvariant == Spec => []RankingInv
<1>1. Init => RankingInv
  BY InitLock, InitBake, InitEdit DEF RankingInv
<1>2. RankingInv /\ [Next]_vars => RankingInv'
  BY LockStep, BakeStep, EditStep, SeenStep DEF RankingInv
<1> QED
  BY <1>1, <1>2, PTL DEF Spec

\* Every variable keeps its type; no candidate has an id nobody drew.
THEOREM RankingTypeCorrect == Spec => []TypeOK
<1>1. RankingInv => TypeOK
  <2> SUFFICES ASSUME RankingInv PROVE TypeOK
    OBVIOUS
  <2>1. \A k \in DOMAIN settings.candidates : settings.candidates[k] \in Candidate
    BY CandidatesHaveData DEF RankingInv, EditInv, SettingsOK
  <2> QED
    BY <2>1 DEF RankingInv, EditInv, SeenInv, TypeOK
<1> QED
  BY <1>1, RankingIsInvariant, PTL

\* Whatever edits race with it, a bake lays out clips that fit the duration it
\* writes and numbers that follow the order: for any candidates, any data and
\* any settings, by the strict order of Before and the cursor that only grows.
THEOREM BakesAreSound == Spec => []BakedLayoutSound
<1>1. RankingInv => BakedLayoutSound
  <2> SUFFICES ASSUME RankingInv, NEW b \in Bakers, baker[b].pc = "read"
               PROVE  ClipsFit(baker[b].seen) /\ RanksFollowOrder(baker[b].seen)
    BY DEF BakedLayoutSound
  <2>1. SettingsOK(baker[b].seen)
    BY DEF RankingInv, SeenInv
  <2> QED
    BY <2>1, LayoutFits, RanksAreThePlaces
<1> QED
  BY <1>1, RankingIsInvariant, PTL

LEMMA RemovalStep ==
    ASSUME RankingInv, RankingInv', [Next]_vars
    PROVE  /\ \A id \in Ids(settings.candidates) \ Ids(settings'.candidates) :
                 \E e \in Editors : editor[e].edit.op = "remove" /\ editor[e].edit.id = id
           /\ Cardinality(Ids(settings'.candidates)) = Len(settings'.candidates)
<1>1. Cardinality(Ids(settings'.candidates)) = Len(settings'.candidates)
  BY IdsCount DEF RankingInv, EditInv, SettingsOK
<1>2. CASE settings' = settings
  BY <1>1, <1>2
<1>3. ASSUME NEW e \in Editors, Commit(e)
      PROVE  \A id \in Ids(settings.candidates) \ Ids(settings'.candidates) :
                editor[e].edit.op = "remove" /\ editor[e].edit.id = id
  <2>1. settings' = Apply(settings, editor[e].edit) /\ editor[e].pc = "locked"
    BY <1>3 DEF Commit, RankingInv, LockInv
  <2>2. Applicable(settings, editor[e].edit) /\ SettingsOK(settings)
    BY <2>1 DEF RankingInv, EditInv
  <2> QED
    BY <2>1, <2>2, EditKeepsCandidates
<1>4. settings' = settings \/ \E e \in Editors : Commit(e)
  <2>1. ASSUME NEW b \in Bakers, BakerStep(b) PROVE settings' = settings
    <3>1. UNCHANGED editing
      BY <2>1 DEF BakerStep, BakeRead, BakeTracks, MakeOverlay, DeleteStarts, DeleteEnds,
                  BakeCommits, BakeFails
    <3> QED
      BY <3>1 DEF editing
  <2> QED
    BY <2>1 DEF Next, EditorStep, SelectForUpdate, Rollback, vars
<1> QED
  BY <1>1, <1>2, <1>3, <1>4

\* No reorder, update, addition or change of the settings loses a candidate or
\* doubles one, however stale or repetitive the ids it names.
THEOREM OnlyRemovalsLose == Spec => OnlyRemovalLosesCandidates
<1>1. RankingInv /\ RankingInv' /\ [Next]_vars =>
         [LET before == Ids(settings.candidates)
              after == Ids(settings'.candidates)
          IN  /\ \A id \in before \ after : \E e \in Editors :
                    editor[e].edit.op = "remove" /\ editor[e].edit.id = id
              /\ Cardinality(after) = Len(settings'.candidates)]_vars
  BY RemovalStep
<1> QED
  BY <1>1, RankingIsInvariant, PTL DEF Spec, OnlyRemovalLosesCandidates
=============================================================================
