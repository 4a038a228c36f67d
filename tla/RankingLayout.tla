--------------------------- MODULE RankingLayout ---------------------------
(***************************************************************************)
(* The pure part of a ranking project (ranking.service.ts): the order of   *)
(* its candidates, the length of a slot and the clips a bake lays out.     *)
(*                                                                         *)
(* A candidate is [id, data]; its data are what the layout depends on:     *)
(* score, trim (start 0 when null), asset attached or not, asset and       *)
(* narration length (Null when not known or not there), number shown.      *)
(***************************************************************************)
EXTENDS Integers, Sequences, FiniteSets, FiniteSetsExt, SequencesExt

CONSTANTS DefaultSlot, MinSlot, MaxSlot, Null

ASSUME SlotAssumption ==
    /\ {DefaultSlot, MinSlot, MaxSlot} \subseteq Nat \ {0}
    /\ MinSlot <= MaxSlot
ASSUME NullAssumption == Null \notin Nat

\* orderCandidates: as stored, or sorted by score, ties as stored.
Before(s, i, k) ==
    LET a == s.candidates[i].data.score
        b == s.candidates[k].data.score
    IN  IF s.orderMode = "custom" \/ a = b THEN i < k
        ELSE IF s.order = "asc" THEN a < b ELSE a > b

Ordered(s) ==
    LET all == DOMAIN s.candidates
        place == [k \in all |-> 1 + Cardinality({i \in all : Before(s, i, k)})]
    IN  [p \in all |-> s.candidates[CHOOSE k \in all : place[k] = p]]

Revealed(s) == IF s.reveal = "topfirst" THEN Ordered(s) ELSE Reverse(Ordered(s))

\* slotDuration: the trimmed range within its limits, else the default.
SlotMs(d) ==
    LET end == IF d.trimEnd # Null THEN d.trimEnd ELSE d.assetMs
    IN  IF end # Null /\ end > d.trimStart
        THEN Min({MaxSlot, Max({MinSlot, end - d.trimStart})})
        ELSE DefaultSlot

\* The cursor of the loop over the slots, after each of them.
Cursor(q) ==
    LET after[i \in 0..Len(q)] == IF i = 0 THEN 0 ELSE after[i - 1] + SlotMs(q[i].data)
    IN  after
StartOf(q, i) == Cursor(q)[i - 1]
TotalMs(s) == Cursor(Revealed(s))[Len(s.candidates)]

\* Mutant: the narration is not cut to its slot.
NarrationUncut(d) == IF d.narrationMs = Null THEN SlotMs(d) ELSE d.narrationMs

NarrationCut(d) ==
    IF d.narrationMs = Null THEN SlotMs(d) ELSE Min({d.narrationMs, SlotMs(d)})

\* Mutant: the countdown numbers its slots as topfirst does.
RankUncounted(s, i) == i

RankAt(s, i) == IF s.reveal = "topfirst" THEN i ELSE Len(s.candidates) + 1 - i

\* bakeTimeline: the clips of slot i, and of the whole project.
SlotClips(s, i) ==
    LET q == Revealed(s)
        d == q[i].data
        Clip(role, length) == [role |-> role, id |-> q[i].id, rank |-> RankAt(s, i),
                               start |-> StartOf(q, i), length |-> length]
    IN  {Clip("overlay", SlotMs(d))}
        \union (IF d.asset THEN {Clip("card", SlotMs(d))} ELSE {})
        \union (IF d.narrated THEN {Clip("voiceover", NarrationCut(d))} ELSE {})
        \union (IF d.numbered THEN {Clip("number", SlotMs(d))} ELSE {})

Layout(s) ==
    (UNION {SlotClips(s, i) : i \in DOMAIN s.candidates})
    \union (IF s.header /\ TotalMs(s) > 0
            THEN {[role |-> "header", id |-> Null, rank |-> 0, start |-> 0,
                   length |-> TotalMs(s)]}
            ELSE {})

-----------------------------------------------------------------------------
(* Properties of the layout of settings s.                                 *)

\* Every clip lies inside the project's duration, clips of one role never
\* overlap, and the clips of one candidate start together.
ClipsFit(s) ==
    \A c, e \in Layout(s) :
        /\ c.start + c.length <= TotalMs(s)
        /\ c.role = e.role /\ c.id # e.id =>
               c.start + c.length <= e.start \/ e.start + e.length <= c.start
        /\ c.id = e.id => c.start = e.start

\* Ranks are 1..n, the better score has the better rank when the project is
\* sorted by score, the stored order decides otherwise, and number 1 is shown
\* last in a countdown, first in a topfirst reveal.
RanksFollowOrder(s) ==
    LET titles == {c \in Layout(s) : c.role = "overlay"}
        at(id) == CHOOSE k \in DOMAIN s.candidates : s.candidates[k].id = id
        score(c) == s.candidates[at(c.id)].data.score
    IN  /\ {c.rank : c \in titles} = 1..Len(s.candidates)
        /\ \A c, e \in titles : c.rank < e.rank =>
               /\ (c.start < e.start) <=> (s.reveal = "topfirst")
               /\ s.orderMode = "score" /\ s.order = "desc" => score(c) >= score(e)
               /\ s.orderMode = "score" /\ s.order = "asc" => score(c) <= score(e)
               /\ s.orderMode = "custom" => at(c.id) < at(e.id)
=============================================================================
