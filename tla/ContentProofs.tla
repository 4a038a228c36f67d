--------------------------- MODULE ContentProofs ----------------------------
(***************************************************************************)
(* Proofs about what a project's content is made of.  TimelineApi, for any *)
(* number of concurrent requests, tracks and clips: the rows keep their    *)
(* types, and a cached duration is stale only for the three reasons that   *)
(* DurationFollowsClips names.  ResultRows, for any number of executions,  *)
(* rows and attempts: what a worker's callback leaves on a row.            *)
(***************************************************************************)
EXTENDS TimelineApi, ResultRows, FiniteSetTheorems, WellFoundedInduction, TLAPS

-----------------------------------------------------------------------------
(* The timeline: its rows.                                                 *)

\* A timeline whose rows have their types and whose clips are on its tracks.
Timeline(t) ==
    /\ t = [tracks |-> t.tracks, clips |-> t.clips]
    /\ IsFiniteSet(DOMAIN t.tracks) /\ DOMAIN t.tracks \subseteq TrackIds
    /\ t.tracks \in [DOMAIN t.tracks -> TrackRow]
    /\ IsFiniteSet(DOMAIN t.clips) /\ DOMAIN t.clips \subseteq ClipIds
    /\ t.clips \in [DOMAIN t.clips -> ClipRow]
    /\ \A c \in DOMAIN t.clips : t.clips[c].track \in DOMAIN t.tracks

\* The fields an update of a track, or a place for a clip, sets.
TrackFields(set) ==
    /\ "muted" \in DOMAIN set => set.muted \in BOOLEAN
    /\ "index" \in DOMAIN set => set.index \in Nat
StartIsNatural(set) == "start" \in DOMAIN set => set.start \in Nat

\* What a request asks for, and what it has read by the time it writes; a split
\* has found its cut strictly inside the clip it saw.
CallTyped(r) ==
    /\ stage[r] # "idle" => call[r].project \in Projects
    /\ At(r, "createTrack", "look") \/ At(r, "createTrack", "write") => call[r].kind \in TrackKinds
    /\ At(r, "createTrack", "write") => call[r].index \in Nat
    /\ At(r, "updateTrack", "write") => TrackFields(call[r].set)
    /\ At(r, "createClip", "look") \/ At(r, "createClip", "write") => call[r].row \in ClipRow
    /\ At(r, "updateClip", "write") => call[r].start \in Nat /\ call[r].len \in Nat \ {0}
    /\ At(r, "moveClip", "look") \/ At(r, "moveClip", "write") => StartIsNatural(call[r].set)
    /\ At(r, "splitClip", "look") \/ At(r, "splitClip", "write") => call[r].at \in Nat
    /\ At(r, "splitClip", "write") =>
          /\ call[r].seen \in ClipRow
          /\ call[r].seen.start < call[r].at
          /\ call[r].at < call[r].seen.start + call[r].seen.len
    /\ At(r, "reorderClips", "write") =>
          \A u \in call[r].updates : StartIsNatural(u.set)

TimelineInv ==
    /\ Timeline(rows)
    /\ DOMAIN call = Editing /\ \A r \in Editing : CallTyped(r)
    /\ durationMs \in [Projects -> Nat]
    /\ stage \in [Editing -> Stages] /\ measured \in [Editing -> Nat]
    /\ behind \subseteq Editing
    /\ owned \subseteq Projects /\ outrun \subseteq Projects /\ displaced \subseteq Projects

-----------------------------------------------------------------------------
(* The statements of the repositories on a timeline.                       *)

LEMMA LeastNatural ==
    ASSUME NEW S \in SUBSET Nat, S # {}
    PROVE  Min(S) \in S
<1>1. PICK m \in S : \A n \in S : ~ (<<n, m>> \in OpToRel(<, Nat))
  BY NatLessThanWellFounded, WFMin
<1>2. ASSUME NEW n \in S PROVE m <= n
  <2>1. m \in Nat /\ n \in Nat
    OBVIOUS
  <2>2. n < m => <<n, m>> \in OpToRel(<, Nat)
    BY <2>1 DEF OpToRel
  <2>3. ~ (n < m)
    BY <1>1, <2>2
  <2> QED
    BY <2>1, <2>3
<1> QED
  BY <1>2 DEF Min

LEMMA LowestOfIds ==
    ASSUME NEW S \in SUBSET Nat
    PROVE  Lowest(S) \subseteq S
  BY LeastNatural DEF Lowest

\* A function on a finite set takes a greatest value.
LEMMA GreatestValue ==
    ASSUME NEW D, IsFiniteSet(D), D # {}, NEW f, \A d \in D : f[d] \in Nat
    PROVE  \E d \in D : \A e \in D : f[e] <= f[d]
<1> DEFINE Greatest(E) == \E d \in E : \A e \in E : f[e] <= f[d]
           Without == {E \in SUBSET D : E # {} /\ ~ Greatest(E)}
<1>1. SUFFICES ASSUME Without # {} PROVE FALSE
  <2>1. D \notin Without
    BY <1>1
  <2> QED
    BY <2>1
<1>2. FiniteSubsetsOf(D) = SUBSET D
  BY FS_FiniteSubsetsOfFinite
<1>3. PICK E \in Without : \A F \in Without : ~ (<<F, E>> \in StrictSubsetOrdering(D))
  <2>1. IsWellFoundedOn(StrictSubsetOrdering(D), SUBSET D)
    BY <1>2, FS_StrictSubsetOrderingWellFounded
  <2>2. Without \subseteq SUBSET D
    OBVIOUS
  <2> HIDE DEF Without
  <2> QED
    BY <1>1, <2>1, <2>2, WFMin
<1>4. PICK x \in E : TRUE
  OBVIOUS
<1>5. E \ {x} \notin Without
  <2>1. <<E \ {x}, E>> \in StrictSubsetOrdering(D)
    BY <1>4 DEF StrictSubsetOrdering
  <2> QED
    BY <1>3, <2>1
<1>6. E \ {x} # {} /\ E \ {x} \in SUBSET D
  <2>1. E \ {x} = {} => Greatest(E)
    BY <1>4
  <2> QED
    BY <2>1
<1>7. PICK d \in E \ {x} : \A e \in E \ {x} : f[e] <= f[d]
  BY <1>5, <1>6
<1>8. f[x] \in Nat /\ f[d] \in Nat /\ \A e \in E : f[e] \in Nat
  BY <1>4, <1>7
<1>9. CASE f[x] <= f[d]
  BY <1>7, <1>9
<1>10. CASE f[d] <= f[x]
  BY <1>4, <1>7, <1>8, <1>10
<1> QED
  BY <1>8, <1>9, <1>10

LEMMA EndIsNatural ==
    ASSUME NEW t, Timeline(t)
    PROVE  LastEnd(t) \in Nat
<1> DEFINE D == DOMAIN t.clips
           f == [c \in D |-> t.clips[c].start + t.clips[c].len]
           E == {0} \union {t.clips[c].start + t.clips[c].len : c \in D}
<1>1. \A c \in D : f[c] \in Nat /\ f[c] = t.clips[c].start + t.clips[c].len
  BY DEF Timeline, ClipRow
<1>2. \E m \in E : \A n \in E : m >= n
  <2>1. CASE D = {}
    BY <2>1
  <2>2. CASE D # {}
    <3>1. PICK d \in D : \A e \in D : f[e] <= f[d]
      <4>1. IsFiniteSet(D)
        BY DEF Timeline
      <4> HIDE DEF D, f
      <4> QED
        BY <1>1, <2>2, <4>1, GreatestValue
    <3>2. f[d] \in E /\ \A n \in E : f[d] >= n
      BY <1>1, <3>1
    <3> QED
      BY <3>2
  <2> QED
    BY <2>1, <2>2
<1>3. Max(E) \in E
  BY <1>2 DEF Max
<1>4. E \subseteq Nat
  <2> SUFFICES ASSUME NEW n \in E, n # 0 PROVE n \in Nat
    OBVIOUS
  <2>1. PICK c \in D : n = t.clips[c].start + t.clips[c].len
    OBVIOUS
  <2>2. t.clips[c].start \in Nat /\ t.clips[c].len \in Nat
    BY DEF Timeline, ClipRow
  <2> QED
    BY <2>1, <2>2
<1> QED
  BY <1>3, <1>4 DEF LastEnd

LEMMA CountIsNatural ==
    ASSUME NEW t, Timeline(t), NEW kind
    PROVE  CountTracks(t, kind) \in Nat
<1>1. {i \in DOMAIN t.tracks : t.tracks[i].kind = kind} \in SUBSET DOMAIN t.tracks
  OBVIOUS
<1> QED
  BY <1>1, FS_Subset, FS_CardinalityType DEF Timeline, CountTracks

\* A share of a timeline is one.
LEMMA PartIsTyped ==
    ASSUME NEW t, Timeline(t), NEW S \in SUBSET DOMAIN t.tracks
    PROVE  Timeline(TracksWith(t, S))
<1> DEFINE C == {c \in DOMAIN t.clips : t.clips[c].track \in S}
           f == Restrict(t.tracks, S)
           g == Restrict(t.clips, C)
<1>1. TracksWith(t, S) = [tracks |-> f, clips |-> g]
  BY DEF TracksWith
<1>2. IsFiniteSet(S) /\ IsFiniteSet(C)
  BY FS_Subset DEF Timeline
<1>3. DOMAIN f = S /\ f \in [S -> TrackRow]
  BY DEF Restrict, Timeline
<1>4. DOMAIN g = C /\ g \in [C -> ClipRow] /\ \A c \in C : g[c].track \in S
  BY DEF Restrict, Timeline
<1>5. S \subseteq TrackIds /\ C \subseteq ClipIds
  BY DEF Timeline
<1> HIDE DEF f, g, C
<1> QED
  BY <1>1, <1>2, <1>3, <1>4, <1>5 DEF Timeline

LEMMA ProjectsShareIsTyped ==
    ASSUME NEW t, Timeline(t), NEW p
    PROVE  Timeline(TracksWith(t, TracksOf(t, p))) /\ EndOf(t, p) \in Nat
  BY PartIsTyped, EndIsNatural DEF TracksOf, EndOf

LEMMA TracksStayTyped ==
    ASSUME NEW t, Timeline(t), NEW id
    PROVE  /\ \A attrs \in TrackRow : id \in TrackIds => Timeline(TrackCreated(t, id, attrs))
           /\ \A set : TrackFields(set) => Timeline(TrackUpdated(t, id, set))
           /\ Timeline(TrackDeleted(t, id))
<1>t. /\ t.tracks \in [DOMAIN t.tracks -> TrackRow] /\ IsFiniteSet(DOMAIN t.tracks)
      /\ t.clips \in [DOMAIN t.clips -> ClipRow] /\ IsFiniteSet(DOMAIN t.clips)
      /\ t = [tracks |-> t.tracks, clips |-> t.clips]
      /\ DOMAIN t.tracks \subseteq TrackIds /\ DOMAIN t.clips \subseteq ClipIds
      /\ \A c \in DOMAIN t.clips : t.clips[c].track \in DOMAIN t.tracks
  BY DEF Timeline
<1>1. ASSUME NEW attrs \in TrackRow, id \in TrackIds PROVE Timeline(TrackCreated(t, id, attrs))
  <2> DEFINE f == With(t.tracks, id, attrs)
  <2>1. TrackCreated(t, id, attrs) = [tracks |-> f, clips |-> t.clips]
    BY <1>t DEF TrackCreated
  <2>2. DOMAIN f = DOMAIN t.tracks \union {id} /\ IsFiniteSet(DOMAIN t.tracks \union {id})
    BY <1>t, FS_AddElement DEF With
  <2>3. f \in [DOMAIN f -> TrackRow]
    BY <1>t DEF With
  <2> HIDE DEF f
  <2> QED
    BY <1>1, <1>t, <2>1, <2>2, <2>3 DEF Timeline
<1>2. ASSUME NEW set, TrackFields(set) PROVE Timeline(TrackUpdated(t, id, set))
  <2> DEFINE row == TrackSet(t.tracks[id], set)
             f == [t.tracks EXCEPT ![id] = row]
  <2>1. TrackUpdated(t, id, set) = [tracks |-> f, clips |-> t.clips]
    BY <1>t DEF TrackUpdated
  <2>2. id \in DOMAIN t.tracks => row \in TrackRow
    BY <1>t, <1>2 DEF TrackRow, TrackFields, TrackSet
  <2> HIDE DEF row
  <2>3. DOMAIN f = DOMAIN t.tracks /\ f \in [DOMAIN f -> TrackRow]
    BY <1>t, <2>2
  <2> HIDE DEF f
  <2> QED
    BY <1>t, <2>1, <2>3 DEF Timeline
<1>3. Timeline(TrackDeleted(t, id))
  <2> DEFINE gone == {c \in DOMAIN t.clips : t.clips[c].track = id}
             f == Drop(t.tracks, {id})
             g == Drop(t.clips, gone)
  <2>1. TrackDeleted(t, id) = [tracks |-> f, clips |-> g]
    BY DEF TrackDeleted
  <2>2. DOMAIN f = DOMAIN t.tracks \ {id} /\ f \in [DOMAIN f -> TrackRow] /\ IsFiniteSet(DOMAIN f)
    <3>1. IsFiniteSet(DOMAIN t.tracks \ {id})
      BY <1>t, FS_Subset
    <3> QED
      BY <1>t, <3>1 DEF Drop, Restrict
  <2>3. /\ DOMAIN g = DOMAIN t.clips \ gone /\ g \in [DOMAIN g -> ClipRow] /\ IsFiniteSet(DOMAIN g)
        /\ \A c \in DOMAIN g : g[c] = t.clips[c]
    <3> HIDE DEF gone
    <3>1. IsFiniteSet(DOMAIN t.clips \ gone)
      BY <1>t, FS_Subset
    <3> QED
      BY <1>t, <3>1 DEF Drop, Restrict
  <2>4. \A c \in DOMAIN g : g[c].track \in DOMAIN f
    BY <1>t, <2>2, <2>3
  <2> HIDE DEF f, g
  <2> QED
    BY <1>t, <2>1, <2>2, <2>3, <2>4 DEF Timeline
<1> QED
  BY <1>1, <1>2, <1>3

LEMMA ClipsStayTyped ==
    ASSUME NEW t, Timeline(t), NEW id
    PROVE  /\ \A row \in ClipRow : id \in ClipIds /\ row.track \in DOMAIN t.tracks
                                    => Timeline(ClipCreated(t, id, row))
           /\ \A row \in ClipRow : id \in DOMAIN t.clips /\ row.track \in DOMAIN t.tracks
                                    => Timeline(ClipPatched(t, id, row))
           /\ Timeline(ClipDeleted(t, id))
<1>t. /\ t.tracks \in [DOMAIN t.tracks -> TrackRow] /\ IsFiniteSet(DOMAIN t.tracks)
      /\ t.clips \in [DOMAIN t.clips -> ClipRow] /\ IsFiniteSet(DOMAIN t.clips)
      /\ t = [tracks |-> t.tracks, clips |-> t.clips]
      /\ DOMAIN t.tracks \subseteq TrackIds /\ DOMAIN t.clips \subseteq ClipIds
      /\ \A c \in DOMAIN t.clips : t.clips[c].track \in DOMAIN t.tracks
  BY DEF Timeline
\* The clips are replaced, each by one on a track that is there.
<1>c. ASSUME NEW u, NEW g, u = [tracks |-> t.tracks, clips |-> g],
             DOMAIN g \subseteq ClipIds, IsFiniteSet(DOMAIN g), g \in [DOMAIN g -> ClipRow],
             \A c \in DOMAIN g : g[c].track \in DOMAIN t.tracks
      PROVE  Timeline(u)
  BY <1>c, <1>t DEF Timeline
<1>1. ASSUME NEW row \in ClipRow, id \in ClipIds, row.track \in DOMAIN t.tracks
      PROVE  Timeline(ClipCreated(t, id, row))
  <2> DEFINE g == With(t.clips, id, row)
  <2>1. ClipCreated(t, id, row) = [tracks |-> t.tracks, clips |-> g]
    BY <1>t DEF ClipCreated
  <2>2. /\ DOMAIN g = DOMAIN t.clips \union {id} /\ g \in [DOMAIN g -> ClipRow]
        /\ IsFiniteSet(DOMAIN g)
        /\ g[id] = row /\ \A c \in DOMAIN t.clips \ {id} : g[c] = t.clips[c]
    <3>1. IsFiniteSet(DOMAIN t.clips \union {id})
      BY <1>t, FS_AddElement
    <3> QED
      BY <1>t, <3>1 DEF With
  <2> HIDE DEF g
  <2> QED
    BY <1>1, <1>c, <1>t, <2>1, <2>2
<1>2. ASSUME NEW row \in ClipRow, id \in DOMAIN t.clips, row.track \in DOMAIN t.tracks
      PROVE  Timeline(ClipPatched(t, id, row))
  <2> DEFINE g == [t.clips EXCEPT ![id] = row]
  <2>1. ClipPatched(t, id, row) = [tracks |-> t.tracks, clips |-> g]
    BY <1>t DEF ClipPatched
  <2>2. /\ DOMAIN g = DOMAIN t.clips /\ g \in [DOMAIN g -> ClipRow]
        /\ g[id] = row /\ \A c \in DOMAIN t.clips \ {id} : g[c] = t.clips[c]
    BY <1>2, <1>t
  <2> HIDE DEF g
  <2> QED
    BY <1>2, <1>c, <1>t, <2>1, <2>2
<1>3. Timeline(ClipDeleted(t, id))
  <2> DEFINE g == Drop(t.clips, {id})
  <2>1. ClipDeleted(t, id) = [tracks |-> t.tracks, clips |-> g]
    BY <1>t DEF ClipDeleted
  <2>2. /\ DOMAIN g = DOMAIN t.clips \ {id} /\ g \in [DOMAIN g -> ClipRow]
        /\ IsFiniteSet(DOMAIN g) /\ \A c \in DOMAIN g : g[c] = t.clips[c]
    <3>1. IsFiniteSet(DOMAIN t.clips \ {id})
      BY <1>t, FS_Subset
    <3> QED
      BY <1>t, <3>1 DEF Drop, Restrict
  <2> HIDE DEF g
  <2> QED
    BY <1>c, <1>t, <2>1, <2>2
<1> QED
  BY <1>1, <1>2, <1>3

\* Each update places its clip on a track that is there.
LEMMA ReorderingStaysTyped ==
    ASSUME NEW t, Timeline(t), NEW updates, CanReorder(t, updates),
           \A u \in updates : StartIsNatural(u.set)
    PROVE  Timeline(Reordered(t, updates))
<1>t. /\ t.tracks \in [DOMAIN t.tracks -> TrackRow] /\ IsFiniteSet(DOMAIN t.tracks)
      /\ t.clips \in [DOMAIN t.clips -> ClipRow] /\ IsFiniteSet(DOMAIN t.clips)
      /\ t = [tracks |-> t.tracks, clips |-> t.clips]
      /\ DOMAIN t.tracks \subseteq TrackIds /\ DOMAIN t.clips \subseteq ClipIds
      /\ \A c \in DOMAIN t.clips : t.clips[c].track \in DOMAIN t.tracks
  BY DEF Timeline
<1> DEFINE Set(c) == (CHOOSE u \in updates : u.id = c).set
           g == [c \in DOMAIN t.clips |-> IF c \in {u.id : u \in updates}
                                          THEN Placed(t.clips[c], Set(c)) ELSE t.clips[c]]
<1>1. Reordered(t, updates) = [tracks |-> t.tracks, clips |-> g]
  BY <1>t DEF Reordered
<1>2. ASSUME NEW c \in DOMAIN t.clips
      PROVE  g[c] \in ClipRow /\ g[c].track \in DOMAIN t.tracks
  <2>1. CASE c \notin {u.id : u \in updates}
    BY <1>t, <2>1
  <2>2. CASE c \in {u.id : u \in updates}
    <3>1. PICK u \in updates : Set(c) = u.set
      BY <2>2
    <3>2. g[c] = Placed(t.clips[c], u.set)
      BY <2>2, <3>1
    <3>3. /\ "track" \in DOMAIN u.set => u.set.track \in DOMAIN t.tracks
          /\ "start" \in DOMAIN u.set => u.set.start \in Nat
      BY DEF CanReorder, StartIsNatural
    <3>4. t.clips[c] \in ClipRow /\ t.clips[c].track \in DOMAIN t.tracks
      BY <1>t
    <3> HIDE DEF g, Set
    <3> QED
      BY <1>t, <3>2, <3>3, <3>4 DEF Placed, ClipRow
  <2> QED
    BY <2>1, <2>2
<1>3. DOMAIN g = DOMAIN t.clips /\ g \in [DOMAIN g -> ClipRow]
  BY <1>2
<1> HIDE DEF g
<1> QED
  BY <1>1, <1>2, <1>3, <1>t DEF Timeline
-----------------------------------------------------------------------------
(* The steps.                                                              *)

\* One request moves on; what it asks for still has its type.
LEMMA OneMovesOn ==
    ASSUME TimelineInv, NEW r \in Editing, NEW to \in Stages, Goes(r, to), CallTyped(r)',
           (\E args : call' = [call EXCEPT ![r] = args]) \/ UNCHANGED call
    PROVE  /\ stage' \in [Editing -> Stages]
           /\ DOMAIN call' = Editing /\ \A q \in Editing : CallTyped(q)'
<1>1. /\ stage' \in [Editing -> Stages]
      /\ \A q \in Editing \ {r} : stage'[q] = stage[q]
  BY DEF TimelineInv, Goes
<1>2. DOMAIN call' = Editing /\ \A q \in Editing \ {r} : call'[q] = call[q]
  BY DEF TimelineInv
<1>3. ASSUME NEW q \in Editing \ {r} PROVE CallTyped(q)'
  <2>1. CallTyped(q)
    BY DEF TimelineInv
  <2> QED
    BY <1>1, <1>2, <2>1 DEF CallTyped, At
<1> QED
  BY <1>1, <1>2, <1>3

LEMMA Answered ==
    ASSUME TimelineInv, NEW r \in Editing, AnswerEdit(r)
    PROVE  /\ stage' \in [Editing -> Stages]
           /\ DOMAIN call' = Editing /\ \A q \in Editing : CallTyped(q)'
<1>1. stage'[r] = "idle"
  BY DEF AnswerEdit, Goes, TimelineInv
<1>2. CallTyped(r)'
  BY <1>1 DEF CallTyped, At
<1> QED
  BY <1>2, OneMovesOn DEF AnswerEdit, Stages

LEMMA AskedForKeeps ==
    ASSUME TimelineInv, NEW r \in Editing, NEW args, AskedFor(r, args), args.op \in Ops,
           args.op = "createTrack" => /\ args.kind \in TrackKinds
                                      /\ "index" \in DOMAIN args => args.index \in Nat,
           args.op = "createClip" => args.row \in ClipRow,
           args.op = "updateTrack" => TrackFields(args.set),
           args.op = "updateClip" => args.start \in Nat /\ args.len \in Nat \ {0},
           args.op = "moveClip" => StartIsNatural(args.set),
           args.op = "splitClip" => args.at \in Nat /\ "index" \notin DOMAIN args,
           args.op = "reorderClips" => \A u \in args.updates : StartIsNatural(u.set)
    PROVE  TimelineInv'
<1>1. PICK to \in {"look", "write"} :
         /\ Goes(r, to)
         /\ to = "write" => args.op \notin Looking \/ "index" \in DOMAIN args
  BY DEF AskedFor
<1>2. stage'[r] = to
  BY <1>1 DEF Goes, TimelineInv
<1>3. call' = [call EXCEPT ![r] = args] /\ call'[r] = args /\ args.project \in Projects
  BY DEF AskedFor, TimelineInv
<1>4. CallTyped(r)'
  BY <1>1, <1>2, <1>3 DEF CallTyped, At, Looking
<1>5. /\ stage' \in [Editing -> Stages]
      /\ DOMAIN call' = Editing /\ \A q \in Editing : CallTyped(q)'
  BY <1>1, <1>3, <1>4, OneMovesOn DEF Stages
<1> QED
  BY <1>5 DEF TimelineInv, AskedFor, Timeline

LEMMA RequestKeepsTypes ==
    ASSUME TimelineInv, NEW r \in Editing, RequestTrack(r) \/ RequestClip(r)
    PROVE  TimelineInv'
<1>l. Starts \subseteq Nat /\ Lengths \subseteq Nat \ {0} /\ Indexes \subseteq Nat
  BY LengthsAssumption
<1>t. DOMAIN rows.tracks \subseteq TrackIds
  BY DEF TimelineInv, Timeline
<1>p. ASSUME NEW set \in Places PROVE StartIsNatural(set)
  <2>1. CASE set \in [{"start"} -> Starts]
    <3>1. set["start"] \in Starts
      BY <2>1
    <3> QED
      BY <1>l, <3>1 DEF StartIsNatural
  <2>2. CASE set \in {[track |-> t] : t \in DOMAIN rows.tracks}
    <3>1. DOMAIN set = {"track"}
      BY <2>2
    <3> QED
      BY <3>1 DEF StartIsNatural
  <2>3. CASE set \in {[track |-> t, start |-> s] : t \in DOMAIN rows.tracks, s \in Starts}
    BY <1>l, <2>3 DEF StartIsNatural
  <2> QED
    BY <2>1, <2>2, <2>3 DEF Places
<1>1. ASSUME NEW p \in Projects, NEW k \in TrackKinds,
             AskedFor(r, [op |-> "createTrack", project |-> p, kind |-> k])
      PROVE  TimelineInv'
  BY <1>1, AskedForKeeps DEF Ops
<1>2. ASSUME NEW p \in Projects, NEW k \in TrackKinds, NEW i \in Indexes,
             AskedFor(r, [op |-> "createTrack", project |-> p, kind |-> k, index |-> i])
      PROVE  TimelineInv'
  BY <1>2, <1>l, AskedForKeeps DEF Ops
<1>3. ASSUME NEW p \in Projects, NEW t,
             NEW set \in [{"muted"} -> BOOLEAN] \union [{"index"} -> Indexes],
             AskedFor(r, [op |-> "updateTrack", project |-> p, track |-> t, set |-> set])
      PROVE  TimelineInv'
  <2>1. TrackFields(set)
    <3>1. CASE set \in [{"muted"} -> BOOLEAN]
      <4>1. DOMAIN set = {"muted"} /\ set["muted"] \in BOOLEAN
        BY <3>1
      <4> QED
        BY <4>1 DEF TrackFields
    <3>2. CASE set \in [{"index"} -> Indexes]
      <4>1. DOMAIN set = {"index"} /\ set["index"] \in Indexes
        BY <3>2
      <4> QED
        BY <1>l, <4>1 DEF TrackFields
    <3> QED
      BY <3>1, <3>2
  <2> QED
    BY <1>3, <2>1, AskedForKeeps DEF Ops
<1>4. ASSUME NEW p \in Projects, NEW t,
             AskedFor(r, [op |-> "deleteTrack", project |-> p, track |-> t])
      PROVE  TimelineInv'
  BY <1>4, AskedForKeeps DEF Ops
<1>5. ASSUME NEW p \in Projects, NEW t \in DOMAIN rows.tracks, NEW s \in Starts, NEW l \in Lengths,
             AskedFor(r, [op |-> "createClip", project |-> p,
                          row |-> [track |-> t, start |-> s, len |-> l]])
      PROVE  TimelineInv'
  <2>1. [track |-> t, start |-> s, len |-> l] \in ClipRow
    BY <1>l, <1>t DEF ClipRow
  <2> QED
    BY <1>5, <2>1, AskedForKeeps DEF Ops
<1>6. ASSUME NEW p \in Projects, NEW c, NEW s \in Starts, NEW l \in Lengths,
             AskedFor(r, [op |-> "updateClip", project |-> p, clip |-> c, start |-> s, len |-> l])
      PROVE  TimelineInv'
  BY <1>6, <1>l, AskedForKeeps DEF Ops
<1>7. ASSUME NEW p \in Projects, NEW c, NEW set \in Places,
             AskedFor(r, [op |-> "moveClip", project |-> p, clip |-> c, set |-> set])
      PROVE  TimelineInv'
  BY <1>7, <1>p, AskedForKeeps DEF Ops
<1>8. ASSUME NEW p \in Projects, NEW c, NEW set \in Places,
             AskedFor(r, [op |-> "reorderClips", project |-> p,
                          updates |-> {[id |-> c, set |-> set]}])
      PROVE  TimelineInv'
  BY <1>8, <1>p, AskedForKeeps DEF Ops
<1>9. ASSUME NEW p \in Projects, NEW c, NEW s \in Starts,
             AskedFor(r, [op |-> "splitClip", project |-> p, clip |-> c, at |-> s])
      PROVE  TimelineInv'
  BY <1>9, <1>l, AskedForKeeps DEF Ops
<1>10. ASSUME NEW p \in Projects, NEW c,
             AskedFor(r, [op |-> "deleteClip", project |-> p, clip |-> c])
      PROVE  TimelineInv'
  BY <1>10, AskedForKeeps DEF Ops
<1> QED
  BY <1>1, <1>2, <1>3, <1>4, <1>5, <1>6, <1>7, <1>8, <1>9, <1>10 DEF RequestTrack, RequestClip

LEMMA LookKeepsTypes ==
    ASSUME TimelineInv, NEW r \in Editing, Look(r)
    PROVE  TimelineInv'
<1>c. CallTyped(r) /\ Timeline(rows) /\ DOMAIN call = Editing /\ stage \in [Editing -> Stages]
  BY DEF TimelineInv
<1>1. /\ stage' \in [Editing -> Stages]
      /\ DOMAIN call' = Editing /\ \A q \in Editing : CallTyped(q)'
  <2>1. CASE LookCount(r)
    <3> DEFINE share == TracksWith(rows, TracksOf(rows, call[r].project))
               args == [op |-> "createTrack", project |-> call[r].project,
                        kind |-> call[r].kind, index |-> CountTracks(share, call[r].kind)]
    <3>p. call[r].project \in Projects
      BY <1>c, <2>1 DEF LookCount, At, CallTyped
    <3>1. call' = [call EXCEPT ![r] = args] /\ Goes(r, "write")
      BY <2>1 DEF LookCount
    <3>2. args.kind \in TrackKinds /\ args.index \in Nat
      <4>1. Timeline(share)
        BY <1>c, ProjectsShareIsTyped
      <4> HIDE DEF share
      <4> QED
        BY <1>c, <2>1, <4>1, CountIsNatural DEF LookCount, CallTyped
    <3>3. /\ call'[r] = args /\ stage'[r] = "write" /\ args.op = "createTrack"
          /\ args.project \in Projects
      BY <1>c, <3>1, <3>p DEF Goes
    <3> HIDE DEF args
    <3>4. CallTyped(r)'
      BY <3>2, <3>3 DEF CallTyped, At
    <3> QED
      BY <3>1, <3>4, OneMovesOn DEF Stages
  <2>2. CASE LookTrack(r)
    <3>1. CASE AnswerEdit(r)
      BY <3>1, Answered
    <3>2. CASE Goes(r, "write") /\ UNCHANGED call
      <4>1. stage'[r] = "write"
        BY <1>c, <3>2 DEF Goes
      <4>2. CallTyped(r)'
        BY <1>c, <2>2, <3>2, <4>1 DEF LookTrack, CallTyped, At
      <4> QED
        BY <3>2, <4>2, OneMovesOn DEF Stages
    <3> QED
      BY <2>2, <3>1, <3>2 DEF LookTrack, LookedUp
  <2>3. CASE LookClip(r)
    <3> DEFINE c == call[r].clip
               args == [op |-> "splitClip", project |-> call[r].project, clip |-> c,
                        at |-> call[r].at, seen |-> rows.clips[c]]
    <3>1. CASE AnswerEdit(r)
      BY <3>1, Answered
    <3>2. CASE ~ AnswerEdit(r)
      <4>1. /\ c \in DOMAIN rows.clips
            /\ call[r].at > rows.clips[c].start
            /\ call[r].at < rows.clips[c].start + rows.clips[c].len
            /\ Goes(r, "write") /\ call' = [call EXCEPT ![r] = args]
        BY <2>3, <3>2 DEF LookClip
      <4>2. rows.clips[c] \in ClipRow /\ call[r].at \in Nat /\ call[r].project \in Projects
        BY <1>c, <2>3, <4>1 DEF Timeline, LookClip, CallTyped, At
      <4>3. /\ args.at \in Nat /\ args.seen \in ClipRow /\ args.op = "splitClip"
            /\ args.project \in Projects
            /\ args.seen.start < args.at /\ args.at < args.seen.start + args.seen.len
        BY <4>1, <4>2 DEF ClipRow
      <4>4. call'[r] = args /\ stage'[r] = "write"
        BY <1>c, <4>1 DEF Goes
      <4> HIDE DEF args
      <4>5. CallTyped(r)'
        BY <4>3, <4>4 DEF CallTyped, At
      <4> QED
        BY <4>1, <4>5, OneMovesOn DEF Stages
    <3> QED
      BY <3>1, <3>2
  <2> QED
    BY <2>1, <2>2, <2>3 DEF Look
<1> QED
  BY <1>1 DEF TimelineInv, Look, Timeline

\* A write leaves a timeline, and requests behind it.
LEMMA RowsWrittenKeepTypes ==
    ASSUME TimelineInv, NEW r \in Editing, NEW t, Timeline(t), Writes(r, t), stage[r] = "write",
           UNCHANGED <<durationMs, owned, measured, made, outrun>>
    PROVE  TimelineInv'
<1>1. /\ stage' \in [Editing -> Stages]
      /\ DOMAIN call' = Editing /\ \A q \in Editing : CallTyped(q)'
  <2>1. CASE AnswerEdit(r)
    BY <2>1, Answered
  <2>2. CASE Goes(r, "measure") /\ UNCHANGED call
    <3>1. stage'[r] = "measure"
      BY <2>2 DEF Goes, TimelineInv
    <3>2. CallTyped(r)'
      BY <2>2, <3>1 DEF CallTyped, At, TimelineInv
    <3> QED
      BY <2>2, <3>2, OneMovesOn DEF Stages
  <2> QED
    BY <2>1, <2>2 DEF Writes
<1>2. rows' = t /\ behind' \subseteq Editing /\ displaced' \subseteq Projects
  BY DEF Writes, TimelineInv, MovedBy
<1> QED
  BY <1>1, <1>2 DEF TimelineInv, Timeline

LEMMA RaiseKeepsTypes ==
    ASSUME TimelineInv, NEW r \in Editing, Raises(r),
           UNCHANGED <<durationMs, owned, measured, made, outrun>>
    PROVE  TimelineInv'
  BY Answered DEF Raises, TimelineInv, Timeline

LEMMA IdsAreGiven ==
    /\ NewTrackId \subseteq TrackIds
    /\ NewClipId \subseteq ClipIds
    /\ \A t \in NewTrackId : t \notin DOMAIN rows.tracks
    /\ \A c \in NewClipId : c \notin DOMAIN rows.clips
<1>1. /\ TrackIds \ (DOMAIN rows.tracks \union NamedTracks) \in SUBSET Nat
      /\ ClipIds \ (DOMAIN rows.clips \union NamedClips) \in SUBSET Nat
  BY IdsAssumption
<1> QED
  BY <1>1, LowestOfIds DEF NewTrackId, NewClipId

\* The cut was found strictly inside the clip the split saw, so that both
\* halves have a length, whatever the left one's row has become.
LEMMA HalvesAreClips ==
    ASSUME Timeline(rows), NEW c \in DOMAIN rows.clips, NEW right \in ClipIds,
           right \notin DOMAIN rows.clips, NEW at \in Nat, NEW seen \in ClipRow,
           seen.start < at, at < seen.start + seen.len, seen.track \in DOMAIN rows.tracks
    PROVE  Timeline(SplitRows(c, right, seen, at))
<1> DEFINE left == [rows.clips[c] EXCEPT !.len = at - seen.start]
           row == [track |-> seen.track, start |-> at, len |-> seen.len - (at - seen.start)]
           u == ClipPatched(rows, c, left)
<1>1. /\ rows.clips[c] \in ClipRow /\ rows.clips[c].track \in DOMAIN rows.tracks
      /\ DOMAIN rows.tracks \subseteq TrackIds
  BY DEF Timeline
<1>2. /\ seen.start \in Nat /\ seen.len \in Nat
      /\ at - seen.start \in Nat \ {0} /\ seen.len - (at - seen.start) \in Nat \ {0}
  BY DEF ClipRow
<1>3. left \in ClipRow /\ left.track \in DOMAIN rows.tracks
  BY <1>1, <1>2 DEF ClipRow
<1>4. row \in ClipRow /\ row.track \in DOMAIN rows.tracks
  BY <1>1, <1>2 DEF ClipRow
<1>5. Timeline(u)
  BY <1>3, ClipsStayTyped
<1>6. u.tracks = rows.tracks
  BY DEF ClipPatched, Timeline
<1>7. Timeline(ClipCreated(u, right, row))
  <2> HIDE DEF u, row
  <2> QED
    BY <1>4, <1>5, <1>6, ClipsStayTyped
<1> QED
  BY <1>7 DEF SplitRows

LEMMA WriteKeepsTypes ==
    ASSUME TimelineInv, NEW r \in Editing, Write(r)
    PROVE  TimelineInv'
<1>c. /\ CallTyped(r) /\ Timeline(rows)
      /\ \A i \in DOMAIN rows.clips :
            rows.clips[i] \in ClipRow /\ rows.clips[i].track \in DOMAIN rows.tracks
  BY DEF TimelineInv, Timeline
<1>u. UNCHANGED <<durationMs, owned, measured, made, outrun>> /\ stage[r] = "write"
  BY DEF Write, At, CreateTrack, UpdateTrack, DeleteTrack, CreateClip, UpdateClip, MoveClip,
         SplitClip, DeleteClip, ReorderClips
<1>r. ASSUME Raises(r) PROVE TimelineInv'
  BY <1>r, <1>u, RaiseKeepsTypes
<1>w. ASSUME NEW t, Timeline(t), Writes(r, t) PROVE TimelineInv'
  BY <1>u, <1>w, RowsWrittenKeepTypes
<1> DEFINE c == call[r].clip
<1>1. CASE CreateTrack(r)
  <2> DEFINE attrs == [project |-> call[r].project, kind |-> call[r].kind,
                       index |-> call[r].index, muted |-> FALSE]
  <2>1. attrs \in TrackRow
    BY <1>1, <1>c, <1>u DEF CreateTrack, CallTyped, TrackRow
  <2>2. ASSUME NEW t \in NewTrackId PROVE Timeline(TrackCreated(rows, t, attrs))
    <3>1. t \in TrackIds
      BY IdsAreGiven
    <3> HIDE DEF attrs
    <3> QED
      BY <1>c, <2>1, <3>1, TracksStayTyped
  <2> QED
    BY <1>1, <1>r, <1>w, <2>2 DEF CreateTrack
<1>2. CASE UpdateTrack(r)
  <2>1. TrackFields(call[r].set)
    BY <1>2, <1>c DEF UpdateTrack, CallTyped
  <2>2. Timeline(TrackUpdated(rows, call[r].track, call[r].set))
    BY <1>c, <2>1, TracksStayTyped
  <2> QED
    BY <1>2, <1>r, <1>w, <2>2 DEF UpdateTrack, OrRaises
<1>3. CASE DeleteTrack(r)
  <2>1. Timeline(TrackDeleted(rows, call[r].track))
    BY <1>c, TracksStayTyped
  <2> QED
    BY <1>3, <1>r, <1>w, <2>1 DEF DeleteTrack, OrRaises
<1>4. CASE CreateClip(r)
  <2>1. call[r].row \in ClipRow
    BY <1>4, <1>c DEF CreateClip, CallTyped
  <2>2. ASSUME NEW i \in NewClipId, call[r].row.track \in DOMAIN rows.tracks
        PROVE  Timeline(ClipCreated(rows, i, call[r].row))
    BY <1>c, <2>1, <2>2, IdsAreGiven, ClipsStayTyped
  <2> QED
    BY <1>4, <1>r, <1>w, <2>2 DEF CreateClip
<1>5. CASE UpdateClip(r)
  <2> DEFINE row == [rows.clips[c] EXCEPT !.start = call[r].start, !.len = call[r].len]
  <2>1. call[r].start \in Nat /\ call[r].len \in Nat \ {0}
    BY <1>5, <1>c DEF UpdateClip, CallTyped
  <2>2. ASSUME c \in DOMAIN rows.clips PROVE Timeline(ClipPatched(rows, c, row))
    <3>1. row \in ClipRow /\ row.track \in DOMAIN rows.tracks
      BY <1>c, <2>1, <2>2 DEF ClipRow
    <3> HIDE DEF row
    <3> QED
      BY <1>c, <2>2, <3>1, ClipsStayTyped
  <2> QED
    BY <1>5, <1>r, <1>w, <2>2 DEF UpdateClip, OrRaises, IsClip
<1>6. CASE MoveClip(r)
  <2> DEFINE updates == {[id |-> c, set |-> call[r].set]}
  <2>1. \A u \in updates : StartIsNatural(u.set)
    BY <1>6, <1>c DEF MoveClip, CallTyped
  <2>2. ASSUME CanReorder(rows, updates) PROVE Timeline(Reordered(rows, updates))
    <3> HIDE DEF updates
    <3> QED
      BY <1>c, <2>1, <2>2, ReorderingStaysTyped
  <2> QED
    BY <1>6, <1>r, <1>w, <2>2 DEF MoveClip, OrRaises
<1>7. CASE SplitClip(r)
  <2>1. /\ call[r].at \in Nat /\ call[r].seen \in ClipRow
        /\ call[r].seen.start < call[r].at
        /\ call[r].at < call[r].seen.start + call[r].seen.len
    BY <1>7, <1>c DEF SplitClip, CallTyped, At
  <2>2. ASSUME NEW right \in NewClipId, c \in DOMAIN rows.clips,
               call[r].seen.track \in DOMAIN rows.tracks
        PROVE  Timeline(SplitRows(c, right, call[r].seen, call[r].at))
    BY <1>c, <2>1, <2>2, IdsAreGiven, HalvesAreClips
  <2> QED
    BY <1>7, <1>r, <1>w, <2>2 DEF SplitClip, IsClip
<1>8. CASE DeleteClip(r)
  <2>1. Timeline(ClipDeleted(rows, c))
    BY <1>c, ClipsStayTyped
  <2> QED
    BY <1>8, <1>r, <1>w, <2>1 DEF DeleteClip, OrRaises
<1>9. CASE ReorderClips(r)
  <2>1. \A u \in call[r].updates : StartIsNatural(u.set)
    BY <1>9, <1>c DEF ReorderClips, CallTyped
  <2>2. ASSUME CanReorder(rows, call[r].updates)
        PROVE  Timeline(Reordered(rows, call[r].updates))
    BY <1>c, <2>1, <2>2, ReorderingStaysTyped
  <2> QED
    BY <1>9, <1>r, <1>w, <2>2 DEF ReorderClips, OrRaises
<1> QED
  BY <1>1, <1>2, <1>3, <1>4, <1>5, <1>6, <1>7, <1>8, <1>9 DEF Write

LEMMA RecomputationKeepsTypes ==
    ASSUME TimelineInv, NEW r \in Editing, Measure(r) \/ StoreDuration(r) \/ EditDies(r)
    PROVE  TimelineInv'
<1>1. CASE Measure(r)
  <2>1. stage'[r] = "store"
    BY <1>1 DEF Measure, Goes, TimelineInv
  <2>2. CallTyped(r)'
    BY <1>1, <2>1 DEF Measure, CallTyped, At, TimelineInv
  <2>3. EndOf(rows, call[r].project) \in Nat
    BY ProjectsShareIsTyped DEF TimelineInv
  <2>4. /\ stage' \in [Editing -> Stages]
        /\ DOMAIN call' = Editing /\ \A q \in Editing : CallTyped(q)'
    BY <1>1, <2>2, OneMovesOn DEF Measure, Stages
  <2> QED
    BY <1>1, <2>3, <2>4 DEF Measure, TimelineInv, Timeline
<1>p. stage[r] # "idle" => call[r].project \in Projects
  BY DEF TimelineInv, CallTyped
<1>2. CASE StoreDuration(r)
  <2>1. /\ stage' \in [Editing -> Stages]
        /\ DOMAIN call' = Editing /\ \A q \in Editing : CallTyped(q)'
    BY <1>2, Answered DEF StoreDuration
  <2>2. durationMs' \in [Projects -> Nat] /\ measured' \in [Editing -> Nat]
    BY <1>2, <1>p DEF StoreDuration, TimelineInv
  <2>3. outrun' \subseteq Projects /\ displaced' \subseteq Projects
    BY <1>2, <1>p DEF StoreDuration, TimelineInv
  <2>4. rows' = rows /\ owned' = owned /\ behind' \subseteq Editing
    BY <1>2 DEF StoreDuration, TimelineInv
  <2> QED
    BY <2>1, <2>2, <2>3, <2>4 DEF TimelineInv, Timeline
<1>3. CASE EditDies(r)
  <2>1. /\ stage' \in [Editing -> Stages]
        /\ DOMAIN call' = Editing /\ \A q \in Editing : CallTyped(q)'
    BY <1>3, Answered DEF EditDies
  <2>2. /\ measured' \in [Editing -> Nat] /\ outrun' \subseteq Projects
        /\ UNCHANGED <<rows, durationMs, owned, displaced>> /\ behind' \subseteq Editing
    BY <1>3, <1>p DEF EditDies, TimelineInv
  <2> QED
    BY <2>1, <2>2 DEF TimelineInv, Timeline
<1> QED
  BY <1>1, <1>2, <1>3

LEMMA TimelineStarts ==
    ASSUME TimelineInit
    PROVE  TimelineInv
<1>1. Min(TrackIds) \in TrackIds /\ Min(ClipIds) \in ClipIds
  <2>1. TrackIds \in SUBSET Nat /\ ClipIds \in SUBSET Nat
    BY IdsAssumption
  <2> QED
    BY <2>1, IdsAssumption, LeastNatural
<1>2. PICK p \in Projects, t \in {Min(TrackIds)}, c \in {Min(ClipIds)},
           k \in TrackKinds, len \in Lengths :
        /\ rows = [tracks |-> [i \in {t} |-> [project |-> p, kind |-> k, index |-> 0,
                                             muted |-> FALSE]],
                   clips |-> [i \in {c} |-> [track |-> t, start |-> 0, len |-> len]]]
        /\ durationMs = [q \in Projects |-> IF q = p THEN len ELSE 0]
        /\ owned = Projects
        /\ stage = [r \in Editing |-> "idle"]
        /\ call = [r \in Editing |-> NoCall]
        /\ measured = [r \in Editing |-> 0]
        /\ made = 0
        /\ behind = {} /\ outrun = {} /\ displaced = {}
  BY DEF TimelineInit
<1>3. t \in TrackIds /\ c \in ClipIds /\ len \in Nat \ {0}
  BY <1>1, LengthsAssumption
<1>4. Timeline(rows)
  <2>1. IsFiniteSet({t}) /\ IsFiniteSet({c})
    BY FS_Singleton
  <2>2. [project |-> p, kind |-> k, index |-> 0, muted |-> FALSE] \in TrackRow
    BY DEF TrackRow
  <2>3. [track |-> t, start |-> 0, len |-> len] \in ClipRow
    BY <1>3 DEF ClipRow
  <2>4. /\ rows = [tracks |-> rows.tracks, clips |-> rows.clips]
        /\ rows.tracks = [i \in {t} |-> [project |-> p, kind |-> k, index |-> 0, muted |-> FALSE]]
        /\ rows.clips = [i \in {c} |-> [track |-> t, start |-> 0, len |-> len]]
    BY <1>2
  <2>5. DOMAIN rows.tracks = {t} /\ rows.tracks \in [{t} -> TrackRow]
    BY <2>2, <2>4
  <2>6. DOMAIN rows.clips = {c} /\ rows.clips \in [{c} -> ClipRow] /\ rows.clips[c].track = t
    BY <2>3, <2>4
  <2>7. rows = [tracks |-> rows.tracks, clips |-> rows.clips]
    BY <2>4
  <2> QED
    BY <1>3, <2>1, <2>5, <2>6, <2>7 DEF Timeline
<1>5. \A r \in Editing : CallTyped(r)
  BY <1>2 DEF CallTyped, At
<1> QED
  BY <1>2, <1>3, <1>4, <1>5 DEF TimelineInv, Stages

LEMMA TimelineInvHolds == TimelineSpec => []TimelineInv
<1>1. TimelineInit => TimelineInv
  BY TimelineStarts
<1>2. ASSUME TimelineInv, [TimelineNext]_tlVars PROVE TimelineInv'
  <2>1. CASE UNCHANGED tlVars
    BY <1>2, <2>1 DEF tlVars, TimelineInv, Timeline, CallTyped, At
  <2>2. CASE \E p \in Projects : ProjectDeleted(p)
    BY <1>2, <2>2 DEF ProjectDeleted, TimelineInv, Timeline, CallTyped, At
  <2>3. ASSUME NEW r \in Editing, RequestTrack(r) \/ RequestClip(r) PROVE TimelineInv'
    BY <1>2, <2>3, RequestKeepsTypes
  <2>4. ASSUME NEW r \in Editing, Look(r) PROVE TimelineInv'
    BY <1>2, <2>4, LookKeepsTypes
  <2>5. ASSUME NEW r \in Editing, Write(r) PROVE TimelineInv'
    BY <1>2, <2>5, WriteKeepsTypes
  <2>6. ASSUME NEW r \in Editing, Measure(r) \/ StoreDuration(r) \/ EditDies(r)
        PROVE  TimelineInv'
    BY <1>2, <2>6, RecomputationKeepsTypes
  <2> QED
    BY <1>2, <2>1, <2>2, <2>3, <2>4, <2>5, <2>6 DEF TimelineNext
<1> QED
  BY <1>1, <1>2, PTL DEF TimelineSpec

\* Whatever the requests in flight and wherever the process dies, every clip is
\* on a track that exists, no clip has lost its length - a split's two halves
\* included, which are cut at a place found in a row read earlier - and the
\* cached duration is a number (timeline.service.ts, clips.repo.ts).
THEOREM TimelineTypeCorrect == TimelineSpec => []TimelineTypeOK
<1>1. ASSUME TimelineInv PROVE TimelineTypeOK
  <2>1. \A t \in DOMAIN rows.tracks : rows.tracks[t] \in TrackRow
    BY <1>1 DEF TimelineInv, Timeline
  <2>2. \A c \in DOMAIN rows.clips :
           rows.clips[c] \in ClipRow /\ rows.clips[c].track \in DOMAIN rows.tracks
    BY <1>1 DEF TimelineInv, Timeline
  <2>3. \A r \in Editing : stage[r] # "idle" => call[r].project \in Projects
    BY <1>1 DEF TimelineInv, CallTyped
  <2>4. DOMAIN rows.tracks \subseteq TrackIds /\ DOMAIN rows.clips \subseteq ClipIds
    BY <1>1 DEF TimelineInv, Timeline
  <2> QED
    BY <1>1, <2>1, <2>2, <2>3, <2>4 DEF TimelineInv, TimelineTypeOK
<1> QED
  BY <1>1, TimelineInvHolds, PTL

-----------------------------------------------------------------------------
(* The timeline: its cached duration.                                      *)

\* What a request is about to store is the end of its project's clips, unless
\* another moved it since.
StoresTheEnd ==
    \A r \in Editing : stage[r] = "store" /\ r \notin behind
                          => measured[r] = EndOf(rows, call[r].project)

DurationInv == StoresTheEnd /\ DurationFollowsClips

-----------------------------------------------------------------------------
LEMMA Steps ==
    ASSUME TimelineInv, NEW r \in Editing, NEW to \in Stages, Goes(r, to)
    PROVE  /\ stage'[r] = to
           /\ \A q \in Editing \ {r} : stage'[q] = stage[q]
  BY DEF Goes, TimelineInv

\* Of the requests, only one's own record changes.
OthersKeep(r) == \A q \in Editing \ {r} : call'[q] = call[q]

LEMMA AnswerTouchesOne ==
    ASSUME TimelineInv, NEW r \in Editing, AnswerEdit(r)
    PROVE  OthersKeep(r)
  BY DEF AnswerEdit, TimelineInv, OthersKeep

\* A request that ends, or only reads, before its write.
LEMMA BeforeTheWrite ==
    ASSUME TimelineInv, DurationInv, NEW r \in Editing, NEW to \in {"idle", "look", "write"},
           Goes(r, to), OthersKeep(r), stage[r] \in {"idle", "look", "write"},
           UNCHANGED <<rows, durationMs, measured, behind, outrun, displaced>>
    PROVE  DurationInv'
<1>1. stage'[r] = to /\ \A q \in Editing \ {r} : stage'[q] = stage[q]
  BY Steps DEF Stages
<1>2. StoresTheEnd'
  <2> SUFFICES ASSUME NEW q \in Editing, stage'[q] = "store", q \notin behind'
               PROVE  measured'[q] = EndOf(rows', call'[q].project)
    BY DEF StoresTheEnd, EndOf, TracksOf, TracksWith, LastEnd
  <2>1. q # r /\ stage[q] = "store" /\ call'[q] = call[q]
    BY <1>1 DEF OthersKeep
  <2> QED
    BY <2>1 DEF DurationInv, StoresTheEnd
<1>3. \A q \in Editing : stage[q] \in {"measure", "store"} =>
         stage'[q] \in {"measure", "store"} /\ call'[q].project = call[q].project
  BY <1>1 DEF OthersKeep
<1>4. DurationFollowsClips'
  <2> SUFFICES ASSUME NEW p \in Projects,
                      \A q \in Editing : stage'[q] \in {"measure", "store"} => call'[q].project # p,
                      p \notin outrun' \union displaced'
               PROVE  durationMs'[p] = EndOf(rows', p)
    BY DEF DurationFollowsClips, EndOf, TracksOf, TracksWith, LastEnd
  <2>1. \A q \in Editing : stage[q] \in {"measure", "store"} => call[q].project # p
    BY <1>3
  <2> QED
    BY <2>1 DEF DurationInv, DurationFollowsClips
<1> QED
  BY <1>2, <1>4 DEF DurationInv

\* A write either is followed by the recomputation or moves no end.
LEMMA Written ==
    ASSUME TimelineInv, DurationInv, NEW r \in Editing, NEW t, Writes(r, t), stage[r] = "write",
           call[r].op \in Recomputing \/ MovedBy(t) = {},
           UNCHANGED <<durationMs, measured, outrun>>
    PROVE  DurationInv'
<1>1. PICK to \in {"idle", "measure"} :
         /\ Goes(r, to) /\ OthersKeep(r)
         /\ to = "measure" => call' = call
         /\ call[r].op \in Recomputing => to = "measure"
  BY AnswerTouchesOne DEF Writes, AnswerEdit, OthersKeep
<1>2. stage'[r] = to /\ \A q \in Editing \ {r} : stage'[q] = stage[q]
  BY <1>1, Steps DEF Stages
<1>3. /\ rows' = t
      /\ behind' = behind \union {q \in Editing : stage[q] = "store" /\ call[q].project \in MovedBy(t)}
      /\ displaced' = displaced \union (MovedBy(t) \ {call[r].project})
  BY DEF Writes
<1>4. \A p \in Projects \ MovedBy(t) : EndOf(t, p) = EndOf(rows, p)
  BY DEF MovedBy
<1>5. StoresTheEnd'
  <2> SUFFICES ASSUME NEW q \in Editing, stage'[q] = "store", q \notin behind'
               PROVE  measured'[q] = EndOf(rows', call'[q].project)
    BY DEF StoresTheEnd, EndOf, TracksOf, TracksWith, LastEnd
  <2>1. q # r /\ stage[q] = "store" /\ call'[q] = call[q]
    BY <1>1, <1>2 DEF OthersKeep
  <2>2. call[q].project \in Projects
    BY <2>1 DEF TimelineInv, CallTyped
  <2>3. call[q].project \notin MovedBy(t) /\ q \notin behind
    BY <1>3, <2>1
  <2> QED
    BY <1>3, <1>4, <2>1, <2>2, <2>3 DEF DurationInv, StoresTheEnd
<1>6. DurationFollowsClips'
  <2> SUFFICES ASSUME NEW p \in Projects,
                      \A q \in Editing : stage'[q] \in {"measure", "store"} => call'[q].project # p,
                      p \notin outrun' \union displaced'
               PROVE  durationMs'[p] = EndOf(rows', p)
    BY DEF DurationFollowsClips, EndOf, TracksOf, TracksWith, LastEnd
  <2>1. \A q \in Editing : stage[q] \in {"measure", "store"} => call[q].project # p
    BY <1>1, <1>2 DEF OthersKeep
  <2>2. durationMs[p] = EndOf(rows, p)
    BY <1>3, <2>1 DEF DurationInv, DurationFollowsClips
  <2>3. p \notin MovedBy(t)
    BY <1>1, <1>2, <1>3
  <2> QED
    BY <1>3, <1>4, <2>2, <2>3
<1> QED
  BY <1>5, <1>6 DEF DurationInv

LEMMA Raised ==
    ASSUME TimelineInv, DurationInv, NEW r \in Editing, Raises(r), stage[r] = "write",
           UNCHANGED <<durationMs, measured, outrun>>
    PROVE  DurationInv'
  BY AnswerTouchesOne, BeforeTheWrite DEF Raises, AnswerEdit

-----------------------------------------------------------------------------
\* Where a project ends is a matter of its clips.
LEMMA SameEnd ==
    ASSUME NEW t, NEW u, NEW p, t.clips = u.clips,
           \A c \in DOMAIN t.clips :
              t.clips[c].track \in TracksOf(t, p) <=> u.clips[c].track \in TracksOf(u, p)
    PROVE  EndOf(t, p) = EndOf(u, p)
<1> DEFINE On(v) == {c \in DOMAIN v.clips : v.clips[c].track \in TracksOf(v, p)}
<1>1. On(t) = On(u)
  OBVIOUS
<1>2. TracksWith(t, TracksOf(t, p)).clips = TracksWith(u, TracksOf(u, p)).clips
  BY <1>1 DEF TracksWith
<1> QED
  BY <1>2 DEF EndOf, LastEnd

\* A new track has no clips yet.
LEMMA NewTrackMovesNoEnd ==
    ASSUME Timeline(rows), NEW id, id \notin DOMAIN rows.tracks, NEW attrs
    PROVE  MovedBy(TrackCreated(rows, id, attrs)) = {}
<1> DEFINE t == TrackCreated(rows, id, attrs)
<1>1. t.clips = rows.clips /\ t.tracks = With(rows.tracks, id, attrs)
  BY DEF TrackCreated, Timeline
<1>2. /\ DOMAIN t.tracks = DOMAIN rows.tracks \union {id}
      /\ \A i \in DOMAIN rows.tracks : t.tracks[i] = rows.tracks[i]
  BY <1>1 DEF With
<1> HIDE DEF t
<1>3. ASSUME NEW p \in Projects PROVE EndOf(t, p) = EndOf(rows, p)
  <2>1. \A c \in DOMAIN rows.clips : rows.clips[c].track \in DOMAIN rows.tracks
    BY DEF Timeline
  <2> QED
    BY <1>1, <1>2, <2>1, SameEnd DEF TracksOf
<1> QED
  BY <1>3 DEF MovedBy, t

\* An update leaves a track in its project.
LEMMA UpdateMovesNoEnd ==
    ASSUME Timeline(rows), NEW id \in DOMAIN rows.tracks, NEW set
    PROVE  MovedBy(TrackUpdated(rows, id, set)) = {}
<1> DEFINE t == TrackUpdated(rows, id, set)
<1>1. /\ t.clips = rows.clips /\ DOMAIN t.tracks = DOMAIN rows.tracks
      /\ \A i \in DOMAIN rows.tracks : t.tracks[i].project = rows.tracks[i].project
  BY DEF TrackUpdated, TrackSet, Timeline, TrackRow
<1> HIDE DEF t
<1>2. ASSUME NEW p \in Projects PROVE EndOf(t, p) = EndOf(rows, p)
  <2>1. TracksOf(t, p) = TracksOf(rows, p)
    BY <1>1 DEF TracksOf
  <2> QED
    BY <1>1, <2>1, SameEnd
<1> QED
  BY <1>2 DEF MovedBy, t

LEMMA WriteKeeps ==
    ASSUME TimelineInv, DurationInv, NEW r \in Editing, Write(r)
    PROVE  DurationInv'
<1>t. Timeline(rows)
  BY DEF TimelineInv
<1>u. stage[r] = "write" /\ UNCHANGED <<durationMs, measured, outrun>>
  BY DEF Write, At, CreateTrack, UpdateTrack, DeleteTrack, CreateClip, UpdateClip, MoveClip,
         SplitClip, DeleteClip, ReorderClips
<1>r. ASSUME Raises(r) PROVE DurationInv'
  BY <1>r, <1>u, Raised
<1>w. ASSUME NEW t, Writes(r, t), call[r].op \in Recomputing \/ MovedBy(t) = {}
      PROVE  DurationInv'
  BY <1>u, <1>w, Written
<1>1. CASE CreateTrack(r)
  <2>1. \A i \in NewTrackId : i \notin DOMAIN rows.tracks
    BY IdsAreGiven
  <2> QED
    BY <1>1, <1>r, <1>t, <1>w, <2>1, NewTrackMovesNoEnd DEF CreateTrack
<1>2. CASE UpdateTrack(r)
  <2>1. InProject(r, call[r].track) => call[r].track \in DOMAIN rows.tracks
    BY DEF InProject, TracksOf
  <2> QED
    BY <1>2, <1>r, <1>t, <1>w, <2>1, UpdateMovesNoEnd DEF UpdateTrack, OrRaises
<1>3. CASE DeleteTrack(r)
  BY <1>3, <1>r, <1>w DEF DeleteTrack, OrRaises, At, Recomputing, Ops
<1>4. CASE CreateClip(r)
  BY <1>4, <1>r, <1>w DEF CreateClip, At, Recomputing, Ops
<1>5. CASE UpdateClip(r)
  BY <1>5, <1>r, <1>w DEF UpdateClip, OrRaises, At, Recomputing, Ops
<1>6. CASE MoveClip(r)
  BY <1>6, <1>r, <1>w DEF MoveClip, OrRaises, At, Recomputing, Ops
<1>7. CASE SplitClip(r)
  BY <1>7, <1>r, <1>w DEF SplitClip, At, Recomputing, Ops
<1>8. CASE DeleteClip(r)
  BY <1>8, <1>r, <1>w DEF DeleteClip, OrRaises, At, Recomputing, Ops
<1>9. CASE ReorderClips(r)
  BY <1>9, <1>r, <1>w DEF ReorderClips, OrRaises, At, Recomputing, Ops
<1> QED
  BY <1>1, <1>2, <1>3, <1>4, <1>5, <1>6, <1>7, <1>8, <1>9 DEF Write

-----------------------------------------------------------------------------
LEMMA LookKeeps ==
    ASSUME TimelineInv, DurationInv, NEW r \in Editing, Look(r)
    PROVE  DurationInv'
<1>1. UNCHANGED <<rows, durationMs, measured, behind, outrun, displaced>> /\ stage[r] = "look"
  BY DEF Look, LookCount, LookTrack, LookClip, At
<1>2. PICK to \in {"write", "idle"} : Goes(r, to)
  BY DEF Look, LookCount, LookTrack, LookClip, LookedUp, AnswerEdit
<1>3. UNCHANGED call \/ \E args : call' = [call EXCEPT ![r] = args]
  BY DEF Look, LookCount, LookTrack, LookClip, LookedUp, AnswerEdit
<1>4. OthersKeep(r)
  BY <1>3 DEF OthersKeep, TimelineInv
<1> QED
  BY <1>1, <1>2, <1>4, BeforeTheWrite

LEMMA AskKeeps ==
    ASSUME TimelineInv, DurationInv, NEW r \in Editing, RequestTrack(r) \/ RequestClip(r)
    PROVE  DurationInv'
<1>1. PICK args : AskedFor(r, args)
  BY DEF RequestTrack, RequestClip
<1>2. UNCHANGED <<rows, durationMs, measured, behind, outrun, displaced>> /\ stage[r] = "idle"
  BY <1>1 DEF AskedFor
<1>3. (Goes(r, "look") \/ Goes(r, "write")) /\ OthersKeep(r)
  BY <1>1 DEF AskedFor, OthersKeep, TimelineInv
<1> QED
  BY <1>2, <1>3, BeforeTheWrite

LEMMA MeasureKeeps ==
    ASSUME TimelineInv, DurationInv, NEW r \in Editing, Measure(r)
    PROVE  DurationInv'
<1>1. stage'[r] = "store" /\ \A q \in Editing \ {r} : stage'[q] = stage[q]
  BY Steps DEF Measure, Stages
<1>2. /\ measured'[r] = EndOf(rows, call[r].project)
      /\ \A q \in Editing \ {r} : measured'[q] = measured[q]
      /\ UNCHANGED <<rows, durationMs, call, behind, outrun, displaced>> /\ stage[r] = "measure"
  BY DEF Measure, TimelineInv
<1>3. StoresTheEnd'
  BY <1>1, <1>2 DEF DurationInv, StoresTheEnd
<1>4. DurationFollowsClips'
  BY <1>1, <1>2 DEF DurationInv, DurationFollowsClips
<1> QED
  BY <1>3, <1>4 DEF DurationInv

LEMMA StoreKeeps ==
    ASSUME TimelineInv, DurationInv, NEW r \in Editing, StoreDuration(r)
    PROVE  DurationInv'
<1> DEFINE own == call[r].project
<1>1. stage'[r] = "idle" /\ \A q \in Editing \ {r} : stage'[q] = stage[q]
  BY Steps DEF StoreDuration, AnswerEdit, Stages
<1>2. OthersKeep(r)
  BY AnswerTouchesOne DEF StoreDuration
<1>3. /\ \A q \in Editing \ {r} : measured'[q] = measured[q]
      /\ rows' = rows /\ behind' = behind \ {r} /\ stage[r] = "store"
      /\ durationMs' = [durationMs EXCEPT ![own] = measured[r]]
  BY DEF StoreDuration, TimelineInv
<1>4. /\ r \in behind => own \in outrun'
      /\ \A p \in Projects \ {own} : p \notin outrun' \union displaced'
                                       => p \notin outrun \union displaced
  BY DEF StoreDuration
<1>5. StoresTheEnd'
  BY <1>1, <1>2, <1>3 DEF DurationInv, StoresTheEnd, OthersKeep
<1>6. DurationFollowsClips'
  <2> SUFFICES ASSUME NEW p \in Projects,
                      \A q \in Editing : stage'[q] \in {"measure", "store"} => call'[q].project # p,
                      p \notin outrun' \union displaced'
               PROVE  durationMs'[p] = EndOf(rows, p)
    BY <1>3 DEF DurationFollowsClips
  <2>1. CASE p = own
    BY <1>3, <1>4, <2>1 DEF DurationInv, StoresTheEnd, TimelineInv
  <2>2. CASE p # own
    <3>1. \A q \in Editing : stage[q] \in {"measure", "store"} => call[q].project # p
      BY <1>1, <1>2, <2>2 DEF OthersKeep
    <3>2. durationMs[p] = EndOf(rows, p)
      BY <1>4, <2>2, <3>1 DEF DurationInv, DurationFollowsClips
    <3> QED
      BY <1>3, <2>2, <3>2 DEF TimelineInv
  <2> QED
    BY <2>1, <2>2
<1> QED
  BY <1>5, <1>6 DEF DurationInv

LEMMA DeathKeeps ==
    ASSUME TimelineInv, DurationInv, NEW r \in Editing, EditDies(r)
    PROVE  DurationInv'
<1>1. stage'[r] = "idle" /\ \A q \in Editing \ {r} : stage'[q] = stage[q]
  BY Steps DEF EditDies, AnswerEdit, Stages
<1>2. OthersKeep(r)
  BY AnswerTouchesOne DEF EditDies
<1>3. /\ \A q \in Editing \ {r} : measured'[q] = measured[q]
      /\ UNCHANGED <<rows, durationMs, displaced>> /\ behind' = behind \ {r}
      /\ outrun \subseteq outrun'
      /\ stage[r] \in {"measure", "store"} => call[r].project \in outrun'
  BY DEF EditDies, TimelineInv
<1>4. StoresTheEnd'
  BY <1>1, <1>2, <1>3 DEF DurationInv, StoresTheEnd, OthersKeep
<1>5. DurationFollowsClips'
  BY <1>1, <1>2, <1>3 DEF DurationInv, DurationFollowsClips, OthersKeep
<1> QED
  BY <1>4, <1>5 DEF DurationInv

LEMMA StepsKeepDuration == TimelineInv /\ DurationInv /\ [TimelineNext]_tlVars => DurationInv'
<1> SUFFICES ASSUME TimelineInv, DurationInv, [TimelineNext]_tlVars PROVE DurationInv'
  OBVIOUS
<1>1. CASE (\E p \in Projects : ProjectDeleted(p)) \/ UNCHANGED tlVars
  BY <1>1 DEF ProjectDeleted, tlVars, DurationInv, StoresTheEnd, DurationFollowsClips
<1> QED
  BY <1>1, AskKeeps, LookKeeps, WriteKeeps, MeasureKeeps, StoreKeeps, DeathKeeps
  DEF TimelineNext

\* The first clip ends where its project does, the other projects are empty.
LEMMA FirstEnd == TimelineInit => DurationFollowsClips
<1> SUFFICES ASSUME TimelineInit, NEW q \in Projects PROVE durationMs[q] = EndOf(rows, q)
  BY DEF DurationFollowsClips
<1>1. PICK p \in Projects, t \in {Min(TrackIds)}, c \in {Min(ClipIds)}, k \in TrackKinds,
           len \in Lengths :
        /\ rows = [tracks |-> [i \in {t} |-> [project |-> p, kind |-> k, index |-> 0,
                                             muted |-> FALSE]],
                   clips |-> [i \in {c} |-> [track |-> t, start |-> 0, len |-> len]]]
        /\ durationMs = [x \in Projects |-> IF x = p THEN len ELSE 0]
        /\ owned = Projects
        /\ stage = [r \in Editing |-> "idle"]
        /\ call = [r \in Editing |-> NoCall]
        /\ measured = [r \in Editing |-> 0]
        /\ made = 0
        /\ behind = {} /\ outrun = {} /\ displaced = {}
  BY DEF TimelineInit
<1>2. len \in Nat \ {0}
  BY LengthsAssumption
<1> DEFINE On == {i \in DOMAIN rows.clips : rows.clips[i].track \in TracksOf(rows, q)}
           share == Restrict(rows.clips, On)
           ends == {share[i].start + share[i].len : i \in DOMAIN share}
<1>3. EndOf(rows, q) = Max({0} \union ends)
  BY DEF EndOf, LastEnd, TracksWith
<1>4. TracksOf(rows, q) = IF q = p THEN {t} ELSE {}
  BY <1>1 DEF TracksOf
<1>5. rows.clips = [i \in {c} |-> [track |-> t, start |-> 0, len |-> len]]
  BY <1>1
<1>6. CASE q = p
  <2>1. On = {c}
    BY <1>4, <1>5, <1>6
  <2>2. DOMAIN share = {c} /\ share[c].start + share[c].len = len
    BY <1>2, <1>5, <2>1 DEF Restrict
  <2>3. {0} \union ends = {0, len}
    BY <2>2
  <2>4. Max({0, len}) = len
    BY <1>2 DEF Max
  <2> QED
    BY <1>1, <1>3, <1>6, <2>3, <2>4
<1>7. CASE q # p
  <2>1. On = {}
    BY <1>4, <1>7
  <2>2. {0} \union ends = {0}
    BY <2>1 DEF Restrict
  <2>3. Max({0}) = 0
    BY DEF Max
  <2> QED
    BY <1>1, <1>3, <1>7, <2>2, <2>3
<1> QED
  BY <1>6, <1>7

\* A project's cached duration, which exports are charged by, is the end of its
\* last clip whenever no request is about to store one, unless the last to store
\* was overtaken, a request was cut off, or a request made under another project
\* moved the end (recomputeProjectDuration; clips are written by id alone).
THEOREM DurationIsTheEnd == TimelineSpec => []DurationFollowsClips
<1>1. TimelineInit => DurationInv
  BY FirstEnd DEF TimelineInit, DurationInv, StoresTheEnd
<1>2. DurationInv => DurationFollowsClips
  BY DEF DurationInv
<1> QED
  BY <1>1, <1>2, StepsKeepDuration, TimelineInvHolds, PTL DEF TimelineSpec

-----------------------------------------------------------------------------
(* The rows results are kept in.                                           *)

\* What a run is of is a row that was created, of a kind its task is for.
RowShape(r) ==
    /\ result[r].kind = "none" <=> result[r].at = "none"
    /\ result[r].status = "absent" <=> result[r].at = "none"
    /\ result[r].kind = "none" => result[r] = NoResultRow /\ told[r] = 0
    /\ result[r].at \in {"enqueue", "trailing"} => result[r].kind # "upload"
    /\ result[r].at = "trailing" => result[r].kind \in WrittenAfterwards
    /\ result[r].kind = "upload" => result[r].status \in {"waiting", "working"}

\* Only videos get a poster, and an import asks for one when it is done.
PosterFits(r) ==
    /\ result[r].kind \in {"import", "upload"}
    /\ result[r].kind = "import" => result[r].status = "done"

Called == {"import", "voiceover", "clone", "export", "publish"}

RunShape(j) ==
    /\ run[j].at = "none" => run[j] = NoJobRun
    /\ run[j].at # "none" => /\ run[j].of \in Results /\ result[run[j].of].kind # "none"
                             /\ run[j].task # "none" /\ run[j].status # "none"
    /\ run[j].at \in {"callback", "report"} => run[j].verdict # "none"
    /\ run[j].task = "poster" => PosterFits(run[j].of)
    /\ run[j].task = "make" => result[run[j].of].kind # "upload"
    /\ run[j].task = "make" /\ run[j].at \in {"body", "callback", "report"} =>
          result[run[j].of].kind \in Called
    /\ run[j].task = "publishAsExport" => run[j].at \in {"queued", "settled"}

CallShape(back) ==
    IF back[2] = "poster" THEN PosterFits(back[1]) ELSE result[back[1]].kind \in Called

RowsInv ==
    /\ ResTypeOK
    /\ \A r \in Results : RowShape(r)
    /\ \A j \in Runs : RunShape(j)
    /\ \A back \in lateCalls : CallShape(back)

Outcome(r) ==
    \/ result[r].status \in {"done", "failed"}
    \/ result[r].kind = "upload" /\ result[r].poster
    \/ r \in excused

\* A run that has made its callback leaves the outcome behind; a row whose
\* request is past its enqueue has its outcome or something on its way to it.
CauseInv ==
    /\ \A j \in Runs, r \in Results : run[j].at = "report" /\ run[j].of = r => Outcome(r)
    /\ \A r \in Results :
          \/ result[r].at = "trailing"
          \/ result[r].at = "returned" /\ result[r].status # "waiting"
          => Alive(r) \/ Outcome(r)

LateMakes(r) == {back \in lateCalls : back[1] = r /\ back[2] = "make"}
AtCallback(r) == {j \in Runs : run[j].of = r /\ run[j].task = "make" /\ run[j].at = "callback"}

\* An execution pays for one notice, the one its callback is going to give.
RowNoticeInv ==
    \A r \in Results : result[r].kind \in Announced =>
        told[r] + Cardinality(LateMakes(r)) + Cardinality(AtCallback(r)) <= executions[r]
-----------------------------------------------------------------------------
LEMMA ResultNumbers ==
    /\ NoResult \notin Results /\ NoRun \notin Runs
    /\ 0 \in 0..CallTries
    /\ \A r \in Results : r \in Nat
  BY CallTriesAssumption, ResultBoundsAssumption DEF NoResult, NoRun, Results, Runs

LEMMA RunRecords ==
    ASSUME RowsInv, NEW j \in Runs
    PROVE  /\ NoJobRun \in JobRun
           /\ \A pc \in {"queued", "report", "settled"} :
                 Past(j, pc) \in JobRun /\ Past(j, pc) = [run[j] EXCEPT !.at = pc, !.tries = 0]
           /\ \A r \in Results : PosterRun(r) \in JobRun
           /\ \A s \in {"FAILED", "SUCCEEDED"} : Settled(j, s) \in JobRun
<1>1. run[j] \in JobRun
  BY DEF RowsInv, ResTypeOK
<1>2. NoJobRun \in JobRun
  BY ResultNumbers DEF NoJobRun, JobRun
<1>3. \A pc \in {"queued", "report", "settled"} : Past(j, pc) \in JobRun
  BY <1>1, ResultNumbers DEF Past, JobRun
<1>4. \A r \in Results : PosterRun(r) \in JobRun
  BY <1>2, ResultNumbers DEF PosterRun, JobRun
<1>5. \A s \in {"FAILED", "SUCCEEDED"} : Settled(j, s) \in JobRun
  BY <1>3 DEF Settled, JobRun
<1> QED
  BY <1>2, <1>3, <1>4, <1>5 DEF Past

\* What a run or a call relies on: kinds stay, and a finished import is done.
Grown ==
    \A r \in Results :
        result[r].kind # "none" =>
            /\ result'[r].kind = result[r].kind
            /\ PosterFits(r) => PosterFits(r)'

LEMMA RunStaysShaped ==
    ASSUME RowsInv, Grown, NEW j \in Runs, run'[j] = run[j]
    PROVE  RunShape(j)'
<1>1. RunShape(j)
  BY DEF RowsInv
<1>2. CASE run[j].at = "none"
  BY <1>1, <1>2 DEF RunShape, NoJobRun
<1>3. CASE run[j].at # "none"
  <2>1. run[j].of \in Results /\ result[run[j].of].kind # "none"
    BY <1>1, <1>3 DEF RunShape
  <2> QED
    BY <1>1, <1>3, <2>1 DEF RunShape, Grown
<1> QED
  BY <1>2, <1>3

LEMMA CallsStayShaped ==
    ASSUME RowsInv, Grown, NEW back \in lateCalls
    PROVE  CallShape(back)'
<1>1. CallShape(back) /\ back[1] \in Results
  BY DEF RowsInv, ResTypeOK, ResultCall
<1>2. result[back[1]].kind # "none"
  BY <1>1 DEF CallShape, PosterFits, Called
<1> QED
  BY <1>1, <1>2 DEF CallShape, Grown

\* One row is written, or none; the rows' shapes and what relies on them stay.
LEMMA RowStep ==
    ASSUME RowsInv, NEW r \in Results, NEW row \in ResultRow, NEW f,
           f = [result EXCEPT ![r] = row], result' = f, told' \in [Results -> Nat],
           \A q \in Results \ {r} : told'[q] = told[q],
           RowShape(r)', result[r].kind # "none" => row.kind = result[r].kind,
           PosterFits(r) => PosterFits(r)'
    PROVE  /\ result' \in [Results -> ResultRow] /\ result'[r] = row
           /\ \A q \in Results : RowShape(q)'
           /\ Grown
<1>1. result \in [Results -> ResultRow]
  BY DEF RowsInv, ResTypeOK
<1>2. result' \in [Results -> ResultRow] /\ result'[r] = row
  BY <1>1
<1>3. \A q \in Results \ {r} : result'[q] = result[q]
  BY <1>1
<1>4. \A q \in Results \ {r} : RowShape(q)'
  BY <1>3 DEF RowsInv, RowShape
<1>5. Grown
  BY <1>2, <1>3 DEF Grown, PosterFits
<1> QED
  BY <1>2, <1>4, <1>5

\* What the handler of a callback does, whoever delivers it.
Recording(r, task, verdict, runs) ==
    /\ result' \in [Results -> ResultRow]
    /\ \A q \in Results \ {r} : result'[q] = result[q]
    /\ result'[r].kind = result[r].kind /\ result'[r].at = result[r].at
    /\ \/ /\ task = "poster" /\ result'[r].poster
          /\ result'[r].status = result[r].status
          /\ told' = told /\ run' = runs
       \/ /\ task = "make" /\ result[r].kind \in Called
          /\ result'[r].status \in {"done", "failed"}
          /\ result'[r].status = "failed" => result[r].kind = "publish"
          /\ IF result[r].kind \in Announced THEN told' = [told EXCEPT ![r] = @ + 1]
                                             ELSE told' = told
          /\ \/ run' = runs
             \/ /\ result[r].kind = "import"
                /\ \E i \in Runs : run[i].at = "none" /\ run' = [runs EXCEPT ![i] = PosterRun(r)]

LEMMA Recorded ==
    ASSUME RowsInv, NEW r \in Results, NEW task \in {"make", "poster"},
           NEW verdict \in {"done", "failed"}, CallShape(<<r, task, verdict>>),
           NEW runs, RecordResult(<<r, task, verdict>>, runs)
    PROVE  Recording(r, task, verdict, runs)
<1>t. result \in [Results -> ResultRow] /\ result[r] \in ResultRow
  BY DEF RowsInv, ResTypeOK
<1>1. CASE task = "poster"
  <2>1. ThumbnailMade(r, runs)
    BY <1>1 DEF RecordResult
  <2>2. result' = [result EXCEPT ![r].poster = TRUE] /\ told' = told /\ run' = runs
    BY <2>1 DEF ThumbnailMade
  <2> QED
    BY <1>1, <1>t, <2>2 DEF Recording, ResultRow
<1>2. CASE task = "make"
  <2>1. result[r].kind \in Called
    BY <1>2 DEF CallShape
  <2>c. ASSUME NEW status \in {"done", "failed"}, result' = Concluded(r, status)
        PROVE  /\ result' \in [Results -> ResultRow]
               /\ \A q \in Results \ {r} : result'[q] = result[q]
               /\ result'[r].kind = result[r].kind /\ result'[r].at = result[r].at
               /\ result'[r].status = status
    BY <1>t, <2>c DEF Concluded, ResultRow
  <2>2. CASE result[r].kind = "import"
    <3>1. AssetDone(r, runs)
      BY <1>2, <2>2 DEF RecordResult
    <3> QED
      BY <1>2, <2>1, <2>2, <2>c, <3>1 DEF AssetDone, Recording, Announced, NextRun
  <2>3. CASE result[r].kind = "voiceover"
    <3>1. VoiceoverDone(r, runs)
      BY <1>2, <2>3 DEF RecordResult
    <3> QED
      BY <1>2, <2>1, <2>3, <2>c, <3>1 DEF VoiceoverDone, Recording, Announced
  <2>4. CASE result[r].kind = "clone"
    <3>1. VoiceTrained(r, runs)
      BY <1>2, <2>4 DEF RecordResult
    <3> QED
      BY <1>2, <2>1, <2>4, <2>c, <3>1 DEF VoiceTrained, Recording, Announced
  <2>5. CASE result[r].kind = "export"
    <3>1. ExportDone(r, runs)
      BY <1>2, <2>5 DEF RecordResult
    <3> QED
      BY <1>2, <2>1, <2>5, <2>c, <3>1 DEF ExportDone, Tells, Recording, Announced
  <2>6. CASE result[r].kind = "publish"
    <3>1. PublishDone(r, verdict, runs)
      BY <1>2, <2>6 DEF RecordResult
    <3> QED
      BY <1>2, <2>1, <2>6, <2>c, <3>1 DEF PublishDone, Tells, Recording, Announced
  <2> QED
    BY <2>1, <2>2, <2>3, <2>4, <2>5, <2>6 DEF Called
<1> QED
  BY <1>1, <1>2

LEMMA RecordingKeepsRows ==
    ASSUME RowsInv, NEW r \in Results, NEW task, NEW verdict, NEW runs,
           CallShape(<<r, task, verdict>>), Recording(r, task, verdict, runs)
    PROVE  /\ told' \in [Results -> Nat]
           /\ \A q \in Results : RowShape(q)'
           /\ Grown
           /\ result[r].kind # "none"
<1>1. result[r].kind # "none"
  BY DEF CallShape, PosterFits, Called
<1>2. told' = told \/ told' = [told EXCEPT ![r] = @ + 1]
  BY DEF Recording
<1>3. told' \in [Results -> Nat] /\ \A q \in Results \ {r} : told'[q] = told[q]
  <2>1. told \in [Results -> Nat]
    BY DEF RowsInv, ResTypeOK
  <2> QED
    BY <1>2, <2>1
<1>4. RowShape(r)'
  <2>1. RowShape(r)
    BY DEF RowsInv
  <2>2. CASE task = "poster"
    BY <1>1, <2>1, <2>2 DEF RowShape, Recording
  <2>3. CASE task = "make"
    BY <1>1, <2>1, <2>3 DEF RowShape, Recording, Called
  <2> QED
    BY <2>2, <2>3 DEF Recording
<1>5. \A q \in Results \ {r} : RowShape(q)'
  BY <1>3 DEF Recording, RowsInv, RowShape
<1>6. Grown
  <2>1. PosterFits(r) => PosterFits(r)'
    BY DEF Recording, PosterFits
  <2>2. \A q \in Results \ {r} : PosterFits(q) => PosterFits(q)'
    BY DEF Recording, PosterFits
  <2> QED
    BY <2>1, <2>2 DEF Recording, Grown
<1> QED
  BY <1>1, <1>3, <1>4, <1>5, <1>6

\* The parts of RowsInv put together after a step.
LEMMA RowsKept ==
    ASSUME RowsInv, Grown, ResTypeOK', \A q \in Results : RowShape(q)',
           \A j \in Runs : run'[j] = run[j] \/ RunShape(j)',
           \A back \in lateCalls' : back \in lateCalls \/ CallShape(back)'
    PROVE  RowsInv'
  BY RunStaysShaped, CallsStayShaped DEF RowsInv

LEMMA RowsUntouched ==
    ASSUME RowsInv, UNCHANGED <<result, told>>
    PROVE  /\ Grown
           /\ \A q \in Results : RowShape(q)'
  BY DEF RowsInv, Grown, PosterFits, RowShape

\* A job moves on: its record, and no other's.
LEMMA RunStep ==
    ASSUME RowsInv, NEW j \in Runs, NEW job \in JobRun, run' = [run EXCEPT ![j] = job]
    PROVE  /\ run' \in [Runs -> JobRun] /\ run'[j] = job
           /\ \A i \in Runs \ {j} : run'[i] = run[i]
  BY DEF RowsInv, ResTypeOK

LEMMA CreatedKeepsRows ==
    ASSUME RowsInv, NEW r \in Results, NEW kind \in ResultKinds,
           NEW status \in {"waiting", "working"}, NEW at \in {"enqueue", "returned"},
           kind = "upload" <=> at = "returned", Created(r, kind, status, at)
    PROVE  RowsInv'
<1> DEFINE row == [NoResultRow EXCEPT !.kind = kind, !.status = status, !.at = at]
<1>1. result[r].at = "none" /\ result[r].kind = "none" /\ result[r] = NoResultRow /\ told[r] = 0
  BY DEF Created, NextResult, RowsInv, RowShape
<1>2. row \in ResultRow /\ row.kind = kind /\ row.status = status /\ row.at = at
  BY ResultNumbers DEF NoResultRow, ResultRow
<1>3. /\ result' = [result EXCEPT ![r] = row]
      /\ UNCHANGED <<run, lateCalls, told, excused, executions, mishaps>>
  BY DEF Created
<1> HIDE DEF row
<1>4. result' \in [Results -> ResultRow] /\ result'[r] = row
  BY <1>2, <1>3 DEF RowsInv, ResTypeOK
<1>5. RowShape(r)'
  BY <1>2, <1>4 DEF RowShape, WrittenAfterwards, ResultKinds
<1>6. ~ PosterFits(r)
  BY <1>1 DEF PosterFits
<1>7. (\A q \in Results : RowShape(q)') /\ Grown
  BY <1>1, <1>2, <1>3, <1>5, <1>6, RowStep DEF RowsInv, ResTypeOK
<1>8. ResTypeOK'
  BY <1>3, <1>4 DEF RowsInv, ResTypeOK
<1> QED
  BY <1>3, <1>7, <1>8, RowsKept

LEMMA CreationsKeepRows ==
    ASSUME RowsInv, NEW r \in Results, CreateResult(r)
    PROVE  RowsInv'
  BY CreatedKeepsRows
  DEF CreateResult, RequestTranscription, RequestVoiceover, RequestExport, RequestPublish,
      ImportFromUrl, CloneVoice, InitUpload, ResultKinds

LEMMA EnqueuesKeepRows ==
    ASSUME RowsInv, NEW r \in Results, NEW j \in Runs,
           EnqueueReuses(r, j) \/ EnqueueCreates(r, j)
    PROVE  RowsInv'
<1>t. /\ result \in [Results -> ResultRow] /\ result[r] \in ResultRow /\ RowShape(r)
      /\ run \in [Runs -> JobRun] /\ lateCalls \subseteq ResultCall
      /\ told \in [Results -> Nat] /\ executions \in [Results -> Nat]
      /\ excused \subseteq Results /\ mishaps \in 0..MaxMishaps
  BY DEF RowsInv, ResTypeOK
<1>1. result[r].at = "enqueue" /\ UNCHANGED <<lateCalls, told, executions>>
  BY DEF EnqueueReuses, EnqueueCreates
<1>2. result[r].kind \notin {"none", "upload"} /\ result[r].status # "absent"
  BY <1>t, <1>1 DEF RowShape
<1>3. CASE EnqueueReuses(r, j)
  <2>1. result' = [result EXCEPT ![r].at = "trailing"] /\ result[r].kind \in WrittenAfterwards
        /\ run' = run /\ mishaps' = mishaps /\ excused' = excused \union {r}
    BY <1>3 DEF EnqueueReuses, KeyedByContent, WrittenAfterwards, Excuse
  <2>2. [result[r] EXCEPT !.at = "trailing"] \in ResultRow
    BY <1>t DEF ResultRow
  <2>3. /\ result' \in [Results -> ResultRow]
        /\ result'[r] = [result[r] EXCEPT !.at = "trailing"]
        /\ \A q \in Results \ {r} : result'[q] = result[q]
    BY <1>t, <2>1, <2>2
  <2>4. RowShape(r)'
    BY <1>t, <1>1, <1>2, <2>1, <2>3 DEF RowShape, ResultRow
  <2>5. PosterFits(r) => PosterFits(r)'
    BY <1>t, <2>3 DEF PosterFits, ResultRow
  <2>6. (\A q \in Results : RowShape(q)') /\ Grown
    <3>1. \A q \in Results \ {r} : RowShape(q)'
      BY <1>1, <2>3 DEF RowsInv, RowShape
    <3> QED
      BY <1>t, <2>3, <2>4, <2>5, <3>1 DEF Grown, PosterFits, ResultRow
  <2>7. ResTypeOK'
    BY <1>t, <1>1, <2>1, <2>3 DEF ResTypeOK
  <2> QED
    BY <1>1, <2>1, <2>6, <2>7, RowsKept
<1>4. CASE EnqueueCreates(r, j)
  <2>1. PICK pc \in {"queued", "settled"}, status \in {"QUEUED", "FAILED"},
             at \in {"trailing", "returned", "threw"} :
           /\ run' = [run EXCEPT ![j] = [[NoJobRun EXCEPT !.of = r, !.task = "make"]
                                             EXCEPT !.at = pc, !.status = status]]
           /\ result' = [result EXCEPT ![r].run = KeptRun(result[r].kind, j), ![r].at = at]
           /\ at = "trailing" => result[r].kind \in WrittenAfterwards
           /\ excused' \in {excused, excused \union {r}}
           /\ mishaps' \in 0..MaxMishaps
    <3>1. MaxMishaps \in Nat
      BY MishapsAssumption
    <3> QED
      BY <1>4, <1>t, <3>1 DEF EnqueueCreates, AfterEnqueue, Excuse, Mishap
  <2>2. KeptRun(result[r].kind, j) \in Runs \union {NoRun}
    BY DEF KeptRun
  <2>3. /\ result' \in [Results -> ResultRow]
        /\ result'[r].kind = result[r].kind /\ result'[r].status = result[r].status
        /\ result'[r].at = at
        /\ \A q \in Results \ {r} : result'[q] = result[q]
    BY <1>t, <2>1, <2>2 DEF ResultRow
  <2>4. RowShape(r)'
    BY <1>t, <1>1, <1>2, <2>1, <2>3 DEF RowShape
  <2>5. PosterFits(r) => PosterFits(r)'
    BY <2>3 DEF PosterFits
  <2>6. (\A q \in Results : RowShape(q)') /\ Grown
    <3>1. \A q \in Results \ {r} : RowShape(q)'
      BY <1>1, <2>3 DEF RowsInv, RowShape
    <3> QED
      BY <2>3, <2>4, <2>5, <3>1 DEF Grown, PosterFits
  <2>7. /\ run' \in [Runs -> JobRun]
        /\ run'[j].at = pc /\ run'[j].of = r /\ run'[j].task = "make" /\ run'[j].status = status
        /\ \A i \in Runs \ {j} : run'[i] = run[i]
    <3>1. [[NoJobRun EXCEPT !.of = r, !.task = "make"] EXCEPT !.at = pc, !.status = status] \in JobRun
      BY ResultNumbers DEF NoJobRun, JobRun
    <3> QED
      BY <1>t, <2>1, <3>1 DEF NoJobRun
  <2>8. RunShape(j)'
    BY <1>2, <2>3, <2>7 DEF RunShape
  <2>9. ResTypeOK'
    BY <1>t, <1>1, <2>1, <2>3, <2>7 DEF ResTypeOK
  <2> QED
    BY <1>1, <2>6, <2>7, <2>8, <2>9, RowsKept
<1> QED
  BY <1>3, <1>4

LEMMA WritesKeepRows ==
    ASSUME RowsInv, NEW r \in Results, WriteAfterwards(r)
    PROVE  RowsInv'
<1>t. /\ result \in [Results -> ResultRow] /\ result[r] \in ResultRow /\ RowShape(r)
      /\ told \in [Results -> Nat] /\ excused \subseteq Results
  BY DEF RowsInv, ResTypeOK
<1>1. /\ result[r].at = "trailing" /\ result[r].kind \in WrittenAfterwards
      /\ result' = [result EXCEPT ![r].status = "working", ![r].at = "returned"]
      /\ excused' \in {excused, excused \union {r}}
      /\ UNCHANGED <<run, lateCalls, told, executions, mishaps>>
  BY <1>t DEF WriteAfterwards, Excuse, RowShape
<1> DEFINE row == [result[r] EXCEPT !.status = "working", !.at = "returned"]
<1>2. /\ row \in ResultRow /\ row.kind = result[r].kind /\ row.status = "working"
      /\ row.at = "returned"
  BY <1>t DEF ResultRow
<1>3. result' = [result EXCEPT ![r] = row]
  BY <1>1
<1> HIDE DEF row
<1>4. result' \in [Results -> ResultRow] /\ result'[r] = row
  BY <1>2, <1>3, <1>t
<1>5. RowShape(r)'
  BY <1>t, <1>1, <1>2, <1>4 DEF RowShape, WrittenAfterwards
<1>6. ~ PosterFits(r)
  BY <1>1 DEF PosterFits, WrittenAfterwards
<1>7. (\A q \in Results : RowShape(q)') /\ Grown
  BY <1>t, <1>1, <1>2, <1>3, <1>5, <1>6, RowStep
<1>8. ResTypeOK'
  BY <1>t, <1>1, <1>4 DEF RowsInv, ResTypeOK
<1> QED
  BY <1>1, <1>7, <1>8, RowsKept

LEMMA CompletionsKeepRows ==
    ASSUME RowsInv, NEW r \in Results, NEW j \in Runs, CompleteUpload(r, j)
    PROVE  RowsInv'
<1>t. /\ result \in [Results -> ResultRow] /\ result[r] \in ResultRow /\ RowShape(r)
      /\ told \in [Results -> Nat] /\ excused \subseteq Results
      /\ mishaps \in 0..MaxMishaps /\ MaxMishaps \in Nat
  BY MishapsAssumption DEF RowsInv, ResTypeOK
<1>1. /\ result[r].kind = "upload"
      /\ result' = [result EXCEPT ![r].status = "working"]
      /\ excused' \in {excused, excused \union {r}}
      /\ mishaps' \in 0..MaxMishaps
      /\ UNCHANGED <<lateCalls, told, executions>>
  BY <1>t DEF CompleteUpload, Excuse, Mishap
<1>2. PICK job \in JobRun : /\ run' = [run EXCEPT ![j] = job]
                            /\ job.of = r /\ job.task = "poster" /\ job.at \in {"queued", "settled"}
                            /\ job.status # "none"
  <2>1. PosterRun(r) \in JobRun /\ [PosterRun(r) EXCEPT !.at = "settled", !.status = "FAILED"] \in JobRun
    <3>1. PosterRun(r) \in JobRun
      BY RunRecords
    <3> QED
      BY <3>1 DEF JobRun
  <2> QED
    BY <2>1 DEF CompleteUpload, PosterRun, NoJobRun
<1> DEFINE row == [result[r] EXCEPT !.status = "working"]
<1>3. /\ row \in ResultRow /\ row.kind = result[r].kind /\ row.status = "working"
      /\ row.at = result[r].at
  BY <1>t DEF ResultRow
<1>4. result' = [result EXCEPT ![r] = row]
  BY <1>1
<1> HIDE DEF row
<1>5. result' \in [Results -> ResultRow] /\ result'[r] = row
  BY <1>3, <1>4, <1>t
<1>6. RowShape(r)' /\ PosterFits(r)'
  BY <1>t, <1>1, <1>3, <1>5 DEF RowShape, PosterFits, NoResultRow
<1>7. (\A q \in Results : RowShape(q)') /\ Grown
  BY <1>t, <1>1, <1>3, <1>4, <1>6, RowStep
<1>8. run' \in [Runs -> JobRun] /\ run'[j] = job /\ \A i \in Runs \ {j} : run'[i] = run[i]
  BY <1>2, RunStep
<1>9. RunShape(j)'
  BY <1>1, <1>2, <1>3, <1>5, <1>6, <1>8 DEF RunShape
<1>10. ResTypeOK'
  BY <1>t, <1>1, <1>5, <1>8 DEF RowsInv, ResTypeOK
<1> QED
  BY <1>1, <1>7, <1>8, <1>9, <1>10, RowsKept

LEMMA RetriesKeepRows ==
    ASSUME RowsInv, NEW i \in Runs, NEW j \in Runs, RetryRun(i, j)
    PROVE  RowsInv'
<1>t. run[i] \in JobRun /\ run \in [Runs -> JobRun] /\ RunShape(i) /\ RunShape(j)
  BY DEF RowsInv, ResTypeOK
<1>1. /\ run[i].status # "none" /\ run[j].at = "none" /\ i # j
      /\ UNCHANGED <<result, lateCalls, told, excused, executions, mishaps>>
      /\ run' = RetryQueued(i, j)
  BY <1>t DEF RetryRun, NextRun, RunShape, NoJobRun
<1>2. /\ run[i].at # "none" /\ run[i].task # "none"
      /\ run[i].of \in Results /\ result[run[i].of].kind # "none"
  BY <1>t, <1>1 DEF RunShape, NoJobRun
<1> DEFINE again == [NoJobRun EXCEPT !.of = run[i].of, !.task = RetriedTask(i),
                                     !.at = "queued", !.status = "QUEUED"]
<1>3. again \in JobRun
  BY <1>t, <1>2, ResultNumbers DEF NoJobRun, JobRun, RetriedTask
<1>4. /\ run' \in [Runs -> JobRun]
      /\ run'[j] = again
      /\ run'[i] = [run[i] EXCEPT !.status = "RETRYING"]
      /\ \A k \in Runs \ {i, j} : run'[k] = run[k]
  <2>1. [run[i] EXCEPT !.status = "RETRYING"] \in JobRun
    BY <1>t DEF JobRun
  <2> QED
    BY <1>t, <1>1, <1>3, <2>1 DEF RetryQueued
<1>5. RunShape(i)'
  BY <1>t, <1>1, <1>2, <1>4 DEF RunShape, JobRun, PosterFits
<1>6. RunShape(j)'
  <2>1. /\ again.of = run[i].of /\ again.at = "queued" /\ again.status = "QUEUED"
        /\ again.task = IF run[i].task = "make" /\ result[run[i].of].kind = "publish"
                        THEN "publishAsExport" ELSE run[i].task
    BY DEF NoJobRun, RetriedTask
  <2> HIDE DEF again
  <2> QED
    BY <1>t, <1>1, <1>2, <1>4, <2>1 DEF RunShape, PosterFits
<1>7. ResTypeOK'
  BY <1>1, <1>4 DEF RowsInv, ResTypeOK
<1> QED
  BY <1>1, <1>4, <1>5, <1>6, <1>7, RowsUntouched, RowsKept

\* A job that moves while the rows stay.
LEMMA RunMoveKeepsRows ==
    ASSUME RowsInv, NEW j \in Runs, NEW job \in JobRun, run' = [run EXCEPT ![j] = job],
           run[j].at # "none", job.at # "none", job.status # "none",
           job.of = run[j].of, job.task = run[j].task,
           job.at \in {"body", "callback", "report"} =>
               job.task # "publishAsExport" /\ (job.task = "make" => result[job.of].kind \in Called),
           job.at \in {"callback", "report"} => job.verdict # "none",
           UNCHANGED <<result, told>>, executions' \in [Results -> Nat],
           lateCalls' \subseteq ResultCall, excused' \subseteq Results, mishaps' \in 0..MaxMishaps,
           \A back \in lateCalls' : back \in lateCalls \/ CallShape(back)
    PROVE  RowsInv'
<1>1. run' \in [Runs -> JobRun] /\ run'[j] = job /\ \A i \in Runs \ {j} : run'[i] = run[i]
  BY RunStep
<1>2. RunShape(j)
  BY DEF RowsInv
<1>3. job.at \in {"queued", "body", "callback", "report", "settled"}
  BY DEF JobRun
<1>4. RunShape(j)'
  BY <1>1, <1>2, <1>3 DEF RunShape, PosterFits
<1>5. \A back \in lateCalls' : back \in lateCalls \/ CallShape(back)'
  BY DEF CallShape, PosterFits
<1>6. ResTypeOK'
  BY <1>1 DEF RowsInv, ResTypeOK
<1> QED
  BY <1>1, <1>4, <1>5, <1>6, RowsUntouched, RowsKept

\* What is true of a job at work.
LEMMA AtWork ==
    ASSUME RowsInv, NEW j \in Runs, run[j].at # "none"
    PROVE  /\ run[j] \in JobRun /\ run[j].of \in Results
           /\ run[j].task \in {"make", "poster", "publishAsExport"}
           /\ run[j].status # "none" /\ result[run[j].of].kind # "none"
           /\ run[j].at \in {"body", "callback", "report"} =>
                 /\ run[j].task # "publishAsExport"
                 /\ run[j].task = "make" => result[run[j].of].kind \in Called
           /\ run[j].at = "callback" =>
                 /\ Call(j) \in ResultCall /\ CallShape(Call(j))
                 /\ run[j].task \in {"make", "poster"} /\ run[j].verdict \in {"done", "failed"}
<1>1. run[j] \in JobRun /\ RunShape(j)
  BY DEF RowsInv, ResTypeOK
<1>2. /\ run[j].of \in Results /\ result[run[j].of].kind # "none" /\ run[j].task # "none"
      /\ run[j].task \in {"make", "poster", "publishAsExport"} /\ run[j].status # "none"
  BY <1>1 DEF RunShape, JobRun
<1>3. run[j].at \in {"body", "callback", "report"} =>
         /\ run[j].task # "publishAsExport"
         /\ run[j].task = "make" => result[run[j].of].kind \in Called
  BY <1>1 DEF RunShape
<1>4. ASSUME run[j].at = "callback"
      PROVE  /\ Call(j) \in ResultCall /\ CallShape(Call(j))
             /\ run[j].task \in {"make", "poster"} /\ run[j].verdict \in {"done", "failed"}
  <2>1. run[j].task \in {"make", "poster"} /\ run[j].verdict \in {"done", "failed"}
    BY <1>1, <1>2, <1>3, <1>4 DEF RunShape, JobRun
  <2>2. run[j].task = "poster" => PosterFits(run[j].of)
    BY <1>1 DEF RunShape
  <2> QED
    BY <1>2, <1>3, <1>4, <2>1, <2>2 DEF Call, CallShape, ResultCall
<1> QED
  BY <1>1, <1>2, <1>3, <1>4

LEMMA ToCallbackTyped ==
    ASSUME RowsInv, NEW j \in Runs, run[j].of \in Results, NEW verdict, ToCallback(j, verdict)
    PROVE  executions' \in [Results -> Nat]
  BY DEF ToCallback, RowsInv, ResTypeOK

LEMMA WorkersKeepRows ==
    ASSUME RowsInv, NEW j \in Runs,
           \/ StartRun(j) \/ Makes(j) \/ BodyRaises(j)
           \/ CallTimesOut(j) \/ ReportsOutcome(j) \/ WorkerDies(j)
    PROVE  RowsInv'
<1>t. /\ run \in [Runs -> JobRun] /\ run[j] \in JobRun /\ lateCalls \subseteq ResultCall
      /\ executions \in [Results -> Nat]
      /\ excused \subseteq Results /\ mishaps \in 0..MaxMishaps /\ MaxMishaps \in Nat
      /\ \A back \in lateCalls : CallShape(back)
  BY MishapsAssumption DEF RowsInv, ResTypeOK
<1>n. run[j].at # "none"
  BY DEF StartRun, Makes, BodyRaises, CallTimesOut, ReportsOutcome, WorkerDies
<1>w. /\ run[j].of \in Results /\ run[j].task \in {"make", "poster", "publishAsExport"}
      /\ run[j].status # "none" /\ result[run[j].of].kind \in ResultKinds
  BY <1>n, AtWork DEF RowsInv, ResTypeOK, ResultRow
<1>e. excused \union {run[j].of} \subseteq Results
  BY <1>t, <1>w
<1>p. \A pc \in {"queued", "report", "settled"} :
         /\ Past(j, pc) \in JobRun /\ Past(j, pc).at = pc /\ Past(j, pc).of = run[j].of
         /\ Past(j, pc).task = run[j].task /\ Past(j, pc).status = run[j].status
         /\ Past(j, pc).verdict = run[j].verdict
  <2>1. \A pc \in {"queued", "report", "settled"} : Past(j, pc) \in JobRun
    BY RunRecords
  <2>2. ASSUME NEW pc
        PROVE  /\ Past(j, pc).at = pc /\ Past(j, pc).of = run[j].of
               /\ Past(j, pc).task = run[j].task /\ Past(j, pc).status = run[j].status
               /\ Past(j, pc).verdict = run[j].verdict
    BY <1>t DEF Past, JobRun
  <2> QED
    BY <2>1, <2>2
<1>s. \A s \in {"FAILED", "SUCCEEDED"} :
         /\ Settled(j, s) \in JobRun /\ Settled(j, s).at = "settled"
         /\ Settled(j, s).of = run[j].of /\ Settled(j, s).task = run[j].task
         /\ Settled(j, s).status = s
  <2>1. \A s \in {"FAILED", "SUCCEEDED"} : Settled(j, s) \in JobRun
    BY RunRecords
  <2>2. ASSUME NEW s
        PROVE  /\ Settled(j, s).at = "settled" /\ Settled(j, s).of = run[j].of
               /\ Settled(j, s).task = run[j].task /\ Settled(j, s).status = s
    BY <1>p DEF Settled, JobRun
  <2> QED
    BY <2>1, <2>2
<1>1. CASE StartRun(j)
  <2>1. CASE Spend(j, "settled") /\ Excuse(run[j].of)
    BY <1>1, <2>1, <1>t, <1>n, <1>w, <1>e, <1>p, RunMoveKeepsRows DEF StartRun, Spend, Excuse
  <2>2. CASE /\ run' = [run EXCEPT ![j].at = "body", ![j].status = "RUNNING"]
             /\ UNCHANGED excused
             /\ run[j].task # "publishAsExport"
             /\ run[j].task = "make" => result[run[j].of].kind \notin Refusing
    <3> DEFINE job == [run[j] EXCEPT !.at = "body", !.status = "RUNNING"]
    <3>1. /\ job \in JobRun /\ job.at = "body" /\ job.status = "RUNNING"
          /\ job.of = run[j].of /\ job.task = run[j].task
      BY <1>t DEF JobRun
    <3>2. run' = [run EXCEPT ![j] = job]
      BY <2>2
    <3>3. job.task = "make" => result[job.of].kind \in Called
      <4>1. run[j].task = "make" => result[run[j].of].kind # "upload"
        BY DEF RowsInv, RunShape
      <4> QED
        BY <1>w, <2>2, <3>1, <4>1 DEF Called, Refusing, ResultKinds
    <3> HIDE DEF job
    <3> QED
      BY <1>1, <2>2, <3>1, <3>2, <3>3, <1>t, <1>n, <1>w, RunMoveKeepsRows DEF StartRun
  <2> QED
    BY <1>1, <2>1, <2>2 DEF StartRun
<1>2. ASSUME NEW verdict \in {"done", "failed"}, ToCallback(j, verdict), run[j].at = "body",
             UNCHANGED <<result, lateCalls, told, excused, mishaps>>
      PROVE  RowsInv'
  <2> DEFINE job == [run[j] EXCEPT !.at = "callback", !.tries = 0, !.verdict = verdict]
  <2>1. /\ job \in JobRun /\ job.at = "callback" /\ job.status = run[j].status
        /\ job.of = run[j].of /\ job.task = run[j].task /\ job.verdict = verdict
    BY <1>t, ResultNumbers DEF JobRun
  <2>2. run' = [run EXCEPT ![j] = job]
    BY <1>2 DEF ToCallback
  <2>3. executions' \in [Results -> Nat]
    BY <1>2, <1>w, ToCallbackTyped
  <2> HIDE DEF job
  <2> QED
    BY <1>2, <2>1, <2>2, <2>3, <1>t, <1>n, <1>w, AtWork, RunMoveKeepsRows
<1>3. CASE Makes(j)
  BY <1>2, <1>3 DEF Makes
<1>4. CASE BodyRaises(j)
  <2>1. CASE ToCallback(j, "failed") /\ UNCHANGED excused
    BY <1>2, <1>4, <2>1 DEF BodyRaises
  <2>2. CASE FailRun(j) /\ Excuse(run[j].of) /\ UNCHANGED executions
    BY <1>4, <2>2, <1>t, <1>n, <1>w, <1>e, <1>s, RunMoveKeepsRows DEF BodyRaises, FailRun, Excuse
  <2> QED
    BY <1>4, <2>1, <2>2 DEF BodyRaises
<1>5. CASE CallTimesOut(j)
  <2>1. /\ run[j].at = "callback" /\ mishaps' \in 0..MaxMishaps
        /\ lateCalls' \in {lateCalls, lateCalls \union {Call(j)}}
        /\ UNCHANGED <<result, told, executions>>
    BY <1>5, <1>t DEF CallTimesOut, Mishap
  <2>2. /\ lateCalls' \subseteq ResultCall
        /\ \A back \in lateCalls' : back \in lateCalls \/ CallShape(back)
        /\ run[j].task # "publishAsExport"
        /\ run[j].task = "make" => result[run[j].of].kind \in Called
        /\ run[j].verdict # "none"
    BY <1>t, <1>n, <2>1, AtWork
  <2>3. CASE /\ run[j].tries + 1 < Attempts(run[j].task, result[run[j].of].kind)
             /\ run' = [run EXCEPT ![j].tries = @ + 1] /\ UNCHANGED excused
    <3> DEFINE job == [run[j] EXCEPT !.tries = @ + 1]
    <3>1. run[j].tries + 1 \in 0..CallTries
      <4>1. run[j].tries \in 0..CallTries
        BY <1>t DEF JobRun
      <4>2. Attempts(run[j].task, result[run[j].of].kind) \in {CallTries, 1}
        BY DEF Attempts
      <4> QED
        BY <2>3, <4>1, <4>2, CallTriesAssumption
    <3>2. /\ job \in JobRun /\ job.at = run[j].at /\ job.status = run[j].status
          /\ job.of = run[j].of /\ job.task = run[j].task /\ job.verdict = run[j].verdict
      BY <1>t, <3>1 DEF JobRun
    <3>3. run' = [run EXCEPT ![j] = job]
      BY <2>3
    <3> HIDE DEF job
    <3> QED
      BY <1>t, <1>n, <1>w, <2>1, <2>2, <2>3, <3>2, <3>3, RunMoveKeepsRows
  <2>4. CASE FailRun(j) /\ Excuse(run[j].of)
    BY <2>1, <2>2, <2>4, <1>t, <1>n, <1>w, <1>e, <1>s, RunMoveKeepsRows DEF FailRun, Excuse
  <2>5. CASE Spend(j, "report") /\ Excuse(run[j].of)
    BY <2>1, <2>2, <2>5, <1>t, <1>n, <1>w, <1>e, <1>p, RunMoveKeepsRows DEF Spend, Excuse
  <2> QED
    BY <1>5, <2>3, <2>4, <2>5 DEF CallTimesOut
<1>6. CASE ReportsOutcome(j)
  <2>1. PICK s \in {"FAILED", "SUCCEEDED"} : run' = [run EXCEPT ![j] = Settled(j, s)]
    BY <1>6 DEF ReportsOutcome
  <2> QED
    BY <1>6, <2>1, <1>t, <1>n, <1>w, <1>s, RunMoveKeepsRows DEF ReportsOutcome
<1>7. CASE WorkerDies(j)
  <2> DEFINE job == [Past(j, "queued") EXCEPT !.verdict = "none"]
  <2>1. /\ job \in JobRun /\ job.at = "queued" /\ job.status = run[j].status
        /\ job.of = run[j].of /\ job.task = run[j].task
    BY <1>p DEF JobRun
  <2>2. /\ lateCalls' \subseteq ResultCall /\ mishaps' \in 0..MaxMishaps
        /\ \A back \in lateCalls' : back \in lateCalls \/ CallShape(back)
    BY <1>7, <1>t, <1>n, AtWork DEF WorkerDies, Mishap
  <2>3. run' = [run EXCEPT ![j] = job]
    BY <1>7 DEF WorkerDies
  <2> HIDE DEF job
  <2> QED
    BY <1>7, <2>1, <2>2, <2>3, <1>t, <1>n, <1>w, RunMoveKeepsRows DEF WorkerDies
<1> QED
  BY <1>1, <1>3, <1>4, <1>5, <1>6, <1>7

\* The jobs after a callback: the caller's moves on, and at most one poster is
\* asked for.
LEMMA RecordingKeepsRuns ==
    ASSUME RowsInv, NEW r \in Results, NEW task, NEW verdict,
           NEW runs \in [Runs -> JobRun], CallShape(<<r, task, verdict>>),
           Recording(r, task, verdict, runs),
           \A i \in Runs : \/ runs[i] = run[i]
                           \/ run[i].at = "callback" /\ runs[i] = Past(i, "report")
    PROVE  /\ run' \in [Runs -> JobRun]
           /\ \A i \in Runs :
                 \/ run'[i] = runs[i]
                 \/ /\ run[i].at = "none" /\ run'[i] = PosterRun(r)
                    /\ result[r].kind = "import" /\ task = "make"
           /\ \A i \in Runs : run'[i] = run[i] \/ RunShape(i)'
<1>1. PosterRun(r) \in JobRun
  BY ResultNumbers DEF PosterRun, NoJobRun, JobRun
<1>2. /\ run' \in [Runs -> JobRun]
      /\ \A i \in Runs :
            \/ run'[i] = runs[i]
            \/ /\ run[i].at = "none" /\ run'[i] = PosterRun(r)
               /\ result[r].kind = "import" /\ task = "make"
  BY <1>1 DEF Recording
<1>g. Grown
  BY RecordingKeepsRows
<1>3. ASSUME NEW i \in Runs, run'[i] # run[i] PROVE RunShape(i)'
  <2>1. CASE run'[i] = PosterRun(r) /\ result[r].kind = "import" /\ task = "make"
    <3>1. result'[r].kind = "import" /\ result'[r].status = "done"
      BY <2>1 DEF Recording
    <3>2. /\ run'[i].of = r /\ run'[i].task = "poster" /\ run'[i].at = "queued"
          /\ run'[i].status = "QUEUED"
      BY <2>1 DEF PosterRun, NoJobRun
    <3> QED
      BY <3>1, <3>2 DEF RunShape, PosterFits
  <2>2. CASE run'[i] = Past(i, "report") /\ run[i].at = "callback"
    <3>1. RunShape(i) /\ run[i] \in JobRun
      BY DEF RowsInv, ResTypeOK
    <3>2. /\ run'[i].of = run[i].of /\ run'[i].task = run[i].task /\ run'[i].at = "report"
          /\ run'[i].status = run[i].status /\ run'[i].verdict = run[i].verdict
      BY <2>2, <3>1 DEF Past, JobRun
    <3>3. run[i].of \in Results /\ result[run[i].of].kind # "none"
      BY <2>2, <3>1 DEF RunShape
    <3> QED
      BY <1>g, <2>2, <3>1, <3>2, <3>3 DEF RunShape, Grown
  <2> QED
    BY <1>2, <1>3, <2>1, <2>2
<1> QED
  BY <1>2, <1>3

\* A callback, from the worker or late, by what it records.
LEMMA CallsRecord ==
    ASSUME RowsInv, NEW j \in Runs, Calls(j)
    PROVE  /\ run[j].of \in Results /\ run[j].task \in {"make", "poster"}
           /\ CallShape(<<run[j].of, run[j].task, run[j].verdict>>)
           /\ Call(j) = <<run[j].of, run[j].task, run[j].verdict>>
           /\ [run EXCEPT ![j] = Past(j, "report")] \in [Runs -> JobRun]
           /\ Recording(run[j].of, run[j].task, run[j].verdict,
                        [run EXCEPT ![j] = Past(j, "report")])
<1>1. /\ run[j].of \in Results /\ run[j].task \in {"make", "poster"}
      /\ run[j].verdict \in {"done", "failed"} /\ CallShape(Call(j))
  BY AtWork DEF Calls
<1>2. Call(j) = <<run[j].of, run[j].task, run[j].verdict>>
  BY DEF Call
<1>5. CallShape(<<run[j].of, run[j].task, run[j].verdict>>)
  BY <1>1, <1>2
<1>3. [run EXCEPT ![j] = Past(j, "report")] \in [Runs -> JobRun]
  <2>1. Past(j, "report") \in JobRun
    BY RunRecords
  <2> QED
    BY <2>1 DEF RowsInv, ResTypeOK
<1>4. RecordResult(<<run[j].of, run[j].task, run[j].verdict>>, [run EXCEPT ![j] = Past(j, "report")])
  BY <1>2 DEF Calls
<1> QED
  BY <1>1, <1>2, <1>3, <1>4, <1>5, Recorded

LEMMA LateCallsRecord ==
    ASSUME RowsInv, LateCallLands
    PROVE  \E r \in Results, task \in {"make", "poster"}, verdict \in {"done", "failed"} :
              /\ <<r, task, verdict>> \in lateCalls
              /\ CallShape(<<r, task, verdict>>)
              /\ lateCalls' = lateCalls \ {<<r, task, verdict>>}
              /\ Recording(r, task, verdict, run)
              /\ UNCHANGED <<excused, executions, mishaps>>
<1>1. PICK back \in lateCalls : /\ lateCalls' = lateCalls \ {back}
                                /\ RecordResult(back, run)
                                /\ UNCHANGED <<excused, executions, mishaps>>
  BY DEF LateCallLands
<1>2. PICK r \in Results, task \in {"make", "poster"}, verdict \in {"done", "failed"} :
         back = <<r, task, verdict>>
  BY DEF RowsInv, ResTypeOK, ResultCall
<1>3. CallShape(<<r, task, verdict>>)
  BY <1>2 DEF RowsInv
<1>4. Recording(r, task, verdict, run)
  BY <1>1, <1>2, <1>3, Recorded
<1> QED
  BY <1>1, <1>2, <1>3, <1>4

LEMMA CallbacksKeepRows ==
    ASSUME RowsInv, (\E j \in Runs : Calls(j)) \/ LateCallLands
    PROVE  RowsInv'
<1>1. ASSUME NEW j \in Runs, Calls(j) PROVE RowsInv'
  <2>1. /\ run[j].at = "callback" /\ UNCHANGED <<lateCalls, excused, executions, mishaps>>
        /\ run \in [Runs -> JobRun]
    BY <1>1 DEF Calls, RowsInv, ResTypeOK
  <2> DEFINE r == run[j].of
             task == run[j].task
             verdict == run[j].verdict
             runs == [run EXCEPT ![j] = Past(j, "report")]
  <2>r. /\ r \in Results /\ task \in {"make", "poster"} /\ runs \in [Runs -> JobRun]
        /\ CallShape(<<r, task, verdict>>) /\ Recording(r, task, verdict, runs)
    BY <1>1, CallsRecord
  <2>2. /\ run' \in [Runs -> JobRun] /\ \A i \in Runs : run'[i] = run[i] \/ RunShape(i)'
        /\ told' \in [Results -> Nat] /\ (\A q \in Results : RowShape(q)') /\ Grown
        /\ result' \in [Results -> ResultRow]
    <3>1. \A i \in Runs : \/ runs[i] = run[i]
                          \/ run[i].at = "callback" /\ runs[i] = Past(i, "report")
      BY <2>1
    <3> HIDE DEF r, task, verdict, runs
    <3>2. run' \in [Runs -> JobRun] /\ \A i \in Runs : run'[i] = run[i] \/ RunShape(i)'
      BY <2>r, <3>1, RecordingKeepsRuns
    <3>3. told' \in [Results -> Nat] /\ (\A q \in Results : RowShape(q)') /\ Grown
      BY <2>r, RecordingKeepsRows
    <3> QED
      BY <2>r, <3>2, <3>3 DEF Recording
  <2>3. ResTypeOK'
    BY <2>1, <2>2 DEF RowsInv, ResTypeOK
  <2> QED
    BY <2>1, <2>2, <2>3, RowsKept
<1>2. CASE LateCallLands
  <2>1. PICK r \in Results, task \in {"make", "poster"}, verdict \in {"done", "failed"} :
           /\ CallShape(<<r, task, verdict>>)
           /\ lateCalls' = lateCalls \ {<<r, task, verdict>>}
           /\ Recording(r, task, verdict, run)
           /\ UNCHANGED <<excused, executions, mishaps>>
    BY <1>2, LateCallsRecord
  <2>2. run \in [Runs -> JobRun]
    BY DEF RowsInv, ResTypeOK
  <2>3. /\ run' \in [Runs -> JobRun] /\ \A i \in Runs : run'[i] = run[i] \/ RunShape(i)'
        /\ told' \in [Results -> Nat] /\ (\A q \in Results : RowShape(q)') /\ Grown
        /\ result' \in [Results -> ResultRow]
    BY <2>1, <2>2, RecordingKeepsRuns, RecordingKeepsRows DEF Recording
  <2>4. ResTypeOK'
    BY <2>1, <2>3 DEF RowsInv, ResTypeOK
  <2> QED
    BY <2>1, <2>3, <2>4, RowsKept
<1> QED
  BY <1>1, <1>2

LEMMA StepsKeepRows == RowsInv /\ [ResNext]_resVars => RowsInv'
<1> SUFFICES ASSUME RowsInv, [ResNext]_resVars PROVE RowsInv'
  OBVIOUS
<1>1. CASE UNCHANGED resVars
  BY <1>1 DEF resVars, RowsInv, ResTypeOK, RowShape, RunShape, CallShape, PosterFits
<1> QED
  BY <1>1, CreationsKeepRows, EnqueuesKeepRows, WritesKeepRows, CompletionsKeepRows,
     RetriesKeepRows, WorkersKeepRows, CallbacksKeepRows
  DEF ResNext

LEMMA InitRows == ResInit => RowsInv
<1> SUFFICES ASSUME ResInit PROVE RowsInv
  OBVIOUS
<1>1. NoResultRow \in ResultRow /\ NoJobRun \in JobRun
  BY ResultNumbers DEF NoResultRow, ResultRow, NoJobRun, JobRun
<1>2. ResTypeOK
  BY <1>1, MishapsAssumption DEF ResInit, ResTypeOK
<1>3. \A r \in Results : RowShape(r)
  BY DEF ResInit, RowShape, NoResultRow
<1>4. \A j \in Runs : RunShape(j)
  BY DEF ResInit, RunShape, NoJobRun
<1> QED
  BY <1>2, <1>3, <1>4 DEF ResInit, RowsInv

\* Every state of the rows and of what runs for them is well typed.
THEOREM RowsTypeCorrect == ResSpec => []ResTypeOK
<1>1. RowsInv => ResTypeOK
  BY DEF RowsInv
<1> QED
  BY <1>1, InitRows, StepsKeepRows, PTL DEF ResSpec

-----------------------------------------------------------------------------
(* What a row that is left alone holds.                                    *)

Waits(r) ==
    \/ result[r].at = "trailing"
    \/ result[r].at = "returned" /\ result[r].status # "waiting"

\* Nothing ends for a row without leaving its outcome.
LEMMA CauseKept ==
    ASSUME CauseInv, \A j \in Runs : run[j].at # "none" => run[j].of \in Results,
           \A back \in lateCalls : back[1] \in Results,
           \A r \in Results : Outcome(r) => Outcome(r)',
           \A r \in Results : Waits(r)' => Waits(r) \/ Alive(r)' \/ Outcome(r)',
           \A j \in Runs, r \in Results : run[j].at \notin {"none", "settled"} /\ run[j].of = r =>
               \/ run'[j].at \notin {"none", "settled"} /\ run'[j].of = r
               \/ Outcome(r)',
           \A j \in Runs, r \in Results : run'[j].at = "report" /\ run'[j].of = r =>
               \/ run[j].at = "report" /\ run[j].of = r
               \/ Outcome(r)',
           \A back \in lateCalls : back \in lateCalls' \/ Outcome(back[1])'
    PROVE  CauseInv'
<1>1. ASSUME NEW j \in Runs, NEW r \in Results, run'[j].at = "report", run'[j].of = r
      PROVE  Outcome(r)'
  BY <1>1 DEF CauseInv
<1>2. ASSUME NEW r \in Results, Alive(r) PROVE Alive(r)' \/ Outcome(r)'
  <2>1. CASE \E j \in Runs : run[j].of = r /\ run[j].at \notin {"none", "settled"}
    BY <2>1 DEF Alive
  <2>2. CASE \E back \in lateCalls : back[1] = r
    BY <2>2 DEF Alive
  <2> QED
    BY <1>2, <2>1, <2>2 DEF Alive
<1>3. ASSUME NEW r \in Results, Waits(r)' PROVE Alive(r)' \/ Outcome(r)'
  BY <1>2, <1>3 DEF CauseInv, Waits
<1> QED
  BY <1>1, <1>3 DEF CauseInv, Waits

LEMMA RunsAndCallsOf ==
    ASSUME RowsInv
    PROVE  /\ \A j \in Runs : run[j].at # "none" => run[j].of \in Results
           /\ \A back \in lateCalls : back[1] \in Results
  BY DEF RowsInv, RunShape, ResTypeOK, ResultCall

\* Rows stay, one job moves on: its end leaves an outcome.
LEMMA RunMoveKeepsCause ==
    ASSUME RowsInv, CauseInv, NEW j \in Runs, UNCHANGED result, run[j].at # "none",
           \A i \in Runs \ {j} : run'[i] = run[i], run'[j].of = run[j].of, run'[j].at # "none",
           excused \subseteq excused', lateCalls \subseteq lateCalls',
           \A r \in Results : run'[j].at \in {"report", "settled"} /\ run[j].of = r => Outcome(r)'
    PROVE  CauseInv'
<1>1. \A r \in Results : Outcome(r) => Outcome(r)'
  BY DEF Outcome
<1>2. \A r \in Results : Waits(r)' => Waits(r)
  BY DEF Waits
<1> QED
  BY <1>1, <1>2, RunsAndCallsOf, CauseKept

LEMMA RowsKeepOutcomes ==
    ASSUME RowsInv, NEW r \in Results, \A q \in Results \ {r} : result'[q] = result[q],
           excused \subseteq excused', Outcome(r) => Outcome(r)'
    PROVE  \A q \in Results : Outcome(q) => Outcome(q)'
  BY DEF Outcome

LEMMA RequestsKeepCause ==
    ASSUME RowsInv, CauseInv, NEW r \in Results,
           \/ CreateResult(r) \/ WriteAfterwards(r)
           \/ \E j \in Runs : EnqueueReuses(r, j) \/ EnqueueCreates(r, j) \/ CompleteUpload(r, j)
    PROVE  CauseInv'
<1>t. /\ result \in [Results -> ResultRow] /\ result[r] \in ResultRow /\ RowShape(r)
      /\ run \in [Runs -> JobRun]
  BY DEF RowsInv, ResTypeOK
<1>1. CASE CreateResult(r)
  <2>1. PICK kind \in ResultKinds, status \in {"waiting", "working"}, at \in {"enqueue", "returned"} :
           Created(r, kind, status, at) /\ (at = "returned" => status = "waiting")
    BY <1>1
    DEF CreateResult, RequestTranscription, RequestVoiceover, RequestExport, RequestPublish,
        ImportFromUrl, CloneVoice, InitUpload, ResultKinds
  <2>2. /\ UNCHANGED <<run, lateCalls, excused>> /\ result[r] = NoResultRow
        /\ \A q \in Results \ {r} : result'[q] = result[q]
        /\ result'[r].status = status /\ result'[r].at = at /\ result'[r].poster = FALSE
    BY <2>1, <1>t DEF Created, NextResult, NoResultRow, RowShape
  <2>3. Outcome(r) => Outcome(r)'
    BY <2>2 DEF Outcome, NoResultRow
  <2>4. \A q \in Results : Waits(q)' => Waits(q)
    BY <2>1, <2>2 DEF Waits
  <2> QED
    BY <2>2, <2>3, <2>4, RowsKeepOutcomes, RunsAndCallsOf, CauseKept
<1>2. CASE WriteAfterwards(r)
  <2>1. /\ result[r].at = "trailing" /\ excused \subseteq excused'
        /\ UNCHANGED <<run, lateCalls>>
        /\ \A q \in Results \ {r} : result'[q] = result[q]
        /\ result'[r].poster = result[r].poster /\ result'[r].kind = result[r].kind
        /\ result[r].status \in {"done", "failed"} => r \in excused'
    BY <1>2, <1>t DEF WriteAfterwards, Excuse, ResultRow
  <2>2. Outcome(r) => Outcome(r)'
    BY <2>1 DEF Outcome
  <2>3. \A q \in Results : Waits(q)' => Waits(q)
    BY <2>1 DEF Waits
  <2> QED
    BY <2>1, <2>2, <2>3, RowsKeepOutcomes, RunsAndCallsOf, CauseKept
<1>3. ASSUME NEW j \in Runs, EnqueueReuses(r, j) PROVE CauseInv'
  <2>1. /\ excused' = excused \union {r} /\ UNCHANGED <<run, lateCalls>>
        /\ \A q \in Results \ {r} : result'[q] = result[q]
    BY <1>3, <1>t DEF EnqueueReuses, Excuse
  <2>2. Outcome(r)'
    BY <2>1 DEF Outcome
  <2>3. \A q \in Results \ {r} : Waits(q)' => Waits(q)
    BY <2>1 DEF Waits
  <2> QED
    BY <2>1, <2>2, <2>3, RowsKeepOutcomes, RunsAndCallsOf, CauseKept
<1>4. ASSUME NEW j \in Runs, EnqueueCreates(r, j) PROVE CauseInv'
  <2>1. /\ excused \subseteq excused' /\ lateCalls' = lateCalls /\ run[j].at = "none"
        /\ \A q \in Results \ {r} : result'[q] = result[q]
        /\ \A i \in Runs \ {j} : run'[i] = run[i]
        /\ result'[r].kind = result[r].kind /\ result'[r].status = result[r].status
        /\ result'[r].poster = result[r].poster
        /\ run'[j].of = r
        /\ \/ run'[j].at = "queued"
           \/ run'[j].at = "settled" /\ r \in excused'
    <3>1. lateCalls' = lateCalls /\ run[j].at = "none"
      BY <1>4 DEF EnqueueCreates, NextRun
    <3>2. PICK at : result' = [result EXCEPT ![r].run = KeptRun(result[r].kind, j), ![r].at = at]
      BY <1>4 DEF EnqueueCreates
    <3>3. PICK pc, status :
             /\ run' = [run EXCEPT ![j] = [[NoJobRun EXCEPT !.of = r, !.task = "make"]
                                               EXCEPT !.at = pc, !.status = status]]
             /\ excused \subseteq excused'
             /\ pc = "queued" \/ (pc = "settled" /\ r \in excused')
      BY <1>4 DEF EnqueueCreates, Excuse
    <3>4. /\ run'[j].of = r /\ run'[j].at = pc
          /\ \A i \in Runs \ {j} : run'[i] = run[i]
      BY <3>3, <1>t DEF NoJobRun
    <3> QED
      BY <3>1, <3>2, <3>3, <3>4, <1>t DEF ResultRow
  <2>2. Outcome(r) => Outcome(r)'
    BY <2>1 DEF Outcome
  <2>3. Alive(r)' \/ Outcome(r)'
    BY <2>1 DEF Alive, Outcome
  <2>4. \A q \in Results \ {r} : Waits(q)' => Waits(q)
    BY <2>1 DEF Waits
  <2> QED
    BY <2>1, <2>2, <2>3, <2>4, RowsKeepOutcomes, RunsAndCallsOf, CauseKept
<1>5. ASSUME NEW j \in Runs, CompleteUpload(r, j) PROVE CauseInv'
  <2>1. /\ excused \subseteq excused' /\ lateCalls' = lateCalls /\ run[j].at = "none"
        /\ result[r].kind = "upload"
        /\ \A q \in Results \ {r} : result'[q] = result[q]
        /\ \A i \in Runs \ {j} : run'[i] = run[i]
        /\ result'[r].kind = "upload" /\ result'[r].poster = result[r].poster
        /\ run'[j].of = r
        /\ \/ run'[j].at = "queued"
           \/ run'[j].at = "settled" /\ r \in excused'
    <3>1. /\ lateCalls' = lateCalls /\ run[j].at = "none" /\ result[r].kind = "upload"
          /\ result' = [result EXCEPT ![r].status = "working"]
      BY <1>5 DEF CompleteUpload, NextRun
    <3>2. PICK pc, status :
             /\ run' = [run EXCEPT ![j] = [PosterRun(r) EXCEPT !.at = pc, !.status = status]]
             /\ excused \subseteq excused'
             /\ pc = "queued" \/ (pc = "settled" /\ r \in excused')
      <4>1. PosterRun(r) = [PosterRun(r) EXCEPT !.at = "queued", !.status = "QUEUED"]
        BY DEF PosterRun, NoJobRun
      <4> QED
        BY <1>5, <4>1 DEF CompleteUpload, Excuse
    <3>3. /\ run'[j].of = r /\ run'[j].at = pc
          /\ \A i \in Runs \ {j} : run'[i] = run[i]
      BY <3>2, <1>t DEF PosterRun, NoJobRun
    <3> QED
      BY <3>1, <3>2, <3>3, <1>t DEF ResultRow
  <2>2. Outcome(r) => Outcome(r)'
    BY <2>1, <1>t DEF Outcome, RowShape
  <2>3. Alive(r)' \/ Outcome(r)'
    BY <2>1 DEF Alive, Outcome
  <2>4. \A q \in Results \ {r} : Waits(q)' => Waits(q)
    BY <2>1 DEF Waits
  <2> QED
    BY <2>1, <2>2, <2>3, <2>4, RowsKeepOutcomes, RunsAndCallsOf, CauseKept
<1> QED
  BY <1>1, <1>2, <1>3, <1>4, <1>5

LEMMA RetriesKeepCause ==
    ASSUME RowsInv, CauseInv, NEW i \in Runs, NEW j \in Runs, RetryRun(i, j)
    PROVE  CauseInv'
<1>t. run \in [Runs -> JobRun] /\ run[i] \in JobRun /\ RunShape(j)
  BY DEF RowsInv, ResTypeOK
<1>1. /\ run[j].at = "none" /\ UNCHANGED <<result, lateCalls, excused>> /\ i # j
      /\ run' = RetryQueued(i, j)
  BY <1>t DEF RetryRun, NextRun, RunShape, NoJobRun
<1>2. /\ run'[i].of = run[i].of /\ run'[i].at = run[i].at
      /\ run'[j].at = "queued"
      /\ \A k \in Runs \ {i, j} : run'[k] = run[k]
  BY <1>t, <1>1 DEF RetryQueued, NoJobRun, JobRun
<1>3. \A r \in Results : (Outcome(r) => Outcome(r)') /\ (Waits(r)' => Waits(r))
  BY <1>1 DEF Outcome, Waits
<1> QED
  BY <1>1, <1>2, <1>3, RunsAndCallsOf, CauseKept

LEMMA WorkersKeepCause ==
    ASSUME RowsInv, CauseInv, NEW j \in Runs,
           \/ StartRun(j) \/ Makes(j) \/ BodyRaises(j)
           \/ CallTimesOut(j) \/ ReportsOutcome(j) \/ WorkerDies(j)
    PROVE  CauseInv'
<1>t. /\ run \in [Runs -> JobRun] /\ run[j] \in JobRun /\ run[j].at # "none"
      /\ UNCHANGED result
  BY DEF RowsInv, ResTypeOK, StartRun, Makes, BodyRaises, CallTimesOut, ReportsOutcome, WorkerDies
<1>1. /\ excused \subseteq excused' /\ lateCalls \subseteq lateCalls'
  BY DEF StartRun, Makes, BodyRaises, CallTimesOut, ReportsOutcome, WorkerDies, Excuse
\* The job's record keeps its row, and ends only with a reason.
<1>2. ASSUME NEW job, run' = [run EXCEPT ![j] = job], job.of = run[j].of, job.at # "none",
             \/ job.at \notin {"report", "settled"}
             \/ run[j].of \in excused'
             \/ run[j].at = "report"
      PROVE  CauseInv'
  <2>1. run'[j] = job /\ \A i \in Runs \ {j} : run'[i] = run[i]
    BY <1>t, <1>2
  <2>2. ASSUME NEW r \in Results, job.at \in {"report", "settled"}, run[j].of = r
        PROVE  Outcome(r)'
    <3>1. CASE run[j].of \in excused'
      BY <2>2, <3>1 DEF Outcome
    <3>2. CASE run[j].at = "report"
      <4>1. Outcome(r)
        BY <2>2, <3>2 DEF CauseInv
      <4> QED
        BY <1>t, <1>1, <4>1 DEF Outcome
    <3> QED
      BY <1>2, <2>2, <3>1, <3>2
  <2> QED
    BY <1>t, <1>1, <1>2, <2>1, <2>2, RunMoveKeepsCause
<1>p. \A pc : Past(j, pc).of = run[j].of /\ Past(j, pc).at = pc
  BY <1>t DEF Past, JobRun
<1>s. \A s : Settled(j, s).of = run[j].of /\ Settled(j, s).at = "settled"
  <2>1. \A pc : DOMAIN Past(j, pc) = DOMAIN run[j]
    BY <1>t DEF Past
  <2> QED
    BY <1>t, <1>p, <2>1 DEF Settled, JobRun
<1>3. CASE StartRun(j)
  <2>1. CASE Spend(j, "settled") /\ Excuse(run[j].of)
    <3>1. Past(j, "settled").of = run[j].of /\ Past(j, "settled").at = "settled"
      BY <1>p
    <3>2. run' = [run EXCEPT ![j] = Past(j, "settled")] /\ run[j].of \in excused'
      BY <2>1 DEF Spend, Excuse
    <3> QED
      BY <3>1, <3>2, <1>2
  <2>2. CASE run' = [run EXCEPT ![j].at = "body", ![j].status = "RUNNING"]
    <3>1. run' = [run EXCEPT ![j] = [run[j] EXCEPT !.at = "body", !.status = "RUNNING"]]
      BY <2>2
    <3>2. /\ [run[j] EXCEPT !.at = "body", !.status = "RUNNING"].of = run[j].of
          /\ [run[j] EXCEPT !.at = "body", !.status = "RUNNING"].at = "body"
      BY <1>t DEF JobRun
    <3> QED
      BY <3>1, <3>2, <1>2
  <2> QED
    BY <1>3, <2>1, <2>2 DEF StartRun
<1>4. ASSUME NEW verdict, ToCallback(j, verdict) PROVE CauseInv'
  <2> DEFINE job == [run[j] EXCEPT !.at = "callback", !.tries = 0, !.verdict = verdict]
  <2>1. run' = [run EXCEPT ![j] = job] /\ job.of = run[j].of /\ job.at = "callback"
    BY <1>4, <1>t DEF ToCallback, JobRun
  <2> HIDE DEF job
  <2> QED
    BY <2>1, <1>2
<1>5. CASE FailRun(j) /\ Excuse(run[j].of)
  BY <1>5, <1>2, <1>s DEF FailRun, Excuse
<1>6. CASE Makes(j) \/ BodyRaises(j)
  BY <1>4, <1>5, <1>6 DEF Makes, BodyRaises
<1>7. CASE CallTimesOut(j)
  <2>1. CASE Spend(j, "report") /\ Excuse(run[j].of)
    <3>1. Past(j, "report").of = run[j].of /\ Past(j, "report").at = "report"
      BY <1>p
    <3>2. run' = [run EXCEPT ![j] = Past(j, "report")] /\ run[j].of \in excused'
      BY <2>1 DEF Spend, Excuse
    <3> QED
      BY <3>1, <3>2, <1>2
  <2>2. CASE run' = [run EXCEPT ![j].tries = @ + 1] /\ run[j].at = "callback"
    <3> DEFINE job == [run[j] EXCEPT !.tries = @ + 1]
    <3>1. run' = [run EXCEPT ![j] = job] /\ job.of = run[j].of /\ job.at = "callback"
      BY <2>2, <1>t DEF JobRun
    <3> HIDE DEF job
    <3> QED
      BY <3>1, <1>2
  <2> QED
    BY <1>5, <1>7, <2>1, <2>2 DEF CallTimesOut
<1>8. CASE ReportsOutcome(j)
  <2>1. PICK s : run' = [run EXCEPT ![j] = Settled(j, s)]
    BY <1>8 DEF ReportsOutcome
  <2> QED
    BY <1>8, <2>1, <1>2, <1>s DEF ReportsOutcome
<1>9. CASE WorkerDies(j)
  <2> DEFINE job == [Past(j, "queued") EXCEPT !.verdict = "none"]
  <2>1. run' = [run EXCEPT ![j] = job] /\ job.of = run[j].of /\ job.at = "queued"
    <3>1. Past(j, "queued") \in JobRun
      BY RunRecords
    <3> QED
      BY <1>9, <1>p, <3>1 DEF WorkerDies, JobRun
  <2> HIDE DEF job
  <2> QED
    BY <2>1, <1>2
<1> QED
  BY <1>3, <1>6, <1>7, <1>8, <1>9

\* The handler of a callback leaves the row with its outcome.
LEMMA RecordingConcludes ==
    ASSUME RowsInv, NEW r \in Results, NEW task, NEW verdict, NEW runs,
           CallShape(<<r, task, verdict>>), Recording(r, task, verdict, runs),
           UNCHANGED excused
    PROVE  Outcome(r)' /\ \A q \in Results : (Outcome(q) => Outcome(q)') /\ (Waits(q)' => Waits(q) \/ q = r)
<1>1. Outcome(r)'
  <2>1. CASE task = "poster"
    BY <2>1 DEF Recording, CallShape, PosterFits, Outcome
  <2>2. CASE task = "make"
    BY <2>2 DEF Recording, Outcome
  <2> QED
    BY <2>1, <2>2 DEF Recording
<1>2. \A q \in Results \ {r} : (Outcome(q) => Outcome(q)') /\ (Waits(q)' => Waits(q))
  BY DEF Recording, Outcome, Waits
<1> QED
  BY <1>1, <1>2

LEMMA CallbacksKeepCause ==
    ASSUME RowsInv, CauseInv, (\E j \in Runs : Calls(j)) \/ LateCallLands
    PROVE  CauseInv'
<1>t. run \in [Runs -> JobRun]
  BY DEF RowsInv, ResTypeOK
\* A poster asked for is of the row the call is about.
<1>1. ASSUME NEW r \in Results, NEW task, NEW verdict, NEW runs \in [Runs -> JobRun],
             CallShape(<<r, task, verdict>>), Recording(r, task, verdict, runs),
             \A i \in Runs : \/ runs[i] = run[i]
                             \/ /\ run[i].at = "callback" /\ run[i].of = r
                                /\ runs[i] = Past(i, "report"),
             UNCHANGED excused,
             \A back \in lateCalls : back \in lateCalls' \/ back[1] = r
      PROVE  CauseInv'
  <2>1. Outcome(r)' /\ \A q \in Results : (Outcome(q) => Outcome(q)') /\ (Waits(q)' => Waits(q) \/ q = r)
    BY <1>1, RecordingConcludes
  <2>2. \A i \in Runs : run'[i] = runs[i] \/ (run[i].at = "none" /\ run'[i] = PosterRun(r))
    BY <1>1, RecordingKeepsRuns
  <2>3. \A i \in Runs :
          \/ run'[i] = run[i]
          \/ run[i].at = "callback" /\ run[i].of = r /\ run'[i].of = r /\ run'[i].at = "report"
          \/ run[i].at = "none" /\ run'[i].at = "queued"
    <3>1. \A i \in Runs : Past(i, "report").of = run[i].of /\ Past(i, "report").at = "report"
      BY <1>t DEF Past, JobRun
    <3>2. PosterRun(r).at = "queued"
      BY DEF PosterRun, NoJobRun
    <3> QED
      BY <1>1, <2>2, <3>1, <3>2
  <2> QED
    BY <1>1, <2>1, <2>3, RunsAndCallsOf, CauseKept
<1>2. ASSUME NEW j \in Runs, Calls(j) PROVE CauseInv'
  <2> DEFINE r == run[j].of
             task == run[j].task
             verdict == run[j].verdict
             runs == [run EXCEPT ![j] = Past(j, "report")]
  <2>1. /\ r \in Results /\ runs \in [Runs -> JobRun]
        /\ CallShape(<<r, task, verdict>>) /\ Recording(r, task, verdict, runs)
    BY <1>2, CallsRecord
  <2>2. /\ UNCHANGED <<excused, lateCalls>>
        /\ \A i \in Runs : \/ runs[i] = run[i]
                           \/ /\ run[i].at = "callback" /\ run[i].of = r
                              /\ runs[i] = Past(i, "report")
    BY <1>2, <1>t DEF Calls
  <2> HIDE DEF r, task, verdict, runs
  <2> QED
    BY <1>1, <2>1, <2>2
<1>3. CASE LateCallLands
  <2>1. PICK r \in Results, task \in {"make", "poster"}, verdict \in {"done", "failed"} :
           /\ CallShape(<<r, task, verdict>>)
           /\ lateCalls' = lateCalls \ {<<r, task, verdict>>}
           /\ Recording(r, task, verdict, run)
           /\ UNCHANGED excused
    BY <1>3, LateCallsRecord
  <2> QED
    BY <1>1, <1>t, <2>1
<1> QED
  BY <1>2, <1>3

LEMMA StepsKeepCause == RowsInv /\ CauseInv /\ [ResNext]_resVars => CauseInv'
<1> SUFFICES ASSUME RowsInv, CauseInv, [ResNext]_resVars PROVE CauseInv'
  OBVIOUS
<1>1. CASE UNCHANGED resVars
  BY <1>1 DEF resVars, CauseInv, Outcome, Alive
<1> QED
  BY <1>1, RequestsKeepCause, RetriesKeepCause, WorkersKeepCause, CallbacksKeepCause DEF ResNext

\* A row whose request has returned and for which nothing runs any more holds
\* its outcome, or one of the causes the code leaves happened to it
\* (generation.service.ts, the callbacks of the workers).
THEOREM EveryStuckRowHasCause == ResSpec => []StuckRowsHaveCause
<1>1. ResInit => CauseInv
  BY DEF ResInit, CauseInv, NoResultRow, NoJobRun
<1>2. RowsInv /\ CauseInv => StuckRowsHaveCause
  BY DEF CauseInv, StuckRowsHaveCause, Outcome
<1> QED
  BY <1>1, <1>2, InitRows, StepsKeepRows, StepsKeepCause, PTL DEF ResSpec

-----------------------------------------------------------------------------
(* What the user is told.                                                  *)

LEMMA CallsFinite ==
    ASSUME RowsInv, NEW r \in Results
    PROVE  /\ IsFiniteSet(LateMakes(r)) /\ Cardinality(LateMakes(r)) \in Nat
           /\ IsFiniteSet(AtCallback(r)) /\ Cardinality(AtCallback(r)) \in Nat
<1>1. IsFiniteSet(Results) /\ IsFiniteSet(Runs)
  BY ResultBoundsAssumption, FS_Interval DEF Results, Runs
<1>2. IsFiniteSet(AtCallback(r))
  BY <1>1, FS_Subset DEF AtCallback
<1>3. IsFiniteSet(LateMakes(r))
  <2> DEFINE S == {"make", "poster"}
             T == {"done", "failed"}
  <2>1. IsFiniteSet({"make"}) /\ IsFiniteSet({"done"})
    BY FS_Singleton
  <2>2. IsFiniteSet({"make"} \union {"poster"}) /\ IsFiniteSet({"done"} \union {"failed"})
    BY <2>1, FS_AddElement
  <2>3. S = {"make"} \union {"poster"} /\ T = {"done"} \union {"failed"}
    OBVIOUS
  <2> HIDE DEF S, T
  <2>4. IsFiniteSet(Results \X (S \X T))
    BY <1>1, <2>2, <2>3, FS_Product
  <2> DEFINE flat == [p \in Results \X (S \X T) |-> <<p[1], p[2][1], p[2][2]>>]
             image == {flat[p] : p \in Results \X (S \X T)}
  <2>5. flat \in Surjection(Results \X (S \X T), image)
    BY DEF Surjection
  <2>6. IsFiniteSet(image)
    BY <2>4, <2>5, FS_Surjection
  <2>7. LateMakes(r) \subseteq image
    <3>1. ASSUME NEW back \in LateMakes(r) PROVE back \in image
      <4>1. PICK q \in Results, task \in S, verdict \in T : back = <<q, task, verdict>>
        BY <3>1 DEF LateMakes, RowsInv, ResTypeOK, ResultCall, S, T
      <4>2. <<q, <<task, verdict>>>> \in Results \X (S \X T)
        OBVIOUS
      <4>3. flat[<<q, <<task, verdict>>>>] = back
        BY <4>1, <4>2
      <4> QED
        BY <4>2, <4>3
    <3> QED
      BY <3>1
  <2> QED
    BY <2>6, <2>7, FS_Subset
<1> QED
  BY <1>2, <1>3, FS_CardinalityType

LEMMA SetSizes ==
    ASSUME NEW S, NEW T, NEW x, IsFiniteSet(S)
    PROVE  /\ Cardinality(S) \in Nat
           /\ T \subseteq S => Cardinality(T) \in Nat /\ Cardinality(T) <= Cardinality(S)
           /\ T \subseteq S \union {x} =>
                 Cardinality(T) \in Nat /\ Cardinality(T) <= Cardinality(S) + 1
           /\ T \subseteq S \ {x} /\ x \in S =>
                 Cardinality(T) \in Nat /\ Cardinality(T) <= Cardinality(S) - 1
<1>1. Cardinality(S) \in Nat
  BY FS_CardinalityType
<1>2. ASSUME NEW U, IsFiniteSet(U), T \subseteq U
      PROVE  Cardinality(T) \in Nat /\ Cardinality(U) \in Nat /\ Cardinality(T) <= Cardinality(U)
  <2>1. IsFiniteSet(T) /\ Cardinality(T) <= Cardinality(U)
    BY <1>2, FS_Subset
  <2> QED
    BY <1>2, <2>1, FS_CardinalityType
<1>3. /\ IsFiniteSet(S \union {x})
      /\ Cardinality(S \union {x}) \in {Cardinality(S), Cardinality(S) + 1}
  BY FS_AddElement
<1>4. /\ IsFiniteSet(S \ {x})
      /\ x \in S => Cardinality(S \ {x}) = Cardinality(S) - 1
  BY FS_RemoveElement
<1>5. T \subseteq S => Cardinality(T) \in Nat /\ Cardinality(T) <= Cardinality(S)
  BY <1>2
<1>6. T \subseteq S \union {x} => Cardinality(T) \in Nat /\ Cardinality(T) <= Cardinality(S) + 1
  BY <1>1, <1>2, <1>3
<1>7. T \subseteq S \ {x} /\ x \in S =>
         Cardinality(T) \in Nat /\ Cardinality(T) <= Cardinality(S) - 1
  BY <1>1, <1>2, <1>4
<1> QED
  BY <1>1, <1>5, <1>6, <1>7

\* A row's account changes in one of five ways, none of which overdraws it.
Accounted(r, j, back) ==
    \/ /\ LateMakes(r)' \subseteq LateMakes(r) /\ AtCallback(r)' \subseteq AtCallback(r)
       /\ told'[r] = told[r] /\ executions'[r] = executions[r]
    \/ /\ LateMakes(r)' \subseteq LateMakes(r) /\ AtCallback(r)' \subseteq AtCallback(r) \union {j}
       /\ told'[r] = told[r] /\ executions'[r] = executions[r] + 1
    \/ /\ LateMakes(r)' \subseteq LateMakes(r)
       /\ AtCallback(r)' \subseteq AtCallback(r) \ {j} /\ j \in AtCallback(r)
       /\ told'[r] = told[r] + 1 /\ executions'[r] = executions[r]
    \/ /\ LateMakes(r)' \subseteq LateMakes(r) \union {back}
       /\ AtCallback(r)' \subseteq AtCallback(r) \ {j} /\ j \in AtCallback(r)
       /\ told'[r] = told[r] /\ executions'[r] = executions[r]
    \/ /\ LateMakes(r)' \subseteq LateMakes(r) \ {back} /\ back \in LateMakes(r)
       /\ AtCallback(r)' \subseteq AtCallback(r)
       /\ told'[r] = told[r] + 1 /\ executions'[r] = executions[r]

LEMMA RowAccount ==
    ASSUME RowsInv, RowsInv', NEW r \in Results, NEW j, NEW back, Accounted(r, j, back),
           told[r] + Cardinality(LateMakes(r)) + Cardinality(AtCallback(r)) <= executions[r]
    PROVE  told'[r] + Cardinality(LateMakes(r)') + Cardinality(AtCallback(r)') <= executions'[r]
<1>1. told[r] \in Nat /\ executions[r] \in Nat
  BY DEF RowsInv, ResTypeOK
<1>2. IsFiniteSet(LateMakes(r)) /\ IsFiniteSet(AtCallback(r))
  BY CallsFinite
<1> DEFINE L == LateMakes(r)
           A == AtCallback(r)
           M == LateMakes(r)'
           B == AtCallback(r)'
<1>3. /\ Cardinality(L) \in Nat
      /\ M \subseteq L => Cardinality(M) \in Nat /\ Cardinality(M) <= Cardinality(L)
      /\ M \subseteq L \union {back} => Cardinality(M) \in Nat /\ Cardinality(M) <= Cardinality(L) + 1
      /\ M \subseteq L \ {back} /\ back \in L =>
            Cardinality(M) \in Nat /\ Cardinality(M) <= Cardinality(L) - 1
  BY <1>2, SetSizes
<1>4. /\ Cardinality(A) \in Nat
      /\ B \subseteq A => Cardinality(B) \in Nat /\ Cardinality(B) <= Cardinality(A)
      /\ B \subseteq A \union {j} => Cardinality(B) \in Nat /\ Cardinality(B) <= Cardinality(A) + 1
      /\ B \subseteq A \ {j} /\ j \in A =>
            Cardinality(B) \in Nat /\ Cardinality(B) <= Cardinality(A) - 1
  BY <1>2, SetSizes
<1> HIDE DEF L, A, M, B
<1>5. told'[r] + Cardinality(M) + Cardinality(B) <= executions'[r]
  <2>1. told[r] + Cardinality(L) + Cardinality(A) <= executions[r]
    BY DEF L, A
  <2>2. CASE M \subseteq L /\ B \subseteq A /\ told'[r] = told[r] /\ executions'[r] = executions[r]
    BY <1>1, <1>3, <1>4, <2>1, <2>2
  <2>3. CASE /\ M \subseteq L /\ B \subseteq A \union {j}
             /\ told'[r] = told[r] /\ executions'[r] = executions[r] + 1
    BY <1>1, <1>3, <1>4, <2>1, <2>3
  <2>4. CASE /\ M \subseteq L /\ B \subseteq A \ {j} /\ j \in A
             /\ told'[r] = told[r] + 1 /\ executions'[r] = executions[r]
    BY <1>1, <1>3, <1>4, <2>1, <2>4
  <2>5. CASE /\ M \subseteq L \union {back} /\ B \subseteq A \ {j} /\ j \in A
             /\ told'[r] = told[r] /\ executions'[r] = executions[r]
    BY <1>1, <1>3, <1>4, <2>1, <2>5
  <2>6. CASE /\ M \subseteq L \ {back} /\ back \in L /\ B \subseteq A
             /\ told'[r] = told[r] + 1 /\ executions'[r] = executions[r]
    BY <1>1, <1>3, <1>4, <2>1, <2>6
  <2> QED
    BY <2>2, <2>3, <2>4, <2>5, <2>6 DEF L, A, M, B, Accounted
<1> QED
  BY <1>5 DEF M, B

\* A row that is about to be created owes nothing.
LEMMA FreshAccount ==
    ASSUME RowsInv, NEW r \in Results, result[r].kind = "none"
    PROVE  told[r] + Cardinality(LateMakes(r)) + Cardinality(AtCallback(r)) <= executions[r]
<1>1. told[r] = 0 /\ executions[r] \in Nat
  BY DEF RowsInv, ResTypeOK, RowShape
<1>2. AtCallback(r) = {}
  BY DEF AtCallback, RowsInv, RunShape
<1>3. LateMakes(r) = {}
  BY DEF LateMakes, RowsInv, CallShape, Called
<1> QED
  BY <1>1, <1>2, <1>3, FS_EmptySet

LEMMA NoticeKept ==
    ASSUME RowsInv, RowsInv', RowNoticeInv,
           \A r \in Results : result[r].kind # "none" => result'[r].kind = result[r].kind,
           \A r \in Results :
               result[r].kind \in Announced \union {"none"} => \E j, back : Accounted(r, j, back)
    PROVE  RowNoticeInv'
<1> SUFFICES ASSUME NEW r \in Results, result'[r].kind \in Announced
             PROVE  told'[r] + Cardinality(LateMakes(r)') + Cardinality(AtCallback(r)') <= executions'[r]
  BY DEF RowNoticeInv
<1>1. result[r].kind \in Announced \union {"none"}
  OBVIOUS
<1>2. told[r] + Cardinality(LateMakes(r)) + Cardinality(AtCallback(r)) <= executions[r]
  BY <1>1, FreshAccount DEF RowNoticeInv
<1>3. PICK j, back : Accounted(r, j, back)
  BY <1>1
<1> QED
  BY <1>2, <1>3, RowAccount

\* A step that tells nobody, executes nothing, makes no call and gives none up.
LEMMA QuietKeepsNotices ==
    ASSUME RowsInv, RowsInv', RowNoticeInv,
           \A r \in Results : result[r].kind # "none" => result'[r].kind = result[r].kind,
           UNCHANGED <<lateCalls, told, executions>>,
           \A j \in Runs : run'[j].at = "callback" =>
               /\ run[j].at = "callback"
               /\ run'[j].of = run[j].of /\ run'[j].task = run[j].task
    PROVE  RowNoticeInv'
<1>1. ASSUME NEW r \in Results PROVE Accounted(r, 0, 0)
  <2>1. LateMakes(r)' = LateMakes(r)
    BY DEF LateMakes
  <2>2. AtCallback(r)' \subseteq AtCallback(r)
    BY DEF AtCallback
  <2> QED
    BY <2>1, <2>2 DEF Accounted
<1> QED
  BY <1>1, NoticeKept

LEMMA RequestsKeepNotices ==
    ASSUME RowsInv, RowsInv', RowNoticeInv,
           \/ \E r \in Results :
                 \/ CreateResult(r) \/ WriteAfterwards(r)
                 \/ \E j \in Runs : EnqueueReuses(r, j) \/ EnqueueCreates(r, j) \/ CompleteUpload(r, j)
           \/ \E i, j \in Runs : RetryRun(i, j)
    PROVE  RowNoticeInv'
<1>t. result \in [Results -> ResultRow] /\ run \in [Runs -> JobRun]
  BY DEF RowsInv, ResTypeOK
<1>1. ASSUME NEW r \in Results, CreateResult(r) PROVE RowNoticeInv'
  <2>1. /\ UNCHANGED <<run, lateCalls, told, executions>> /\ result[r].at = "none"
        /\ \A q \in Results \ {r} : result'[q] = result[q]
    BY <1>1, <1>t
    DEF CreateResult, RequestTranscription, RequestVoiceover, RequestExport, RequestPublish,
        ImportFromUrl, CloneVoice, InitUpload, Created, NextResult
  <2>2. result[r].kind = "none"
    BY <2>1 DEF RowsInv, RowShape
  <2> QED
    BY <2>1, <2>2, QuietKeepsNotices
<1>2. ASSUME NEW r \in Results, WriteAfterwards(r) PROVE RowNoticeInv'
  <2>1. /\ UNCHANGED <<run, lateCalls, told, executions>>
        /\ \A q \in Results : result'[q].kind = result[q].kind
    BY <1>2, <1>t DEF WriteAfterwards, ResultRow
  <2> QED
    BY <2>1, QuietKeepsNotices
<1>3. ASSUME NEW r \in Results, NEW j \in Runs, EnqueueReuses(r, j) PROVE RowNoticeInv'
  <2>1. /\ UNCHANGED <<run, lateCalls, told, executions>>
        /\ \A q \in Results : result'[q].kind = result[q].kind
    BY <1>3, <1>t DEF EnqueueReuses, ResultRow
  <2> QED
    BY <2>1, QuietKeepsNotices
<1>4. ASSUME NEW r \in Results, NEW j \in Runs, EnqueueCreates(r, j) PROVE RowNoticeInv'
  <2>1. PICK at, pc, status :
           /\ result' = [result EXCEPT ![r].run = KeptRun(result[r].kind, j), ![r].at = at]
           /\ run' = [run EXCEPT ![j] = [[NoJobRun EXCEPT !.of = r, !.task = "make"]
                                             EXCEPT !.at = pc, !.status = status]]
           /\ pc \in {"queued", "settled"}
           /\ UNCHANGED <<lateCalls, told, executions>>
    BY <1>4 DEF EnqueueCreates
  <2>2. \A q \in Results : result'[q].kind = result[q].kind
    BY <1>t, <2>1 DEF ResultRow
  <2>3. run'[j].at = pc /\ \A i \in Runs \ {j} : run'[i] = run[i]
    BY <1>t, <2>1 DEF NoJobRun
  <2> QED
    BY <2>1, <2>2, <2>3, QuietKeepsNotices
<1>5. ASSUME NEW r \in Results, NEW j \in Runs, CompleteUpload(r, j) PROVE RowNoticeInv'
  <2>1. /\ result' = [result EXCEPT ![r].status = "working"]
        /\ UNCHANGED <<lateCalls, told, executions>>
    BY <1>5 DEF CompleteUpload
  <2>2. \A q \in Results : result'[q].kind = result[q].kind
    BY <1>t, <2>1 DEF ResultRow
  <2>3. PICK job \in {PosterRun(r), [PosterRun(r) EXCEPT !.at = "settled", !.status = "FAILED"]} :
           run' = [run EXCEPT ![j] = job]
    BY <1>5 DEF CompleteUpload
  <2>4. run'[j].at # "callback" /\ \A i \in Runs \ {j} : run'[i] = run[i]
    BY <1>t, <2>3 DEF PosterRun, NoJobRun
  <2> QED
    BY <2>1, <2>2, <2>4, QuietKeepsNotices
<1>6. ASSUME NEW i \in Runs, NEW j \in Runs, RetryRun(i, j) PROVE RowNoticeInv'
  <2>1. UNCHANGED <<result, lateCalls, told, executions>> /\ run' = RetryQueued(i, j) /\ i # j
    <3>1. RunShape(j)
      BY DEF RowsInv
    <3> QED
      BY <1>6, <3>1 DEF RetryRun, NextRun, RunShape, NoJobRun
  <2>2. /\ run'[i] = [run[i] EXCEPT !.status = "RETRYING"] /\ run'[j].at = "queued"
        /\ \A k \in Runs \ {i, j} : run'[k] = run[k]
    BY <1>t, <2>1 DEF RetryQueued, NoJobRun
  <2>3. run'[i].at = run[i].at /\ run'[i].of = run[i].of /\ run'[i].task = run[i].task
    BY <1>t, <2>2 DEF JobRun
  <2> QED
    BY <2>1, <2>2, <2>3, QuietKeepsNotices
<1> QED
  BY <1>1, <1>2, <1>3, <1>4, <1>5, <1>6

LEMMA WorkersKeepNotices ==
    ASSUME RowsInv, RowsInv', RowNoticeInv, NEW j \in Runs,
           \/ StartRun(j) \/ Makes(j) \/ BodyRaises(j)
           \/ CallTimesOut(j) \/ ReportsOutcome(j) \/ WorkerDies(j)
    PROVE  RowNoticeInv'
<1>t. /\ run \in [Runs -> JobRun] /\ run[j] \in JobRun /\ run[j].at # "none"
      /\ executions \in [Results -> Nat] /\ told \in [Results -> Nat]
      /\ UNCHANGED <<result, told>>
  BY DEF RowsInv, ResTypeOK, StartRun, Makes, BodyRaises, CallTimesOut, ReportsOutcome, WorkerDies
<1>k. \A r \in Results : result'[r].kind = result[r].kind
  BY <1>t
<1>p. \A pc : Past(j, pc).of = run[j].of /\ Past(j, pc).at = pc /\ Past(j, pc).task = run[j].task
  BY <1>t DEF Past, JobRun
<1>s. \A s : Settled(j, s).at = "settled"
  <2>1. \A pc : DOMAIN Past(j, pc) = DOMAIN run[j]
    BY <1>t DEF Past
  <2> QED
    BY <1>t, <1>p, <2>1 DEF Settled, JobRun
\* The job is not left at its callback, and no call is given up.
<1>q. ASSUME NEW job, run' = [run EXCEPT ![j] = job], job.at # "callback",
             UNCHANGED <<lateCalls, executions>>
      PROVE  RowNoticeInv'
  <2>1. run'[j] = job /\ \A i \in Runs \ {j} : run'[i] = run[i]
    BY <1>t, <1>q
  <2> QED
    BY <1>k, <1>t, <1>q, <2>1, QuietKeepsNotices
\* The task was carried out: the account of its row is raised by one.
<1>1. ASSUME NEW verdict, ToCallback(j, verdict), lateCalls' = lateCalls PROVE RowNoticeInv'
  <2>1. run'[j].at = "callback" /\ run'[j].of = run[j].of /\ run'[j].task = run[j].task
        /\ \A i \in Runs \ {j} : run'[i] = run[i]
    <3>1. run' = [run EXCEPT ![j] = [run[j] EXCEPT !.at = "callback", !.tries = 0, !.verdict = verdict]]
      BY <1>1 DEF ToCallback
    <3> QED
      BY <1>t, <3>1 DEF JobRun
  <2>2. run[j].of \in Results
    BY <1>t, RunsAndCallsOf
  <2>3. ASSUME NEW r \in Results, result[r].kind \in Announced \union {"none"}
        PROVE  Accounted(r, j, 0)
    <3>1. LateMakes(r)' = LateMakes(r)
      BY <1>1 DEF LateMakes
    <3>2. CASE r = run[j].of /\ run[j].task = "make" /\ result[r].kind \in Announced
      <4>1. executions'[r] = executions[r] + 1
        BY <1>1, <1>t, <3>2 DEF ToCallback
      <4>2. AtCallback(r)' \subseteq AtCallback(r) \union {j}
        BY <2>1 DEF AtCallback
      <4> QED
        BY <1>t, <3>1, <4>1, <4>2 DEF Accounted
    <3>3. CASE ~ (r = run[j].of /\ run[j].task = "make")
      <4>1. executions'[r] = executions[r]
        BY <1>1, <1>t, <2>2, <3>3 DEF ToCallback
      <4>2. AtCallback(r)' \subseteq AtCallback(r)
        BY <2>1, <3>3 DEF AtCallback
      <4> QED
        BY <1>t, <3>1, <4>1, <4>2 DEF Accounted
    <3>4. CASE r = run[j].of /\ run[j].task = "make" /\ result[r].kind = "none"
      BY <1>t, <3>4, AtWork
    <3> QED
      BY <2>3, <3>2, <3>3, <3>4
  <2> QED
    BY <1>k, <2>3, NoticeKept
<1>2. CASE StartRun(j)
  <2>1. PICK job : run' = [run EXCEPT ![j] = job] /\ job.at # "callback"
    <3>1. CASE run' = [run EXCEPT ![j] = Past(j, "settled")]
      <4>1. Past(j, "settled").at # "callback"
        BY <1>p
      <4> QED
        BY <3>1, <4>1
    <3>2. CASE run' = [run EXCEPT ![j] = [run[j] EXCEPT !.at = "body", !.status = "RUNNING"]]
      <4>1. [run[j] EXCEPT !.at = "body", !.status = "RUNNING"].at # "callback"
        BY <1>t DEF JobRun
      <4> QED
        BY <3>2, <4>1
    <3> QED
      BY <1>2, <3>1, <3>2 DEF StartRun, Spend
  <2>2. UNCHANGED <<lateCalls, executions>>
    BY <1>2 DEF StartRun
  <2> QED
    BY <2>1, <2>2, <1>q
<1>3. CASE Makes(j)
  BY <1>1, <1>3 DEF Makes
<1>4. CASE BodyRaises(j)
  <2>1. CASE ToCallback(j, "failed")
    BY <1>1, <1>4, <2>1 DEF BodyRaises
  <2>2. CASE FailRun(j) /\ UNCHANGED executions
    <3>1. Settled(j, "FAILED").at # "callback"
      BY <1>s
    <3> QED
      BY <1>4, <2>2, <3>1, <1>q DEF BodyRaises, FailRun
  <2> QED
    BY <1>4, <2>1, <2>2 DEF BodyRaises
\* A call is given up: what was owed to the callback is owed to the call.
<1>5. ASSUME run[j].at = "callback", executions' = executions,
             lateCalls' \in {lateCalls, lateCalls \union {Call(j)}},
             NEW job, run' = [run EXCEPT ![j] = job],
             \/ job.at # "callback"
             \/ /\ job.at = "callback" /\ job.of = run[j].of /\ job.task = run[j].task
                /\ ~ (run[j].task = "make" /\ result[run[j].of].kind \in Announced)
      PROVE  RowNoticeInv'
  <2>1. run'[j] = job /\ \A i \in Runs \ {j} : run'[i] = run[i]
    BY <1>t, <1>5
  <2>2. result[run[j].of].kind # "none" /\ Call(j) = <<run[j].of, run[j].task, run[j].verdict>>
    BY <1>t, AtWork DEF Call
  <2>3. ASSUME NEW r \in Results, result[r].kind \in Announced \union {"none"}
        PROVE  Accounted(r, j, Call(j))
    <3>1. CASE r = run[j].of /\ run[j].task = "make"
      <4>1. AtCallback(r)' \subseteq AtCallback(r) \ {j} /\ j \in AtCallback(r)
        BY <1>5, <2>1, <2>2, <2>3, <3>1 DEF AtCallback
      <4>2. LateMakes(r)' \subseteq LateMakes(r) \union {Call(j)}
        BY <1>5 DEF LateMakes
      <4> QED
        BY <1>t, <1>5, <4>1, <4>2 DEF Accounted
    <3>2. CASE ~ (r = run[j].of /\ run[j].task = "make")
      <4>1. AtCallback(r)' \subseteq AtCallback(r)
        BY <1>5, <2>1, <3>2 DEF AtCallback
      <4>2. LateMakes(r)' \subseteq LateMakes(r)
        BY <1>5, <2>2, <3>2 DEF LateMakes
      <4> QED
        BY <1>t, <1>5, <4>1, <4>2 DEF Accounted
    <3> QED
      BY <3>1, <3>2
  <2> QED
    BY <1>k, <2>3, NoticeKept
<1>6. CASE CallTimesOut(j)
  <2>1. /\ run[j].at = "callback" /\ executions' = executions
        /\ lateCalls' \in {lateCalls, lateCalls \union {Call(j)}}
    BY <1>6 DEF CallTimesOut
  <2>2. CASE FailRun(j)
    <3>1. Settled(j, "FAILED").at # "callback"
      BY <1>s
    <3> QED
      BY <2>1, <2>2, <3>1, <1>5 DEF FailRun
  <2>3. CASE Spend(j, "report")
    <3>1. Past(j, "report").at # "callback"
      BY <1>p
    <3> QED
      BY <2>1, <2>3, <3>1, <1>5 DEF Spend
  <2>4. CASE /\ run[j].tries + 1 < Attempts(run[j].task, result[run[j].of].kind)
             /\ run' = [run EXCEPT ![j].tries = @ + 1]
    <3> DEFINE job == [run[j] EXCEPT !.tries = @ + 1]
    <3>1. /\ run' = [run EXCEPT ![j] = job]
          /\ job.at = "callback" /\ job.of = run[j].of /\ job.task = run[j].task
      BY <1>t, <2>1, <2>4 DEF JobRun
    <3>2. ~ (run[j].task = "make" /\ result[run[j].of].kind \in Announced)
      <4>1. run[j].tries \in Nat
        BY <1>t, CallTriesAssumption DEF JobRun
      <4> QED
        BY <2>4, <4>1 DEF Attempts, Announced, MustReport
    <3> HIDE DEF job
    <3> QED
      BY <2>1, <3>1, <3>2, <1>5
  <2> QED
    BY <1>6, <2>2, <2>3, <2>4 DEF CallTimesOut
<1>7. CASE ReportsOutcome(j)
  <2>1. PICK s : run' = [run EXCEPT ![j] = Settled(j, s)]
    BY <1>7 DEF ReportsOutcome
  <2>2. Settled(j, s).at # "callback"
    BY <1>s
  <2> QED
    BY <1>7, <2>1, <2>2, <1>q DEF ReportsOutcome
<1>8. CASE WorkerDies(j)
  <2> DEFINE job == [Past(j, "queued") EXCEPT !.verdict = "none"]
  <2>1. run' = [run EXCEPT ![j] = job] /\ job.at = "queued" /\ executions' = executions
    <3>1. Past(j, "queued") \in JobRun
      BY RunRecords
    <3> QED
      BY <1>8, <1>p, <3>1 DEF WorkerDies, JobRun
  <2> HIDE DEF job
  <2>2. CASE run[j].at = "callback"
    BY <1>8, <2>1, <2>2, <1>5 DEF WorkerDies
  <2>3. CASE run[j].at # "callback"
    BY <1>8, <2>1, <2>3, <1>q DEF WorkerDies
  <2> QED
    BY <2>2, <2>3
<1> QED
  BY <1>2, <1>3, <1>4, <1>6, <1>7, <1>8

LEMMA CallbacksKeepNotices ==
    ASSUME RowsInv, RowsInv', RowNoticeInv, (\E j \in Runs : Calls(j)) \/ LateCallLands
    PROVE  RowNoticeInv'
<1>t. run \in [Runs -> JobRun] /\ told \in [Results -> Nat] /\ executions \in [Results -> Nat]
  BY DEF RowsInv, ResTypeOK
\* What the handler tells is a row's one notice, and no job is at its callback anew.
<1>r. ASSUME NEW r \in Results, NEW task, NEW verdict, NEW runs \in [Runs -> JobRun],
             CallShape(<<r, task, verdict>>), Recording(r, task, verdict, runs),
             \A i \in Runs : \/ runs[i] = run[i]
                             \/ run[i].at = "callback" /\ runs[i] = Past(i, "report")
      PROVE  /\ \A q \in Results : result'[q].kind = result[q].kind
             /\ \A q \in Results \ {r} : told'[q] = told[q]
             /\ \/ told'[r] = told[r] /\ (task = "poster" \/ result[r].kind \notin Announced)
                \/ told'[r] = told[r] + 1 /\ task = "make"
             /\ \A i \in Runs : run'[i].at = "callback" => run'[i] = run[i] /\ runs[i] = run[i]
  <2>1. \A i \in Runs : run'[i] = runs[i] \/ run'[i] = PosterRun(r)
    BY <1>r, RecordingKeepsRuns
  <2>2. PosterRun(r).at = "queued" /\ \A i \in Runs : Past(i, "report").at = "report"
    BY <1>t DEF PosterRun, NoJobRun, Past, JobRun
  <2>3. \A i \in Runs : run'[i].at = "callback" => run'[i] = run[i] /\ runs[i] = run[i]
    BY <1>r, <2>1, <2>2
  <2>4. /\ \A q \in Results : result'[q].kind = result[q].kind
        /\ \A q \in Results \ {r} : told'[q] = told[q]
        /\ \/ told'[r] = told[r] /\ (task = "poster" \/ result[r].kind \notin Announced)
           \/ told'[r] = told[r] + 1 /\ task = "make"
    BY <1>r, <1>t DEF Recording
  <2> QED
    BY <2>3, <2>4
<1>1. ASSUME NEW j \in Runs, Calls(j) PROVE RowNoticeInv'
  <2> DEFINE r == run[j].of
             task == run[j].task
             verdict == run[j].verdict
             runs == [run EXCEPT ![j] = Past(j, "report")]
  <2>1. /\ r \in Results /\ runs \in [Runs -> JobRun]
        /\ CallShape(<<r, task, verdict>>) /\ Recording(r, task, verdict, runs)
    BY <1>1, CallsRecord
  <2>2. /\ UNCHANGED <<lateCalls, executions>> /\ run[j].at = "callback"
        /\ \A i \in Runs : \/ runs[i] = run[i]
                           \/ run[i].at = "callback" /\ runs[i] = Past(i, "report")
    BY <1>1, <1>t DEF Calls
  <2>3. runs[j] # run[j]
    BY <1>t, <2>2 DEF Past, JobRun
  <2> HIDE DEF verdict, runs
  <2>4. /\ \A q \in Results : result'[q].kind = result[q].kind
        /\ \A q \in Results \ {r} : told'[q] = told[q]
        /\ \/ told'[r] = told[r] /\ (task = "poster" \/ result[r].kind \notin Announced)
           \/ told'[r] = told[r] + 1 /\ task = "make"
        /\ \A i \in Runs : run'[i].at = "callback" => run'[i] = run[i] /\ runs[i] = run[i]
    BY <2>1, <2>2, <1>r
  <2>5. result[r].kind # "none"
    BY <2>1, RecordingKeepsRows
  <2>6. ASSUME NEW q \in Results, result[q].kind \in Announced \union {"none"}
        PROVE  Accounted(q, j, 0)
    <3>1. LateMakes(q)' = LateMakes(q)
      BY <2>2 DEF LateMakes
    <3>2. AtCallback(q)' \subseteq AtCallback(q) \ {j}
      BY <2>3, <2>4 DEF AtCallback
    <3>3. q = r /\ task = "make" => j \in AtCallback(q)
      BY <2>2 DEF AtCallback
    <3>4. told'[q] = told[q] \/ (told'[q] = told[q] + 1 /\ q = r /\ task = "make")
      BY <2>4
    <3> QED
      BY <2>2, <3>1, <3>2, <3>3, <3>4 DEF Accounted
  <2> QED
    BY <2>4, <2>6, NoticeKept
<1>2. CASE LateCallLands
  <2>1. PICK r \in Results, task \in {"make", "poster"}, verdict \in {"done", "failed"} :
           /\ <<r, task, verdict>> \in lateCalls
           /\ CallShape(<<r, task, verdict>>)
           /\ lateCalls' = lateCalls \ {<<r, task, verdict>>}
           /\ Recording(r, task, verdict, run)
           /\ UNCHANGED <<excused, executions, mishaps>>
    BY <1>2, LateCallsRecord
  <2>2. /\ \A q \in Results : result'[q].kind = result[q].kind
        /\ \A q \in Results \ {r} : told'[q] = told[q]
        /\ \/ told'[r] = told[r] /\ (task = "poster" \/ result[r].kind \notin Announced)
           \/ told'[r] = told[r] + 1 /\ task = "make"
        /\ \A i \in Runs : run'[i].at = "callback" => run'[i] = run[i]
    BY <2>1, <1>t, <1>r
  <2>3. ASSUME NEW q \in Results PROVE Accounted(q, 0, <<r, task, verdict>>)
    <3>1. AtCallback(q)' \subseteq AtCallback(q)
      BY <2>2 DEF AtCallback
    <3>2. LateMakes(q)' \subseteq LateMakes(q) \ {<<r, task, verdict>>}
      BY <2>1 DEF LateMakes
    <3>3. q = r /\ task = "make" => <<r, task, verdict>> \in LateMakes(q)
      BY <2>1 DEF LateMakes
    <3>4. told'[q] = told[q] \/ (told'[q] = told[q] + 1 /\ q = r /\ task = "make")
      BY <2>2
    <3> QED
      BY <2>1, <3>1, <3>2, <3>3, <3>4 DEF Accounted
  <2> QED
    BY <2>2, <2>3, NoticeKept
<1> QED
  BY <1>1, <1>2

LEMMA StepsKeepNotices == RowsInv /\ RowNoticeInv /\ [ResNext]_resVars => RowNoticeInv'
<1> SUFFICES ASSUME RowsInv, RowNoticeInv, [ResNext]_resVars PROVE RowNoticeInv'
  OBVIOUS
<1>r. RowsInv'
  BY StepsKeepRows
<1>1. CASE UNCHANGED resVars
  BY <1>1 DEF resVars, RowNoticeInv, LateMakes, AtCallback
<1> QED
  BY <1>r, <1>1, RequestsKeepNotices, WorkersKeepNotices, CallbacksKeepNotices DEF ResNext

\* However calls are delayed and runs repeated, the user is told of a row at
\* most once for each time its task was carried out (internal.routes.ts).
THEOREM OneNoticePerExecution == ResSpec => []NoticePerExecution
<1>1. ResInit => RowNoticeInv
  BY DEF ResInit, RowNoticeInv, NoResultRow, Announced
<1>2. RowsInv /\ RowNoticeInv => NoticePerExecution
  <2> SUFFICES ASSUME RowsInv, RowNoticeInv, NEW r \in Results, result[r].kind \in Announced
               PROVE  told[r] + Cardinality(LateMakes(r)) <= executions[r]
    BY DEF NoticePerExecution, LateMakes
  <2>1. /\ told[r] \in Nat /\ executions[r] \in Nat
        /\ Cardinality(LateMakes(r)) \in Nat /\ Cardinality(AtCallback(r)) \in Nat
    BY CallsFinite DEF RowsInv, ResTypeOK
  <2>2. told[r] + Cardinality(LateMakes(r)) + Cardinality(AtCallback(r)) <= executions[r]
    BY DEF RowNoticeInv
  <2> QED
    BY <2>1, <2>2
<1> QED
  BY <1>1, <1>2, InitRows, StepsKeepRows, StepsKeepNotices, PTL DEF ResSpec
-----------------------------------------------------------------------------
\* No step takes a concluded row back, the request's own last write excepted
\* and the failure of a publication that runs again.
LEMMA StepsKeepConclusions ==
    ASSUME RowsInv, [ResNext]_resVars, NEW r \in Results,
           result[r].status = "done", result'[r].status # "done"
    PROVE  \/ result[r].at = "trailing"
           \/ result[r].kind = "publish" /\ result'[r].status = "failed"
<1>t. result \in [Results -> ResultRow] /\ result[r] \in ResultRow /\ RowShape(r)
  BY DEF RowsInv, ResTypeOK
<1>1. result' # result /\ ~ UNCHANGED resVars
  BY DEF resVars
\* A row is created absent, and an upload is never done.
<1>2. ASSUME NEW q \in Results, CreateResult(q) PROVE FALSE
  <2>1. result[q].at = "none" /\ \A p \in Results \ {q} : result'[p] = result[p]
    BY <1>2, <1>t DEF CreateResult, RequestTranscription, RequestVoiceover, RequestExport,
       RequestPublish, ImportFromUrl, CloneVoice, InitUpload, Created, NextResult
  <2> QED
    BY <2>1, <1>t DEF RowShape
<1>3. ASSUME NEW q \in Results, NEW j \in Runs, EnqueueReuses(q, j) PROVE FALSE
  <2>1. result' = [result EXCEPT ![q].at = "trailing"]
    BY <1>3 DEF EnqueueReuses
  <2> QED
    BY <2>1, <1>t DEF ResultRow
<1>4. ASSUME NEW q \in Results, NEW j \in Runs, EnqueueCreates(q, j) PROVE FALSE
  <2>1. \E k, pc : result' = [result EXCEPT ![q].run = k, ![q].at = pc]
    BY <1>4 DEF EnqueueCreates
  <2> QED
    BY <2>1, <1>t DEF ResultRow
<1>5. ASSUME NEW q \in Results, NEW j \in Runs, CompleteUpload(q, j) PROVE FALSE
  <2>1. result[q].kind = "upload" /\ \A p \in Results \ {q} : result'[p] = result[p]
    BY <1>5, <1>t DEF CompleteUpload
  <2> QED
    BY <2>1, <1>t DEF RowShape
<1>6. ASSUME NEW q \in Results, WriteAfterwards(q) PROVE result[r].at = "trailing"
  <2>1. result[q].at = "trailing" /\ \A p \in Results \ {q} : result'[p] = result[p]
    BY <1>6, <1>t DEF WriteAfterwards
  <2> QED
    BY <2>1
\* A handler concludes its row; only a publication's answer is a failure.
<1>r. ASSUME NEW q \in Results, NEW task, NEW verdict, NEW runs, Recording(q, task, verdict, runs)
      PROVE  result[r].kind = "publish" /\ result'[r].status = "failed"
  BY <1>r DEF Recording
<1>7. ASSUME NEW j \in Runs, Calls(j)
      PROVE  result[r].kind = "publish" /\ result'[r].status = "failed"
  BY <1>7, <1>r, CallsRecord
<1>8. CASE LateCallLands
  BY <1>8, <1>r, LateCallsRecord
\* Retries and the rest of a worker's run leave the rows alone.
<1>9. ASSUME NEW i \in Runs, NEW j \in Runs, RetryRun(i, j) PROVE FALSE
  BY <1>9, <1>1 DEF RetryRun
<1>10. ASSUME NEW j \in Runs,
              \/ StartRun(j) \/ Makes(j) \/ BodyRaises(j)
              \/ CallTimesOut(j) \/ ReportsOutcome(j) \/ WorkerDies(j)
       PROVE  FALSE
  BY <1>10, <1>1 DEF StartRun, Makes, BodyRaises, CallTimesOut, ReportsOutcome, WorkerDies
<1> QED
  BY <1>1, <1>2, <1>3, <1>4, <1>5, <1>6, <1>7, <1>8, <1>9, <1>10 DEF ResNext

\* Once its request has returned, no late callback, second run, retry or poster
\* takes a completed row back, but for a publication that runs again and fails
\* (every done handler of internal.routes.ts; publish.py).
THEOREM ConcludedStaysConcluded == ResSpec => DoneStaysDone
<1>1. ASSUME RowsInv, [ResNext]_resVars
      PROVE  \A r \in Results :
                (result[r].status = "done" /\ result'[r].status # "done")
                    => \/ result[r].at = "trailing"
                       \/ result[r].kind = "publish" /\ result'[r].status = "failed"
  BY <1>1, StepsKeepConclusions
<1> QED
  BY <1>1, InitRows, StepsKeepRows, PTL DEF ResSpec, DoneStaysDone
=============================================================================
