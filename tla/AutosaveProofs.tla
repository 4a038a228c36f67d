--------------------------- MODULE AutosaveProofs ---------------------------
(***************************************************************************)
(* Proofs about EditorStore and Autosave, for any timeline, any number of  *)
(* edits and any number of requests lost or refused: what the store, the   *)
(* snapshot, the request under way and the rows have to do with each       *)
(* other.                                                                  *)
(***************************************************************************)
EXTENDS Autosave, LoopLemmas

-----------------------------------------------------------------------------
(* What is where.                                                          *)

OwnIds(t) == {t.clips[j].id : j \in DOMAIN t.clips}
HasTrack(ts, t) == \E k \in DOMAIN ts : ts[k].id = t
Holds(ts, t, c) == \E k \in DOMAIN ts : ts[k].id = t /\ c \in OwnIds(ts[k])
IdsOf(ts) == TrackIdsOf(ts) \union ClipIdsOf(ts)

\* What a redo may put back.
Created == {cmd.clip.id : cmd \in {c \in Range(past) \union Range(future) : c.type = "CREATE"}}

FirstTracks == TrackIdsOf(AllTracks)
FirstClips == ClipIdsOf(AllTracks)
Home(c) == AllTracks[HolderAt(AllTracks, c)].id
FirstKind(t) == AllTracks[TrackAt(AllTracks, t)].kind

-----------------------------------------------------------------------------
(* Types.                                                                  *)

Command ==
    [type : {"MOVE"}, clip : Nat, from : Nat, to : Nat]
    \union [type : {"TRIM"}, clip : Nat, edge : {"start", "end"}, delta : Int]
    \union [type : {"CREATE", "DELETE"}, track : Nat, clip : Clip]
    \union [type : {"CREATE_TRACK", "DELETE_TRACK"}, track : Track]
Timeline == [title : 0..1, tracks : Seq(Track)]
TrackRow == [kind : Kinds, index : Nat, muted : BOOLEAN]
ClipRow == [track : Nat, start : Nat, in : Nat, out : Int, len : Nat \ {0}]
Request == [op : Range(Operations), id : Nat, at : Nat]
Move == [id : Nat, set : UNION {[D -> Nat] : D \in SUBSET {"track", "start"}}]
Flight == [busy : BOOLEAN, project : Projects, todo : SUBSET Request, moves : SUBSET Move,
           next : Timeline]
Page == [project : Projects, title : 0..1, tracks : Seq(Track)]

StoreInv ==
    /\ tracks \in Seq(Track) /\ title \in 0..1
    /\ past \in Seq(Command) /\ future \in Seq(Command)
    /\ Len(past) + Len(future) <= edits /\ Len(past) + Len(future) <= HistoryLimit
    /\ dirty \in BOOLEAN
    /\ fresh \in Nat \ {0} /\ edits \in 0..MaxEdits
    /\ \A id \in InitialIds : id < fresh

TypedRows(r, n) ==
    /\ r = [tracks |-> r.tracks, clips |-> r.clips]
    /\ r.tracks \in [DOMAIN r.tracks -> TrackRow] /\ r.clips \in [DOMAIN r.clips -> ClipRow]
    /\ \A c \in DOMAIN r.clips : r.clips[c].track \in DOMAIN r.tracks
    /\ DOMAIN r.tracks \subseteq 1..(n - 1) /\ DOMAIN r.clips \subseteq 1..(n - 1)

\* The projects of tracks, and the unique index.
Owned(o, n) ==
    /\ o \in [DOMAIN o -> Projects] /\ DOMAIN o \subseteq 1..(n - 1)
    /\ \A t \in FirstTracks : t \in DOMAIN o /\ o[t] = ProjectOf[t]
Indexed(r, o) ==
    \A t, u \in DOMAIN r.tracks :
        (/\ o[t] = o[u]
         /\ r.tracks[t].kind = r.tracks[u].kind /\ r.tracks[t].index = r.tracks[u].index) => t = u
RowsInv ==
    /\ TypedRows(rows, fresh) /\ Owned(owner, fresh)
    /\ DOMAIN rows.tracks \subseteq DOMAIN owner /\ Indexed(rows, owner)
    /\ rowTitle \in [Projects -> 0..1]

\* What a request reads of the snapshot it saves is there.
Sendable(q) ==
    /\ q.op \in {"trackAdded", "trackUpdated"} =>
          q.at \in DOMAIN flight.next.tracks /\ flight.next.tracks[q.at].id = q.id
    /\ q.op \in {"clipCreated", "clipUpdated"} => q.id \in ClipIdsOf(flight.next.tracks)
    /\ q.op = "clipCreated" => q.at = 0

SaveInv ==
    /\ snapshot \in Timeline /\ flight \in Flight
    /\ \A q \in flight.todo : Sendable(q)
    /\ ~flight.busy => flight = Grounded
    /\ project \in Projects /\ rendered \subseteq Page
    /\ timer \subseteq Projects /\ mounted \in BOOLEAN
    /\ status \in {"idle", "saving", "saved", "error"}
    /\ faults \in Nat /\ leaves \in Nat /\ faults + leaves <= MaxTrouble
    /\ missed \in BOOLEAN /\ crossed \in BOOLEAN /\ stale \in BOOLEAN
    /\ flight.busy /\ ~crossed => flight.project = project

TypeInv == StoreInv /\ RowsInv /\ SaveInv

-----------------------------------------------------------------------------
(* What the projects began with stays where it was.                        *)

\* Ids the user has not taken out.
Kept == InitialIds \ removed

AtHome(ts) ==
    /\ \A k \in DOMAIN ts : ts[k].id \in InitialIds =>
          /\ ts[k].id \in FirstTracks /\ ts[k].kind = FirstKind(ts[k].id)
          /\ \A m \in DOMAIN ts : ts[m].id = ts[k].id => m = k
    /\ \A t \in TrackIdsOf(ts), c \in ClipIdsOf(ts) \cap InitialIds :
          Holds(ts, t, c) => c \in FirstClips /\ t = Home(c)

\* A track that is shown is shown with its clips.
Whole(ts) == \A c \in Kept \cap FirstClips : Home(c) \in TrackIdsOf(ts) => c \in ClipIdsOf(ts)

RowsAtHome(r) ==
    /\ \A t \in DOMAIN r.tracks \cap InitialIds : t \in FirstTracks /\ r.tracks[t].kind = FirstKind(t)
    /\ \A c \in DOMAIN r.clips \cap InitialIds : c \in FirstClips /\ r.clips[c].track = Home(c)

\* What is about to be saved has what is shown, and no request takes what is kept.
FlightKeeps ==
    /\ InitialIds \cap IdsOf(tracks) \subseteq IdsOf(flight.next.tracks)
    /\ Kept \cap IdsOf(flight.next.tracks) \subseteq IdsOf(tracks)
    /\ \A q \in flight.todo :
          /\ q.op \in {"trackAdded", "clipCreated"} => q.id \notin InitialIds
          /\ q.op \in {"trackRemoved", "clipRemoved"} => q.id \notin Kept
    /\ \A u \in flight.moves : u.id \in InitialIds => "track" \notin DOMAIN u.set

RowsKeep(r) ==
    /\ RowsAtHome(r)
    /\ Kept \cap FirstTracks \subseteq DOMAIN r.tracks
    /\ Kept \cap FirstClips \subseteq DOMAIN r.clips

Keeps ==
    /\ AtHome(tracks) /\ AtHome(snapshot.tracks) /\ AtHome(flight.next.tracks)
    /\ Whole(tracks)
    /\ \A page \in rendered : AtHome(page.tracks) /\ Whole(page.tracks)
    /\ InitialIds \cap IdsOf(tracks) \subseteq IdsOf(snapshot.tracks)
    /\ Kept \cap IdsOf(snapshot.tracks) \subseteq IdsOf(tracks)
    /\ RowsKeep(rows)
    /\ \A c \in Kept \cap FirstClips : Home(c) \in Kept
    /\ Created \cap InitialIds = {}
    /\ flight.busy => FlightKeeps
KeptInv == ~crossed => Keeps

-----------------------------------------------------------------------------
(* What is stored.                                                         *)

RowPart(a) == PartIn(rows, rowTitle[project], a)

\* The request q is about part a.
Regards(q, a, moves) ==
    CASE q.op = "title" -> a[1] = Undefined
      [] q.op = "reorder" -> a[1] # Undefined /\ a[1] \in {u.id : u \in moves} /\ a[2] = 2
      [] q.op = "clipUpdated" -> q.id = a[1] /\ a[1] # Undefined /\ a[2] = 1
      [] OTHER -> q.id = a[1] /\ a[1] # Undefined

Store == [title |-> title, tracks |-> tracks]

\* Where a part is stored as the snapshot has it, or why it is not.
Accounted ==
    \A a \in PartsOf(project) :
        \/ Excused(a) \/ RowPart(a) = PartOf(snapshot, a) \/ a \in tried
        \/ flight.busy /\ a \in Differing(snapshot, flight.next)
\* What is not stored yet has its request.
Underway ==
    /\ flight.todo \subseteq Diff(snapshot, flight.next)
    /\ flight.moves = Moves(snapshot, flight.next)
    /\ \A a \in PartsOf(project) :
          \/ Excused(a) \/ RowPart(a) = PartOf(flight.next, a)
          \/ \E q \in flight.todo : Regards(q, a, flight.moves)
    /\ dirty /\ status = "saving"
PartsStored ==
    /\ Accounted
    /\ flight.busy => Underway
    /\ status = "saved" => tried = {}
    /\ flight.busy /\ ~missed => Differing(flight.next, Store) = {}
    /\ ~flight.busy /\ ~dirty /\ ~missed => Differing(snapshot, Store) = {}
PartsInv == ~crossed /\ ~stale => PartsStored

-----------------------------------------------------------------------------
(* Which clip a row was created from.                                      *)

RowsMade == DOMAIN rows.clips \intersect DOMAIN origin
\* Never again in the store.
Gone(o) == o \notin ClipIdsOf(tracks) /\ o \notin Created /\ o < fresh
\* In the snapshot, or in the one to be.
Saving(o) == IF flight.busy THEN o \in ClipIdsOf(flight.next.tracks)
             ELSE o \in ClipIdsOf(snapshot.tracks)
\* The rows that pages were or are to be loaded with.
Known == DOMAIN rows.clips \union UNION {ClipIdsOf(page.tracks) : page \in rendered}

OriginBound ==
    \A i \in DOMAIN origin : i \in Nat /\ i < fresh /\ origin[i] \in Nat /\ origin[i] < fresh
BoundInv ==
    /\ \A id \in IdsOf(tracks) : id < fresh
    /\ \A id \in IdsOf(snapshot.tracks) : id < fresh
    /\ \A id \in IdsOf(flight.next.tracks) : id < fresh
    /\ \A page \in rendered : \A id \in IdsOf(page.tracks) : id < fresh
    /\ \A id \in Created : id < fresh
    /\ \A q \in flight.todo : q.id < fresh
    /\ OriginBound

OneOrigin ==
    /\ \A i, j \in RowsMade : origin[i] = origin[j] /\ origin[i] \notin removed => i = j
    /\ \A i \in RowsMade : origin[i] \notin removed =>
          /\ origin[i] \notin Known
          /\ Gone(origin[i]) \/ (origin[i] \in ClipIdsOf(tracks) /\ Saving(origin[i]))
    /\ \A q \in flight.todo : q.op = "clipCreated" /\ q.id \notin removed =>
          q.id \notin Known /\ \A i \in RowsMade : origin[i] # q.id
    /\ \A x \in Known : x \in ClipIdsOf(tracks) /\ x \notin removed => Saving(x)
    /\ Created \intersect Known = {}
    /\ flight.busy => ClipIdsOf(flight.next.tracks) \subseteq ClipIdsOf(tracks) \union removed
OriginInv == (faults = 0 /\ ~crossed) => OneOrigin

-----------------------------------------------------------------------------
(* Timelines.                                                              *)

LEMMA TracksTyped ==
    ASSUME NEW ts \in Seq(Track)
    PROVE  /\ Len(ts) \in Nat /\ DOMAIN ts = 1..Len(ts)
           /\ \A k \in DOMAIN ts :
                 /\ ts[k] \in Track /\ ts[k].id \in Nat /\ ts[k].kind \in Kinds
                 /\ ts[k].index \in Nat /\ ts[k].muted \in BOOLEAN /\ ts[k].clips \in Seq(Clip)
<1>1. Len(ts) \in Nat /\ DOMAIN ts = 1..Len(ts) /\ \A k \in 1..Len(ts) : ts[k] \in Track
  OBVIOUS
<1> QED
  BY <1>1 DEF Track

LEMMA ClipsTyped ==
    ASSUME NEW s \in Seq(Clip)
    PROVE  /\ Len(s) \in Nat /\ DOMAIN s = 1..Len(s)
           /\ \A j \in DOMAIN s :
                 /\ s[j] \in Clip /\ s[j].id \in Nat /\ s[j].start \in Nat /\ s[j].in \in Nat
                 /\ s[j].out \in Int /\ s[j].len \in Nat \ {0}
<1>1. Len(s) \in Nat /\ DOMAIN s = 1..Len(s) /\ \A j \in 1..Len(s) : s[j] \in Clip
  OBVIOUS
<1> QED
  BY <1>1 DEF Clip

LEMMA WhoHasWhat ==
    ASSUME NEW ts
    PROVE  /\ \A t : t \in TrackIdsOf(ts) <=> HasTrack(ts, t)
           /\ \A c : c \in ClipIdsOf(ts) <=> \E k \in DOMAIN ts : c \in OwnIds(ts[k])
           /\ \A c : c \in ClipIdsOf(ts) <=> \E t \in TrackIdsOf(ts) : Holds(ts, t, c)
<1>1. \A t : t \in TrackIdsOf(ts) <=> HasTrack(ts, t)
  BY DEF TrackIdsOf, HasTrack
<1>2. \A c : c \in ClipIdsOf(ts) <=> \E k \in DOMAIN ts : c \in OwnIds(ts[k])
  BY DEF ClipIdsOf, ClipsOf, Range, OwnIds
<1>3. \A c : c \in ClipIdsOf(ts) <=> \E t \in TrackIdsOf(ts) : Holds(ts, t, c)
  BY <1>1, <1>2 DEF Holds, HasTrack
<1> QED
  BY <1>1, <1>2, <1>3

LEMMA IdsAreNumbers ==
    ASSUME NEW ts \in Seq(Track)
    PROVE  TrackIdsOf(ts) \subseteq Nat /\ ClipIdsOf(ts) \subseteq Nat
<1>1. \A t \in TrackIdsOf(ts) : t \in Nat
  BY TracksTyped, WhoHasWhat DEF HasTrack
<1>2. \A c \in ClipIdsOf(ts) : c \in Nat
  <2> SUFFICES ASSUME NEW c \in ClipIdsOf(ts) PROVE c \in Nat
    OBVIOUS
  <2>1. PICK k \in DOMAIN ts : c \in OwnIds(ts[k])
    BY WhoHasWhat
  <2>2. ts[k].clips \in Seq(Clip)
    BY TracksTyped
  <2> QED
    BY <2>1, <2>2, ClipsTyped DEF OwnIds
<1> QED
  BY <1>1, <1>2

\* The tracks and the ids the projects begin with.
LEMMA AllTracksAre ==
    /\ AllTracks \in Seq(Track)
    /\ InitialTracks \in Seq(Track)
    /\ \A k \in DOMAIN InitialTracks : k \in DOMAIN AllTracks /\ AllTracks[k] = InitialTracks[k]
    /\ InitialIds = FirstTracks \union FirstClips /\ FirstTracks \intersect FirstClips = {}
    /\ \A id \in InitialIds : id \in Nat \ {0} /\ id < FirstId
<1>1. InitialTracks \in Seq(Track) /\ OtherTracks \in Seq(Track)
  BY InitialAssumption, ProjectsAssumption
<1>2. AllTracks \in Seq(Track) /\ Len(AllTracks) = Len(InitialTracks) + Len(OtherTracks)
  BY <1>1 DEF AllTracks
<1>3. \A k \in 1..Len(InitialTracks) : k \in 1..Len(AllTracks) /\ AllTracks[k] = InitialTracks[k]
  BY <1>1, <1>2 DEF AllTracks
<1>4. InitialIds \subseteq 1..(FirstId - 1)
  BY AllTracksAssumption DEF InitialIds
<1>5. \A id \in InitialIds : id \in Nat \ {0} /\ id < FirstId
  BY <1>4, InitialAssumption
<1> QED
  BY <1>1, <1>2, <1>3, <1>5, AllTracksAssumption DEF InitialIds, FirstTracks, FirstClips

LEMMA Widened ==
    ASSUME NEW m \in Nat, NEW n \in Nat, m <= n
    PROVE  1..(m - 1) \subseteq 1..(n - 1)
  OBVIOUS

LEMMA TrackIsFound ==
    ASSUME NEW ts \in Seq(Track), NEW id \in TrackIdsOf(ts)
    PROVE  TrackAt(ts, id) \in DOMAIN ts /\ ts[TrackAt(ts, id)].id = id
<1> DEFINE S == {k \in DOMAIN ts : ts[k].id = id}
           n == Len(ts)
<1>1. n \in Nat /\ S \in SUBSET (0..n) /\ S # {}
  BY TracksTyped, WhoHasWhat DEF HasTrack
<1>2. TrackAt(ts, id) = Max(S)
  BY DEF TrackAt
<1>3. Max(S) \in S
  <2> HIDE DEF S, n
  <2> QED
    BY <1>1, GreatestTurn
<1> QED
  BY <1>2, <1>3

LEMMA ClipIsFound ==
    ASSUME NEW ts \in Seq(Track), NEW id \in ClipIdsOf(ts)
    PROVE  LET t == ts[HolderAt(ts, id)]
           IN  /\ HolderAt(ts, id) \in DOMAIN ts /\ t.clips \in Seq(Clip)
               /\ LastClip(t.clips, id) \in Range(t.clips) /\ LastClip(t.clips, id).id = id
<1> DEFINE S == {k \in DOMAIN ts : \E c \in Range(ts[k].clips) : c.id = id}
           n == Len(ts)
           h == HolderAt(ts, id)
           clips == ts[h].clips
           P == {j \in DOMAIN clips : clips[j].id = id}
           m == Len(clips)
<1>1. n \in Nat /\ S \in SUBSET (0..n)
  BY TracksTyped
<1>2. S # {}
  BY WhoHasWhat DEF OwnIds, Range
<1>3. h \in S
  <2>1. h = Max(S)
    BY DEF HolderAt
  <2> HIDE DEF S, n, h
  <2> QED
    BY <1>1, <1>2, <2>1, GreatestTurn
<1>4. h \in DOMAIN ts /\ clips \in Seq(Clip)
  BY <1>3, TracksTyped
<1>5. m \in Nat /\ P \in SUBSET (0..m) /\ P # {}
  <2> HIDE DEF h
  <2>1. \E c \in Range(clips) : c.id = id
    BY <1>3
  <2> QED
    BY <1>4, <2>1, ClipsTyped DEF Range
<1>6. LastClip(clips, id) = clips[Max(P)] /\ Max(P) \in P
  <2>1. LastClip(clips, id) = clips[Max(P)]
    BY DEF LastClip
  <2>2. Max(P) \in P
    <3> HIDE DEF P, m
    <3> QED
      BY <1>5, GreatestTurn
  <2> QED
    BY <2>1, <2>2
<1> QED
  BY <1>4, <1>6 DEF Range

\* What a row made of a timeline says is what one of its tracks or clips says.
LEMMA RowsTyped ==
    ASSUME NEW ts \in Seq(Track)
    PROVE  LET r == RowsOf(ts)
           IN  /\ DOMAIN r.tracks = TrackIdsOf(ts) /\ DOMAIN r.clips = ClipIdsOf(ts)
               /\ \A t \in TrackIdsOf(ts) :
                     /\ r.tracks[t] \in TrackRow
                     /\ \E k \in DOMAIN ts : ts[k].id = t /\ r.tracks[t] = Attributes(ts[k])
               /\ \A c \in ClipIdsOf(ts) :
                     /\ r.clips[c] \in ClipRow /\ Holds(ts, r.clips[c].track, c)
                     /\ \E k \in DOMAIN ts : \E j \in DOMAIN ts[k].clips :
                           /\ ts[k].clips[j].id = c
                           /\ r.clips[c] = RowOf(ts[k].clips[j], ts[k].id)
<1> DEFINE r == RowsOf(ts)
           T(id) == Attributes(ts[TrackAt(ts, id)])
           C(id) == RowOf(LastClip(ts[HolderAt(ts, id)].clips, id), ts[HolderAt(ts, id)].id)
<1>1. /\ r.tracks = [id \in TrackIdsOf(ts) |-> T(id)]
      /\ r.clips = [id \in ClipIdsOf(ts) |-> C(id)]
  BY DEF RowsOf
<1>2. ASSUME NEW t \in TrackIdsOf(ts)
      PROVE  T(t) \in TrackRow /\ \E k \in DOMAIN ts : ts[k].id = t /\ T(t) = Attributes(ts[k])
  <2>1. TrackAt(ts, t) \in DOMAIN ts /\ ts[TrackAt(ts, t)].id = t
    BY TrackIsFound
  <2> QED
    BY <2>1, TracksTyped DEF Attributes, TrackRow
<1>3. ASSUME NEW c \in ClipIdsOf(ts)
      PROVE  /\ C(c) \in ClipRow /\ Holds(ts, C(c).track, c)
             /\ \E k \in DOMAIN ts : \E j \in DOMAIN ts[k].clips :
                   ts[k].clips[j].id = c /\ C(c) = RowOf(ts[k].clips[j], ts[k].id)
  <2> DEFINE h == HolderAt(ts, c)
             x == LastClip(ts[h].clips, c)
  <2>1. h \in DOMAIN ts /\ ts[h].clips \in Seq(Clip) /\ x \in Range(ts[h].clips) /\ x.id = c
    BY ClipIsFound
  <2>2. C(c) = RowOf(x, ts[h].id)
    OBVIOUS
  <2> HIDE DEF h, x
  <2>3. PICK j \in DOMAIN ts[h].clips : x = ts[h].clips[j]
    BY <2>1 DEF Range
  <2>4. x \in Clip /\ ts[h].id \in Nat
    BY <2>1, <2>3, ClipsTyped, TracksTyped
  <2>5. C(c) \in ClipRow /\ C(c).track = ts[h].id
    BY <2>2, <2>4 DEF RowOf, ClipRow, Clip
  <2>6. c \in OwnIds(ts[h])
    BY <2>1, <2>3 DEF OwnIds
  <2>7. ts[h].clips[j].id = c /\ C(c) = RowOf(ts[h].clips[j], ts[h].id)
    BY <2>1, <2>2, <2>3
  <2> QED
    BY <2>1, <2>5, <2>6, <2>7 DEF Holds
<1> HIDE DEF T, C
<1> QED
  BY <1>1, <1>2, <1>3

-----------------------------------------------------------------------------
(* What edits are made of.                                                 *)

ClipIds(clips) == {clips[j].id : j \in DOMAIN clips}
SameTrack(t, u) == t.id = u.id /\ t.kind = u.kind

\* The tracks of ts with other clips: of the ids they had or of X.
Revised(us, ts, X) ==
    /\ us \in Seq(Track) /\ Len(us) = Len(ts)
    /\ \A k \in 1..Len(ts) :
          SameTrack(us[k], ts[k]) /\ OwnIds(us[k]) \subseteq OwnIds(ts[k]) \union X

\* us comes of ts: every track is a revised one of ts or has a new id, of N, and
\* no clips; and of one track there are not two.
ComesOf(us, ts, X, N) ==
    /\ us \in Seq(Track)
    /\ \A k \in DOMAIN us :
          \/ us[k].id \in N /\ OwnIds(us[k]) = {}
          \/ \E a \in DOMAIN ts :
                SameTrack(us[k], ts[a]) /\ OwnIds(us[k]) \subseteq OwnIds(ts[a]) \union X
    /\ \A k, m \in DOMAIN us : k # m /\ us[k].id = us[m].id =>
          \/ us[k].id \in N
          \/ \E a, b \in DOMAIN ts : a # b /\ ts[a].id = us[k].id /\ ts[b].id = us[k].id

LEMMA RevisedComesOf ==
    ASSUME NEW ts \in Seq(Track), NEW us, NEW X, Revised(us, ts, X)
    PROVE  ComesOf(us, ts, X, {})
<1>1. us \in Seq(Track) /\ DOMAIN us = 1..Len(ts) /\ DOMAIN ts = 1..Len(ts)
  BY TracksTyped DEF Revised
<1>2. \A k \in DOMAIN us : \E a \in DOMAIN ts :
          SameTrack(us[k], ts[a]) /\ OwnIds(us[k]) \subseteq OwnIds(ts[a]) \union X
  BY <1>1 DEF Revised
<1>3. \A k, m \in DOMAIN us : k # m /\ us[k].id = us[m].id =>
          \E a, b \in DOMAIN ts : a # b /\ ts[a].id = us[k].id /\ ts[b].id = us[k].id
  <2> SUFFICES ASSUME NEW k \in DOMAIN us, NEW m \in DOMAIN us, k # m, us[k].id = us[m].id
               PROVE  \E a, b \in DOMAIN ts : a # b /\ ts[a].id = us[k].id /\ ts[b].id = us[k].id
    OBVIOUS
  <2>1. ts[k].id = us[k].id /\ ts[m].id = us[k].id
    BY <1>1 DEF Revised, SameTrack
  <2> QED
    BY <1>1, <2>1
<1> QED
  BY <1>1, <1>2, <1>3 DEF ComesOf

LEMMA RevisedTwice ==
    ASSUME NEW ts \in Seq(Track), NEW us, NEW vs, NEW X, Revised(us, ts, X), Revised(vs, us, X)
    PROVE  Revised(vs, ts, X)
<1>1. vs \in Seq(Track) /\ Len(vs) = Len(ts)
  BY DEF Revised
<1>2. ASSUME NEW k \in 1..Len(ts)
      PROVE  SameTrack(vs[k], ts[k]) /\ OwnIds(vs[k]) \subseteq OwnIds(ts[k]) \union X
  <2>1. SameTrack(us[k], ts[k]) /\ OwnIds(us[k]) \subseteq OwnIds(ts[k]) \union X
    BY DEF Revised
  <2>2. SameTrack(vs[k], us[k]) /\ OwnIds(vs[k]) \subseteq OwnIds(us[k]) \union X
    BY DEF Revised
  <2>3. SameTrack(vs[k], ts[k])
    BY <2>1, <2>2 DEF SameTrack
  <2> QED
    BY <2>1, <2>2, <2>3
<1> QED
  BY <1>1, <1>2 DEF Revised

LEMMA NotRevised ==
    ASSUME NEW ts \in Seq(Track), NEW X
    PROVE  Revised(ts, ts, X)
  BY DEF Revised, SameTrack

LEMMA WithClips ==
    ASSUME NEW t \in Track, NEW clips \in Seq(Clip)
    PROVE  /\ [t EXCEPT !.clips = clips] \in Track
           /\ SameTrack([t EXCEPT !.clips = clips], t)
           /\ OwnIds([t EXCEPT !.clips = clips]) = ClipIds(clips)
<1>1. /\ t = [id |-> t.id, kind |-> t.kind, index |-> t.index, muted |-> t.muted, clips |-> t.clips]
      /\ t.id \in Nat /\ t.kind \in Kinds /\ t.index \in Nat /\ t.muted \in BOOLEAN
  BY DEF Track
<1> DEFINE u == [t EXCEPT !.clips = clips]
<1>2. u = [id |-> t.id, kind |-> t.kind, index |-> t.index, muted |-> t.muted, clips |-> clips]
  BY <1>1
<1>3. u \in Track /\ SameTrack(u, t) /\ u.clips = clips
  BY <1>1, <1>2 DEF Track, SameTrack
<1> QED
  BY <1>3 DEF OwnIds, ClipIds

\* A track for each of ts, what becomes of it being written in `new`.
LEMMA EachRevised ==
    ASSUME NEW ts \in Seq(Track), NEW X, NEW us, DOMAIN us = DOMAIN ts,
           us = [k \in DOMAIN ts |-> us[k]],
           \A k \in DOMAIN ts : /\ us[k] \in Track /\ SameTrack(us[k], ts[k])
                                /\ OwnIds(us[k]) \subseteq OwnIds(ts[k]) \union X
    PROVE  Revised(us, ts, X)
<1>1. DOMAIN ts = 1..Len(ts) /\ Len(ts) \in Nat
  BY TracksTyped
<1>2. us \in Seq(Track) /\ Len(us) = Len(ts)
  BY <1>1
<1> QED
  BY <1>1, <1>2 DEF Revised

\* Clips are replaced one for one.
Mapped(ts, id, F) ==
    [k \in DOMAIN ts |-> [ts[k] EXCEPT !.clips =
        [j \in DOMAIN @ |-> IF @[j].id = id THEN F[@[j]] ELSE @[j]]]]

LEMMA ClipsRevised ==
    ASSUME NEW ts \in Seq(Track), NEW id, NEW F,
           \A c \in Clip : c.id = id => F[c] \in Clip /\ F[c].id = c.id
    PROVE  Revised(Mapped(ts, id, F), ts, {})
<1> DEFINE us == Mapped(ts, id, F)
<1> DEFINE new(k) == [j \in DOMAIN ts[k].clips |->
                        IF ts[k].clips[j].id = id THEN F[ts[k].clips[j]] ELSE ts[k].clips[j]]
<1>1. us = [k \in DOMAIN ts |-> [ts[k] EXCEPT !.clips = new(k)]]
  BY DEF Mapped
<1> HIDE DEF us
<1>2. ASSUME NEW k \in DOMAIN ts
      PROVE  new(k) \in Seq(Clip) /\ ClipIds(new(k)) \subseteq OwnIds(ts[k])
  <2> DEFINE old == ts[k].clips
  <2>1. old \in Seq(Clip)
    BY TracksTyped
  <2>2. /\ Len(old) \in Nat /\ DOMAIN old = 1..Len(old)
        /\ \A j \in DOMAIN old : old[j] \in Clip
    BY <2>1, ClipsTyped
  <2>3. new(k) = [j \in DOMAIN old |-> IF old[j].id = id THEN F[old[j]] ELSE old[j]]
    OBVIOUS
  <2> HIDE DEF new, old
  <2>4. \A j \in DOMAIN old : new(k)[j] \in Clip /\ new(k)[j].id = old[j].id
    BY <2>2, <2>3
  <2>5. new(k) \in Seq(Clip) /\ DOMAIN new(k) = DOMAIN old
    BY <2>2, <2>3, <2>4
  <2>6. ClipIds(new(k)) \subseteq {old[j].id : j \in DOMAIN old}
    BY <2>4, <2>5 DEF ClipIds
  <2> QED
    BY <2>5, <2>6 DEF old, OwnIds
<1> HIDE DEF new
<1>3. ASSUME NEW k \in DOMAIN ts
      PROVE  /\ us[k] \in Track /\ SameTrack(us[k], ts[k])
             /\ OwnIds(us[k]) \subseteq OwnIds(ts[k]) \union {}
  <2>1. us[k] = [ts[k] EXCEPT !.clips = new(k)]
    BY <1>1
  <2>2. ts[k] \in Track
    BY TracksTyped
  <2>3. new(k) \in Seq(Clip) /\ ClipIds(new(k)) \subseteq OwnIds(ts[k])
    BY <1>2
  <2>4. us[k] \in Track /\ SameTrack(us[k], ts[k]) /\ OwnIds(us[k]) = ClipIds(new(k))
    BY <2>1, <2>2, <2>3, WithClips
  <2> QED
    BY <2>3, <2>4
<1>4. DOMAIN us = DOMAIN ts /\ us = [k \in DOMAIN ts |-> us[k]]
  BY <1>1
<1>5. Revised(us, ts, {})
  BY <1>3, <1>4, EachRevised
<1> QED
  BY <1>5 DEF us

\* One track gets other clips: those of X among them.
NewClips(new, ts, X) ==
    \A k \in DOMAIN ts : new[k] \in Seq(Clip) /\ ClipIds(new[k]) \subseteq OwnIds(ts[k]) \union X
WithNew(ts, id, new) ==
    [k \in DOMAIN ts |-> IF ts[k].id = id THEN [ts[k] EXCEPT !.clips = new[k]] ELSE ts[k]]

LEMMA TrackRevised ==
    ASSUME NEW ts \in Seq(Track), NEW id, NEW X, NEW new, NewClips(new, ts, X)
    PROVE  Revised(WithNew(ts, id, new), ts, X)
<1> DEFINE us == WithNew(ts, id, new)
<1>0. us = [k \in DOMAIN ts |-> IF ts[k].id = id THEN [ts[k] EXCEPT !.clips = new[k]] ELSE ts[k]]
  BY DEF WithNew
<1> HIDE DEF us
<1>1. ASSUME NEW k \in DOMAIN ts
      PROVE  /\ us[k] \in Track /\ SameTrack(us[k], ts[k])
             /\ OwnIds(us[k]) \subseteq OwnIds(ts[k]) \union X
  <2>1. ts[k] \in Track
    BY TracksTyped
  <2>2. CASE ts[k].id = id
    <3>1. us[k] = [ts[k] EXCEPT !.clips = new[k]]
      BY <1>0, <2>2
    <3>2. new[k] \in Seq(Clip) /\ ClipIds(new[k]) \subseteq OwnIds(ts[k]) \union X
      BY DEF NewClips
    <3>3. us[k] \in Track /\ SameTrack(us[k], ts[k]) /\ OwnIds(us[k]) = ClipIds(new[k])
      BY <2>1, <3>1, <3>2, WithClips
    <3> QED
      BY <3>2, <3>3
  <2>3. CASE ts[k].id # id
    BY <1>0, <2>1, <2>3 DEF SameTrack
  <2> QED
    BY <2>2, <2>3
<1>2. DOMAIN us = DOMAIN ts /\ us = [k \in DOMAIN ts |-> us[k]]
  BY <1>0
<1>3. Revised(us, ts, X)
  BY <1>1, <1>2, EachRevised
<1> QED
  BY <1>3 DEF us

-----------------------------------------------------------------------------
(* Loops of the store.                                                     *)

LEMMA WithoutTurns ==
    ASSUME NEW S, NEW s \in Seq(S), NEW id
    PROVE  \E kept :
              /\ kept[0] = <<>> /\ Without(s, id) = kept[Len(s)]
              /\ \A i \in 1..Len(s) :
                    kept[i] = IF s[i].id = id THEN kept[i - 1] ELSE Append(kept[i - 1], s[i])
<1> DEFINE n == Len(s)
           V == Seq(S)
           G == [p \in (1..n) \X V |-> IF s[p[1]].id = id THEN p[2] ELSE Append(p[2], s[p[1]])]
           Then(f, i) == IF s[i].id = id THEN f[i - 1] ELSE Append(f[i - 1], s[i])
           Eq(f) == f = [i \in 0..n |-> IF i = 0 THEN <<>> ELSE Then(f, i)]
<1>1. n \in Nat /\ \A i \in 1..n : s[i] \in S
  OBVIOUS
<1>2. <<>> \in V /\ \A i \in 1..n : \A v \in V : G[<<i, v>>] \in V
  BY <1>1
<1>3. PICK f \in Loops(n, V, <<>>, G) : TRUE
  <2> HIDE DEF n, V, G
  <2> QED
    BY <1>1, <1>2, Looped
<1>4. f \in [0..n -> V] /\ f[0] = <<>> /\ \A i \in 1..n : f[i] = G[<<i, f[i - 1]>>]
  BY DEF Loops
<1>5. \A i \in 1..n : f[i] = Then(f, i)
  <2> SUFFICES ASSUME NEW i \in 1..n PROVE f[i] = Then(f, i)
    OBVIOUS
  <2>0. i - 1 \in 0..n
    BY <1>1
  <2>1. f[i - 1] \in V /\ f[i] = G[<<i, f[i - 1]>>]
    <3> HIDE DEF V, G, n
    <3> QED
      BY <1>4, <2>0
  <2> HIDE DEF V
  <2> QED
    BY <2>1
<1>6. Eq(f)
  <2>1. \A i \in 0..n : i # 0 => i \in 1..n
    BY <1>1
  <2> HIDE DEF Then, n, V
  <2> QED
    BY <1>4, <1>5, <2>1
<1> DEFINE kept == CHOOSE g : Eq(g)
<1>7. Eq(kept)
  <2> HIDE DEF Eq
  <2> QED
    BY <1>6
<1>8. Without(s, id) = kept[n]
  BY DEF Without
<1> HIDE DEF kept
<1>9. kept[0] = <<>> /\ \A i \in 1..n : kept[i] = Then(kept, i)
  <2>1. 0 \in 0..n /\ \A i \in 1..n : i \in 0..n /\ i # 0
    BY <1>1
  <2> HIDE DEF Then, n
  <2> QED
    BY <1>7, <2>1
<1> QED
  BY <1>8, <1>9

\* What filter() keeps comes from different places.
LEMMA WithoutComes ==
    ASSUME NEW S, NEW s \in Seq(S), NEW id
    PROVE  /\ Without(s, id) \in Seq(S)
           /\ \E from \in [1..Len(Without(s, id)) -> 1..Len(s)] :
                 /\ \A k \in 1..Len(Without(s, id)) :
                       Without(s, id)[k] = s[from[k]] /\ s[from[k]].id # id
                 /\ \A k, m \in 1..Len(Without(s, id)) : k # m => from[k] # from[m]
<1> DEFINE n == Len(s)
           Comes(w, i) == \E from \in [1..Len(w) -> 1..i] :
                             /\ \A k \in 1..Len(w) : w[k] = s[from[k]] /\ s[from[k]].id # id
                             /\ \A k, m \in 1..Len(w) : k # m => from[k] # from[m]
<1>1. PICK kept :
         /\ kept[0] = <<>> /\ Without(s, id) = kept[n]
         /\ \A i \in 1..n :
               kept[i] = IF s[i].id = id THEN kept[i - 1] ELSE Append(kept[i - 1], s[i])
  BY WithoutTurns
<1>2. n \in Nat /\ \A i \in 1..n : s[i] \in S
  OBVIOUS
<1> DEFINE P == {i \in 0..n : kept[i] \in Seq(S) /\ Comes(kept[i], i)}
<1>3. 0 \in P
  <2>1. <<>> \in Seq(S) /\ Len(<<>>) = 0 /\ 1..0 = {}
    OBVIOUS
  <2>2. [k \in 1..0 |-> 0] \in [1..Len(<<>>) -> 1..0]
    BY <2>1
  <2>3. Comes(<<>>, 0)
    BY <2>1, <2>2
  <2>4. 0 \in 0..n
    BY <1>2
  <2> HIDE DEF Comes
  <2> QED
    BY <1>1, <2>1, <2>3, <2>4
<1>4. ASSUME NEW i \in 1..n, i - 1 \in P PROVE i \in P
  <2> DEFINE w == kept[i - 1]
  <2>1. w \in Seq(S) /\ Comes(w, i - 1)
    BY <1>4
  <2>2. PICK from \in [1..Len(w) -> 1..(i - 1)] :
           /\ \A k \in 1..Len(w) : w[k] = s[from[k]] /\ s[from[k]].id # id
           /\ \A k, m \in 1..Len(w) : k # m => from[k] # from[m]
    BY <2>1
  <2>3. i \in 0..n /\ s[i] \in S /\ Len(w) \in Nat
    BY <1>2, <2>1
  <2>4. CASE s[i].id = id
    <3>1. kept[i] = w
      BY <1>1, <2>4
    <3>2. from \in [1..Len(w) -> 1..i]
      OBVIOUS
    <3>3. Comes(kept[i], i)
      BY <2>2, <3>1, <3>2
    <3> QED
      BY <2>1, <2>3, <3>1, <3>3
  <2>5. CASE s[i].id # id
    <3> DEFINE v == Append(w, s[i])
               g == [k \in 1..Len(v) |-> IF k = Len(v) THEN i ELSE from[k]]
    <3>1. kept[i] = v
      BY <1>1, <2>5
    <3> HIDE DEF w
    <3>2. /\ v \in Seq(S) /\ Len(v) = Len(w) + 1 /\ v[Len(v)] = s[i]
          /\ \A k \in 1..Len(w) : v[k] = w[k]
      BY <2>1, <2>3
    <3> HIDE DEF v
    <3>3. /\ \A k \in 1..Len(v) : k = Len(v) \/ (k \in 1..Len(w) /\ k # Len(v))
          /\ Len(v) \in 1..Len(v)
      BY <2>3, <3>2
    <3>4. g[Len(v)] = i /\ \A k \in 1..Len(w) : g[k] = from[k] /\ from[k] \in 1..(i - 1)
      BY <2>2, <2>3, <3>2
    <3>5. g \in [1..Len(v) -> 1..i]
      BY <2>2, <2>3, <3>2, <3>3
    <3> HIDE DEF g
    <3>6. \A k \in 1..Len(v) : v[k] = s[g[k]] /\ s[g[k]].id # id
      BY <2>2, <2>5, <3>2, <3>3, <3>4
    <3>7. \A k, m \in 1..Len(v) : k # m => g[k] # g[m]
      <4>1. \A k \in 1..Len(w) : g[k] # i
        BY <3>4
      <4> QED
        BY <2>2, <3>3, <3>4, <4>1
    <3>8. Comes(v, i)
      BY <3>5, <3>6, <3>7
    <3> QED
      BY <2>3, <3>1, <3>2, <3>8
  <2> QED
    BY <2>4, <2>5
<1> HIDE DEF P
<1>5. 0..n \subseteq P
  BY <1>2, <1>3, <1>4, EveryTurn
<1>6. n \in P
  BY <1>2, <1>5
<1> QED
  BY <1>1, <1>6 DEF P

LEMMA TracksWithout ==
    ASSUME NEW ts \in Seq(Track), NEW id
    PROVE  ComesOf(Without(ts, id), ts, {}, {})
<1> DEFINE us == Without(ts, id)
<1>1. us \in Seq(Track) /\ DOMAIN us = 1..Len(us) /\ DOMAIN ts = 1..Len(ts)
  BY WithoutComes, TracksTyped
<1>2. PICK from \in [1..Len(us) -> 1..Len(ts)] :
         /\ \A k \in 1..Len(us) : us[k] = ts[from[k]]
         /\ \A k, m \in 1..Len(us) : k # m => from[k] # from[m]
  BY WithoutComes
<1> HIDE DEF us
<1>3. \A k \in DOMAIN us : from[k] \in DOMAIN ts /\ us[k] = ts[from[k]]
  BY <1>1, <1>2
<1>4. \A k \in DOMAIN us : \E a \in DOMAIN ts :
          SameTrack(us[k], ts[a]) /\ OwnIds(us[k]) \subseteq OwnIds(ts[a]) \union {}
  BY <1>3 DEF SameTrack
<1>5. \A k, m \in DOMAIN us : k # m /\ us[k].id = us[m].id =>
          \E a, b \in DOMAIN ts : a # b /\ ts[a].id = us[k].id /\ ts[b].id = us[k].id
  BY <1>1, <1>2, <1>3
<1>6. ComesOf(us, ts, {}, {})
  BY <1>1, <1>4, <1>5 DEF ComesOf
<1> QED
  BY <1>6 DEF us

LEMMA ClipsWithout ==
    ASSUME NEW clips \in Seq(Clip), NEW id
    PROVE  /\ Without(clips, id) \in Seq(Clip)
           /\ ClipIds(Without(clips, id)) \subseteq ClipIds(clips)
<1> DEFINE w == Without(clips, id)
<1>1. w \in Seq(Clip) /\ DOMAIN w = 1..Len(w) /\ DOMAIN clips = 1..Len(clips)
  BY WithoutComes, ClipsTyped
<1>2. PICK from \in [1..Len(w) -> 1..Len(clips)] : \A k \in 1..Len(w) : w[k] = clips[from[k]]
  BY WithoutComes
<1> HIDE DEF w
<1>3. ClipIds(w) \subseteq ClipIds(clips)
  BY <1>1, <1>2 DEF ClipIds
<1> QED
  BY <1>1, <1>3 DEF w

SplitLoop(done, clips, c, p) ==
    /\ done[0] = <<>>
    /\ \A j \in 1..Len(clips) :
          done[j] = done[j - 1] \o (IF clips[j].id = c.id THEN Halves(c, p) ELSE <<clips[j]>>)

LEMMA SplitTurns ==
    ASSUME NEW clips \in Seq(Clip), NEW c, NEW p, Halves(c, p) \in Seq(Clip)
    PROVE  \E done : SplitLoop(done, clips, c, p) /\ Split(clips, c, p) = done[Len(clips)]
<1> DEFINE n == Len(clips)
           V == Seq(Clip)
           one(j) == IF clips[j].id = c.id THEN Halves(c, p) ELSE <<clips[j]>>
           G == [q \in (1..n) \X V |-> q[2] \o one(q[1])]
           Then(f, j) == f[j - 1] \o one(j)
           Eq(f) == f = [j \in 0..n |-> IF j = 0 THEN <<>> ELSE Then(f, j)]
<1>1. n \in Nat /\ \A j \in 1..n : one(j) \in V
  <2>1. n \in Nat /\ \A j \in 1..n : clips[j] \in Clip
    OBVIOUS
  <2>2. \A x \in Clip : <<x>> \in V
    OBVIOUS
  <2> QED
    BY <2>1, <2>2
<1> HIDE DEF one
<1>2. <<>> \in V /\ \A j \in 1..n : \A v \in V : G[<<j, v>>] \in V
  <2>1. \A v, x \in V : v \o x \in V
    OBVIOUS
  <2>2. \A j \in 1..n : \A v \in V : G[<<j, v>>] = v \o one(j)
    OBVIOUS
  <2> HIDE DEF V, G
  <2>3. <<>> \in V
    BY DEF V
  <2> QED
    BY <1>1, <2>1, <2>2, <2>3
<1>3. PICK f \in Loops(n, V, <<>>, G) : TRUE
  <2> HIDE DEF n, V, G
  <2> QED
    BY <1>1, <1>2, Looped
<1>4. f \in [0..n -> V] /\ f[0] = <<>> /\ \A j \in 1..n : f[j] = G[<<j, f[j - 1]>>]
  BY DEF Loops
<1>5. \A j \in 1..n : f[j] = Then(f, j)
  <2> SUFFICES ASSUME NEW j \in 1..n PROVE f[j] = Then(f, j)
    OBVIOUS
  <2>0. j - 1 \in 0..n
    BY <1>1
  <2>1. f[j - 1] \in V /\ f[j] = G[<<j, f[j - 1]>>]
    <3> HIDE DEF V, G, n
    <3> QED
      BY <1>4, <2>0
  <2> HIDE DEF V
  <2> QED
    BY <2>1
<1>6. Eq(f)
  <2>1. \A j \in 0..n : j # 0 => j \in 1..n
    BY <1>1
  <2> HIDE DEF Then, n, V
  <2> QED
    BY <1>4, <1>5, <2>1
<1> DEFINE done == CHOOSE g : Eq(g)
<1>7. Eq(done)
  <2> HIDE DEF Eq
  <2> QED
    BY <1>6
<1>8. Split(clips, c, p) = done[n]
  BY DEF Split, one
<1> HIDE DEF done
<1>9. done[0] = <<>> /\ \A j \in 1..n : done[j] = Then(done, j)
  <2>1. 0 \in 0..n /\ \A j \in 1..n : j \in 0..n /\ j # 0
    BY <1>1
  <2> HIDE DEF Then, n
  <2> QED
    BY <1>7, <2>1
<1>10. SplitLoop(done, clips, c, p)
  BY <1>9 DEF SplitLoop, one
<1> QED
  BY <1>8, <1>10

LEMMA HalvesTyped ==
    ASSUME NEW c \in Clip, NEW p \in Nat, Under(p, c), fresh \in Nat
    PROVE  /\ Halves(c, p) \in Seq(Clip)
           /\ \A k \in 1..Len(Halves(c, p)) : Halves(c, p)[k].id \in {c.id, fresh + c.id}
<1> DEFINE x == p - c.start
           y == c.len - x
           out == c.in + x
           in == c.in + x
           id == fresh + c.id
           l == [c EXCEPT !.len = x, !.out = out]
           r == [c EXCEPT !.id = id, !.start = p, !.len = y, !.in = in]
<1>1. /\ c.id \in Nat /\ c.start \in Nat /\ c.in \in Nat /\ c.out \in Int /\ c.len \in Nat \ {0}
  BY DEF Clip
<1>2. x \in Nat \ {0} /\ y \in Nat \ {0} /\ out \in Int /\ in \in Nat /\ id \in Nat
  BY <1>1 DEF Under
<1>3. Halves(c, p) = <<l, r>>
  BY DEF Halves
<1> HIDE DEF x, y, out, in, id
<1>4. l \in Clip /\ l.id = c.id /\ r \in Clip /\ r.id = id
  BY <1>2 DEF Clip
<1> HIDE DEF l, r
<1> QED
  BY <1>3, <1>4 DEF id

LEMMA SplitComes ==
    ASSUME NEW clips \in Seq(Clip), NEW c \in Clip, NEW p \in Nat, Under(p, c), fresh \in Nat
    PROVE  /\ Split(clips, c, p) \in Seq(Clip)
           /\ ClipIds(Split(clips, c, p)) \subseteq ClipIds(clips) \union {fresh + c.id}
<1> DEFINE n == Len(clips)
           ids == ClipIds(clips) \union {fresh + c.id}
           Good(w) == w \in Seq(Clip) /\ \A k \in 1..Len(w) : w[k].id \in ids
           h == Halves(c, p)
<1>1. h \in Seq(Clip) /\ \A k \in 1..Len(h) : h[k].id \in {c.id, fresh + c.id}
  BY HalvesTyped
<1>2. PICK done :
         /\ done[0] = <<>> /\ Split(clips, c, p) = done[n]
         /\ \A j \in 1..n : done[j] = done[j - 1] \o (IF clips[j].id = c.id THEN h ELSE <<clips[j]>>)
  <2>1. PICK done : SplitLoop(done, clips, c, p) /\ Split(clips, c, p) = done[Len(clips)]
    <3>1. Halves(c, p) \in Seq(Clip)
      BY <1>1
    <3> QED
      BY <3>1, SplitTurns
  <2> QED
    BY <2>1 DEF SplitLoop
<1>3. n \in Nat /\ \A j \in 1..n : clips[j] \in Clip /\ clips[j].id \in ids
  BY ClipsTyped DEF ClipIds
<1>4. ASSUME NEW v, NEW w, Good(v), Good(w) PROVE Good(v \o w)
  <2>1. /\ v \o w \in Seq(Clip) /\ Len(v \o w) = Len(v) + Len(w)
        /\ \A k \in 1..(Len(v) + Len(w)) :
              (v \o w)[k] = IF k <= Len(v) THEN v[k] ELSE w[k - Len(v)]
    BY <1>4
  <2>2. Len(v) \in Nat /\ Len(w) \in Nat
    BY <1>4
  <2>3. ASSUME NEW k \in 1..(Len(v) + Len(w)) PROVE (v \o w)[k].id \in ids
    <3>1. CASE k <= Len(v)
      <4>1. k \in 1..Len(v) /\ (v \o w)[k] = v[k]
        BY <2>1, <2>2, <3>1
      <4> QED
        BY <1>4, <4>1
    <3>2. CASE ~ (k <= Len(v))
      <4>1. k - Len(v) \in 1..Len(w) /\ (v \o w)[k] = w[k - Len(v)]
        BY <2>1, <2>2, <3>2
      <4> QED
        BY <1>4, <4>1
    <3> QED
      BY <3>1, <3>2
  <2> QED
    BY <2>1, <2>3
<1>5. ASSUME NEW j \in 1..n PROVE Good(IF clips[j].id = c.id THEN h ELSE <<clips[j]>>)
  <2>1. CASE clips[j].id = c.id
    <3>1. c.id \in ids
      BY <1>3, <2>1
    <3> HIDE DEF h
    <3> QED
      BY <1>1, <2>1, <3>1
  <2>2. CASE clips[j].id # c.id
    <3> DEFINE x == clips[j]
    <3>1. x \in Clip /\ x.id \in ids
      BY <1>3
    <3> HIDE DEF x, ids
    <3>2. Good(<<x>>)
      BY <3>1
    <3> QED
      BY <2>2, <3>2 DEF x
  <2> QED
    BY <2>1, <2>2
<1> DEFINE P == {j \in 0..n : Good(done[j])}
<1>6. 0 \in P
  <2>1. Good(<<>>) /\ 0 \in 0..n
    BY <1>3
  <2> HIDE DEF Good, n
  <2> QED
    BY <1>2, <2>1
<1>7. ASSUME NEW j \in 1..n, j - 1 \in P PROVE j \in P
  <2>1. Good(done[j - 1])
    BY <1>7
  <2>2. j \in 0..n
    OBVIOUS
  <2> HIDE DEF Good
  <2>3. Good(done[j])
    BY <1>2, <1>4, <1>5, <2>1
  <2> QED
    BY <2>2, <2>3
<1>8. n \in P
  <2> HIDE DEF P
  <2>1. 0..n \subseteq P
    BY <1>3, <1>6, <1>7, EveryTurn
  <2> QED
    BY <1>3, <2>1
<1>9. Good(Split(clips, c, p))
  <2> HIDE DEF Good
  <2> QED
    BY <1>2, <1>8
<1>10. ClipIds(Split(clips, c, p)) \subseteq ids
  <2> DEFINE w == Split(clips, c, p)
  <2>1. DOMAIN w = 1..Len(w)
    BY <1>9, ClipsTyped
  <2> HIDE DEF w, ids
  <2>2. \A k \in 1..Len(w) : w[k].id \in ids
    BY <1>9 DEF w
  <2>3. ClipIds(w) \subseteq ids
    BY <2>1, <2>2 DEF ClipIds
  <2> QED
    BY <2>3 DEF w
<1> QED
  BY <1>9, <1>10

-----------------------------------------------------------------------------
(* The playhead.                                                           *)

\* The ids right halves get.
HalfIds == fresh..(2 * fresh - 1)
Sound(ts) == \A c \in ClipIdsOf(ts) : c < fresh
SoundTrack(t) == \A c \in OwnIds(t) : c < fresh

LEMMA CutRevises ==
    ASSUME NEW ts \in Seq(Track), NEW id, NEW c \in Clip, NEW p \in Nat, Under(p, c),
           fresh \in Nat, c.id < fresh,
           NEW us, us = [k \in DOMAIN ts |-> IF ts[k].id = id
                                             THEN [ts[k] EXCEPT !.clips = Split(@, c, p)] ELSE ts[k]]
    PROVE  Revised(us, ts, HalfIds)
<1> DEFINE new == [k \in DOMAIN ts |-> Split(ts[k].clips, c, p)]
<1>1. fresh + c.id \in HalfIds
  BY DEF HalfIds, Clip
<1>2. ASSUME NEW k \in DOMAIN ts
      PROVE  new[k] \in Seq(Clip) /\ ClipIds(new[k]) \subseteq OwnIds(ts[k]) \union HalfIds
  <2>1. ts[k].clips \in Seq(Clip)
    BY TracksTyped
  <2>2. /\ Split(ts[k].clips, c, p) \in Seq(Clip)
        /\ ClipIds(Split(ts[k].clips, c, p)) \subseteq ClipIds(ts[k].clips) \union {fresh + c.id}
    BY <2>1, SplitComes
  <2>3. ClipIds(ts[k].clips) = OwnIds(ts[k])
    BY DEF ClipIds, OwnIds
  <2> QED
    BY <1>1, <2>2, <2>3
<1>3. us = WithNew(ts, id, new)
  BY DEF WithNew
<1>4. NewClips(new, ts, HalfIds)
  BY <1>2 DEF NewClips
<1> HIDE DEF new
<1> QED
  BY <1>3, <1>4, TrackRevised

LEMMA SplitTrackRevises ==
    ASSUME NEW ts \in Seq(Track), NEW t \in Track, NEW p \in Nat, fresh \in Nat, SoundTrack(t)
    PROVE  Revised(SplitTrack(ts, t, p), ts, HalfIds)
<1> DEFINE n == Len(t.clips)
           V == {us \in Seq(Track) : Revised(us, ts, HalfIds)}
           cut(v, j) == [k \in DOMAIN v |-> IF v[k].id = t.id
                           THEN [v[k] EXCEPT !.clips = Split(@, t.clips[j], p)] ELSE v[k]]
           turn(v, j) == IF Under(p, t.clips[j]) THEN cut(v, j) ELSE v
           G == [q \in (1..n) \X V |-> turn(q[2], q[1])]
           Then(f, j) == turn(f[j - 1], j)
           Eq(f) == f = [j \in 0..n |-> IF j = 0 THEN ts ELSE Then(f, j)]
<1>1. n \in Nat /\ \A j \in 1..n : t.clips[j] \in Clip /\ t.clips[j].id < fresh
  <2>1. t.clips \in Seq(Clip)
    BY DEF Track
  <2>2. DOMAIN t.clips = 1..n /\ n \in Nat /\ \A j \in 1..n : t.clips[j] \in Clip
    BY <2>1, ClipsTyped
  <2> QED
    BY <2>2 DEF SoundTrack, OwnIds
<1>2. ts \in V
  BY NotRevised
<1>3. ASSUME NEW j \in 1..n, NEW v \in V PROVE turn(v, j) \in V
  <2>0. v \in Seq(Track) /\ Revised(v, ts, HalfIds)
    OBVIOUS
  <2>1. CASE Under(p, t.clips[j])
    <3> DEFINE us == cut(v, j)
               c == t.clips[j]
    <3>1. us = [k \in DOMAIN v |-> IF v[k].id = t.id
                                   THEN [v[k] EXCEPT !.clips = Split(@, c, p)] ELSE v[k]]
      OBVIOUS
    <3>2. c \in Clip /\ Under(p, c) /\ c.id < fresh
      BY <1>1, <2>1
    <3> HIDE DEF us, c
    <3>3. Revised(us, v, HalfIds)
      BY <2>0, <3>1, <3>2, CutRevises
    <3>4. Revised(us, ts, HalfIds) /\ us \in Seq(Track)
      BY <2>0, <3>3, RevisedTwice DEF Revised
    <3> QED
      BY <2>1, <3>4 DEF us
  <2>2. CASE ~Under(p, t.clips[j])
    BY <2>2
  <2> QED
    BY <2>1, <2>2
<1> HIDE DEF turn
<1>4. \A j \in 1..n : \A v \in V : G[<<j, v>>] = turn(v, j)
  OBVIOUS
<1>5. PICK f \in Loops(n, V, ts, G) : TRUE
  <2> HIDE DEF n, V, G
  <2> QED
    BY <1>1, <1>2, <1>3, <1>4, Looped
<1>6. f \in [0..n -> V] /\ f[0] = ts /\ \A j \in 1..n : f[j] = G[<<j, f[j - 1]>>]
  BY DEF Loops
<1>7. \A j \in 1..n : f[j] = Then(f, j)
  <2> SUFFICES ASSUME NEW j \in 1..n PROVE f[j] = Then(f, j)
    OBVIOUS
  <2>1. j - 1 \in 0..n
    BY <1>1
  <2> HIDE DEF V, G, n
  <2> QED
    BY <1>4, <1>6, <2>1
<1>8. Eq(f)
  <2>1. \A j \in 0..n : j # 0 => j \in 1..n
    BY <1>1
  <2> HIDE DEF Then, n, V
  <2> QED
    BY <1>6, <1>7, <2>1
<1> DEFINE done == CHOOSE g : Eq(g)
<1>9. Eq(done)
  <2> HIDE DEF Eq
  <2> QED
    BY <1>8
<1>10. SplitTrack(ts, t, p) = done[n]
  BY DEF SplitTrack, turn, OnTrack
<1> HIDE DEF done
<1>11. done[0] = ts /\ \A j \in 1..n : done[j] = Then(done, j)
  <2>1. 0 \in 0..n /\ \A j \in 1..n : j \in 0..n /\ j # 0
    BY <1>1
  <2> HIDE DEF Then, n
  <2> QED
    BY <1>9, <2>1
<1> DEFINE P == {j \in 0..n : done[j] \in V}
<1>12. 0 \in P
  BY <1>1, <1>2, <1>11
<1>13. ASSUME NEW j \in 1..n, j - 1 \in P PROVE j \in P
  <2>1. done[j - 1] \in V /\ j \in 0..n
    BY <1>13
  <2> HIDE DEF V, n
  <2> QED
    BY <1>3, <1>11, <2>1
<1>14. n \in P
  <2> HIDE DEF P
  <2>1. 0..n \subseteq P
    BY <1>1, <1>12, <1>13, EveryTurn
  <2> QED
    BY <1>1, <2>1
<1> QED
  BY <1>10, <1>14

LEMMA PlayheadRevises ==
    ASSUME tracks \in Seq(Track), fresh \in Nat, Sound(tracks),
           NEW p \in Cuts, SplitClipAtPlayhead(p)
    PROVE  Revised(tracks', tracks, HalfIds)
<1> DEFINE n == Len(tracks)
           V == {us \in Seq(Track) : Revised(us, tracks, HalfIds)}
           turn(v, j) == SplitTrack(v, tracks[j], p)
           G == [q \in (1..n) \X V |-> turn(q[2], q[1])]
           Then(f, j) == turn(f[j - 1], j)
           Eq(f) == f = [j \in 0..n |-> IF j = 0 THEN tracks ELSE Then(f, j)]
<1>1. n \in Nat /\ p \in Nat /\ \A j \in 1..n : tracks[j] \in Track /\ SoundTrack(tracks[j])
  <2>1. \A j \in DOMAIN tracks : \A c \in OwnIds(tracks[j]) : c \in ClipIdsOf(tracks)
    BY WhoHasWhat
  <2> QED
    BY <2>1, TracksTyped, StoreAssumption DEF Sound, SoundTrack
<1>2. tracks \in V
  BY NotRevised
<1>3. ASSUME NEW j \in 1..n, NEW v \in V PROVE turn(v, j) \in V
  <2>1. v \in Seq(Track) /\ Revised(v, tracks, HalfIds)
    OBVIOUS
  <2>2. Revised(turn(v, j), v, HalfIds)
    BY <1>1, <2>1, SplitTrackRevises
  <2>3. turn(v, j) \in Seq(Track) /\ Revised(turn(v, j), tracks, HalfIds)
    BY <2>1, <2>2, RevisedTwice DEF Revised
  <2> QED
    BY <2>3
<1> HIDE DEF turn
<1>4. \A j \in 1..n : \A v \in V : G[<<j, v>>] = turn(v, j)
  OBVIOUS
<1>5. PICK f \in Loops(n, V, tracks, G) : TRUE
  <2> HIDE DEF n, V, G
  <2> QED
    BY <1>1, <1>2, <1>3, <1>4, Looped
<1>6. f \in [0..n -> V] /\ f[0] = tracks /\ \A j \in 1..n : f[j] = G[<<j, f[j - 1]>>]
  BY DEF Loops
<1>7. \A j \in 1..n : f[j] = Then(f, j)
  <2> SUFFICES ASSUME NEW j \in 1..n PROVE f[j] = Then(f, j)
    OBVIOUS
  <2>1. j - 1 \in 0..n
    BY <1>1
  <2> HIDE DEF V, G, n
  <2> QED
    BY <1>4, <1>6, <2>1
<1>8. Eq(f)
  <2>1. \A j \in 0..n : j # 0 => j \in 1..n
    BY <1>1
  <2> HIDE DEF Then, n, V
  <2> QED
    BY <1>6, <1>7, <2>1
<1> DEFINE done == CHOOSE g : Eq(g)
<1>9. Eq(done)
  <2> HIDE DEF Eq
  <2> QED
    BY <1>8
<1>10. tracks' = done[n]
  BY DEF SplitClipAtPlayhead, Unrecorded, Changed, turn
<1> HIDE DEF done
<1>11. done[0] = tracks /\ \A j \in 1..n : done[j] = Then(done, j)
  <2>1. 0 \in 0..n /\ \A j \in 1..n : j \in 0..n /\ j # 0
    BY <1>1
  <2> HIDE DEF Then, n
  <2> QED
    BY <1>9, <2>1
<1> DEFINE P == {j \in 0..n : done[j] \in V}
<1>12. 0 \in P
  BY <1>1, <1>2, <1>11
<1>13. ASSUME NEW j \in 1..n, j - 1 \in P PROVE j \in P
  <2>1. done[j - 1] \in V /\ j \in 0..n
    BY <1>13
  <2> HIDE DEF V, n
  <2> QED
    BY <1>3, <1>11, <2>1
<1>14. n \in P
  <2> HIDE DEF P
  <2>1. 0..n \subseteq P
    BY <1>1, <1>12, <1>13, EveryTurn
  <2> QED
    BY <1>1, <2>1
<1> QED
  BY <1>10, <1>14

-----------------------------------------------------------------------------
(* Commands.                                                               *)

LEMMA CommandsTyped ==
    ASSUME NEW cmd \in Command
    PROVE  /\ cmd.type \in {"MOVE", "TRIM", "CREATE", "DELETE", "CREATE_TRACK", "DELETE_TRACK"}
           /\ cmd.type = "MOVE" => /\ cmd.clip \in Nat /\ cmd.from \in Nat /\ cmd.to \in Nat
                                   /\ cmd \in [type : {"MOVE"}, clip : Nat, from : Nat, to : Nat]
           /\ cmd.type = "TRIM" => /\ cmd.clip \in Nat /\ cmd.edge \in {"start", "end"} /\ cmd.delta \in Int
                                   /\ cmd \in [type : {"TRIM"}, clip : Nat, edge : {"start", "end"}, delta : Int]
           /\ cmd.type \in {"CREATE", "DELETE"} =>
                /\ cmd.track \in Nat /\ cmd.clip \in Clip
                /\ cmd \in [type : {"CREATE", "DELETE"}, track : Nat, clip : Clip]
           /\ cmd.type \in {"CREATE_TRACK", "DELETE_TRACK"} =>
                cmd \in [type : {"CREATE_TRACK", "DELETE_TRACK"}, track : Track]
<1>1. CASE cmd \in [type : {"MOVE"}, clip : Nat, from : Nat, to : Nat]
  BY <1>1
<1>2. CASE cmd \in [type : {"TRIM"}, clip : Nat, edge : {"start", "end"}, delta : Int]
  BY <1>2
<1>3. CASE cmd \in [type : {"CREATE", "DELETE"}, track : Nat, clip : Clip]
  BY <1>3
<1>4. CASE cmd \in [type : {"CREATE_TRACK", "DELETE_TRACK"}, track : Track]
  BY <1>4
<1> QED
  BY <1>1, <1>2, <1>3, <1>4 DEF Command

LEMMA InvertTyped ==
    ASSUME NEW cmd \in Command
    PROVE  /\ Invert(cmd) \in Command
           /\ Invert(cmd).type \in {"CREATE", "DELETE"} <=> cmd.type \in {"CREATE", "DELETE"}
           /\ cmd.type \in {"CREATE", "DELETE"} =>
                /\ Invert(cmd).clip = cmd.clip
                /\ Invert(cmd).type = "CREATE" <=> cmd.type = "DELETE"
<1>1. CASE cmd.type = "MOVE"
  <2>1. cmd \in [type : {"MOVE"}, clip : Nat, from : Nat, to : Nat]
    BY <1>1, CommandsTyped
  <2>2. Invert(cmd) = [cmd EXCEPT !.from = cmd.to, !.to = cmd.from]
    BY <1>1 DEF Invert
  <2>3. Invert(cmd) \in [type : {"MOVE"}, clip : Nat, from : Nat, to : Nat]
    BY <2>1, <2>2
  <2> QED
    BY <1>1, <2>3 DEF Command
<1>2. CASE cmd.type = "TRIM"
  <2>1. cmd \in [type : {"TRIM"}, clip : Nat, edge : {"start", "end"}, delta : Int]
    BY <1>2, CommandsTyped
  <2>2. Invert(cmd) = [cmd EXCEPT !.delta = -@]
    BY <1>2 DEF Invert
  <2>3. Invert(cmd) \in [type : {"TRIM"}, clip : Nat, edge : {"start", "end"}, delta : Int]
    BY <2>1, <2>2
  <2> QED
    BY <1>2, <2>3 DEF Command
<1>3. CASE cmd.type \in {"CREATE", "DELETE"}
  <2>1. cmd \in [type : {"CREATE", "DELETE"}, track : Nat, clip : Clip]
    BY <1>3, CommandsTyped
  <2>2. Invert(cmd) = [cmd EXCEPT !.type = IF cmd.type = "CREATE" THEN "DELETE" ELSE "CREATE"]
    BY <1>3 DEF Invert
  <2>3. /\ Invert(cmd) \in [type : {"CREATE", "DELETE"}, track : Nat, clip : Clip]
        /\ Invert(cmd).clip = cmd.clip
        /\ Invert(cmd).type = IF cmd.type = "CREATE" THEN "DELETE" ELSE "CREATE"
    BY <2>1, <2>2
  <2> QED
    BY <1>3, <2>3 DEF Command
<1>4. CASE cmd.type \in {"CREATE_TRACK", "DELETE_TRACK"}
  <2>1. cmd \in [type : {"CREATE_TRACK", "DELETE_TRACK"}, track : Track]
    BY <1>4, CommandsTyped
  <2>2. Invert(cmd) =
           [cmd EXCEPT !.type = IF cmd.type = "CREATE_TRACK" THEN "DELETE_TRACK" ELSE "CREATE_TRACK"]
    BY <1>4 DEF Invert
  <2>3. /\ Invert(cmd) \in [type : {"CREATE_TRACK", "DELETE_TRACK"}, track : Track]
        /\ Invert(cmd).type = IF cmd.type = "CREATE_TRACK" THEN "DELETE_TRACK" ELSE "CREATE_TRACK"
    BY <2>1, <2>2
  <2> QED
    BY <1>4, <2>3 DEF Command
<1> QED
  BY <1>1, <1>2, <1>3, <1>4, CommandsTyped

\* The ids of the clips a command puts into the timeline.
Adds(cmd, kind) ==
    IF cmd.type \in {"CREATE", "DELETE"} /\ (cmd.type = "CREATE") = (kind # "undo")
    THEN {cmd.clip.id} ELSE {}

LEMMA TrimmedTyped ==
    ASSUME NEW c \in Clip, NEW edge, NEW d \in Int
    PROVE  Trimmed(c, edge, d) \in Clip /\ Trimmed(c, edge, d).id = c.id
<1>1. /\ c.id \in Nat /\ c.start \in Nat /\ c.in \in Nat /\ c.out \in Int /\ c.len \in Nat \ {0}
      /\ MinLen \in Nat \ {0}
  BY StoreAssumption DEF Clip
<1> DEFINE in == AtLeast(0, c.in + d)
           start == AtLeast(0, c.start + d)
           len == AtLeast(MinLen, c.len - d)
           out == c.out + d
           more == AtLeast(MinLen, c.len + d)
<1>2. /\ in \in Nat /\ start \in Nat /\ len \in Nat \ {0} /\ out \in Int /\ more \in Nat \ {0}
  BY <1>1 DEF AtLeast
<1>3. Trimmed(c, edge, d) = IF edge = "start"
                            THEN [c EXCEPT !.in = in, !.start = start, !.len = len]
                            ELSE [c EXCEPT !.out = out, !.len = more]
  BY DEF Trimmed
<1> HIDE DEF in, start, len, out, more
<1>4. /\ [c EXCEPT !.in = in, !.start = start, !.len = len] \in Clip
      /\ [c EXCEPT !.in = in, !.start = start, !.len = len].id = c.id
  BY <1>2 DEF Clip
<1>5. /\ [c EXCEPT !.out = out, !.len = more] \in Clip
      /\ [c EXCEPT !.out = out, !.len = more].id = c.id
  BY <1>2 DEF Clip
<1> QED
  BY <1>3, <1>4, <1>5

LEMMA AppliedRevises ==
    ASSUME NEW ts \in Seq(Track), NEW cmd \in Command, NEW kind
    PROVE  Revised(Applied(ts, cmd, kind), ts, Adds(cmd, kind))
<1>0. \A k \in DOMAIN ts : \A j \in DOMAIN ts[k].clips : ts[k].clips[j] \in Clip
  BY TracksTyped, ClipsTyped
<1>1. CASE cmd.type = "MOVE"
  <2> DEFINE to == IF kind = "undo" THEN cmd.from ELSE cmd.to
             Place(c) == [c EXCEPT !.start = IF kind = "undo" THEN cmd.from ELSE cmd.to]
             F == [c \in Clip |-> Place(c)]
             id == cmd.clip
  <2>1. to \in Nat
    BY <1>1, CommandsTyped
  <2>2. \A c \in Clip : F[c] \in Clip /\ F[c].id = c.id
    <3>1. \A c \in Clip : [c EXCEPT !.start = to] \in Clip /\ [c EXCEPT !.start = to].id = c.id
      <4> HIDE DEF to
      <4> QED
        BY <2>1 DEF Clip
    <3> QED
      BY <3>1
  <2>3. Applied(ts, cmd, kind) = OnClip(ts, id, Place)
    BY <1>1 DEF Applied
  <2>4. \A k \in DOMAIN ts : \A j \in DOMAIN ts[k].clips : F[ts[k].clips[j]] = Place(ts[k].clips[j])
    BY <1>0
  <2> HIDE DEF F
  <2>5. OnClip(ts, id, Place) = Mapped(ts, id, F)
    BY <2>4 DEF OnClip, OnClips, Mapped
  <2>6. Revised(Mapped(ts, id, F), ts, {})
    BY <2>2, ClipsRevised
  <2> QED
    BY <1>1, <2>3, <2>5, <2>6 DEF Adds
<1>2. CASE cmd.type = "TRIM"
  <2> DEFINE d == IF kind = "undo" THEN -cmd.delta ELSE cmd.delta
             Trim(c) == Trimmed(c, cmd.edge, IF kind = "undo" THEN -cmd.delta ELSE cmd.delta)
             F == [c \in Clip |-> Trim(c)]
             id == cmd.clip
  <2>1. d \in Int
    BY <1>2, CommandsTyped
  <2>2. \A c \in Clip : F[c] \in Clip /\ F[c].id = c.id
    BY <2>1, TrimmedTyped
  <2>3. Applied(ts, cmd, kind) = OnClip(ts, id, Trim)
    BY <1>2 DEF Applied
  <2>4. \A k \in DOMAIN ts : \A j \in DOMAIN ts[k].clips : F[ts[k].clips[j]] = Trim(ts[k].clips[j])
    BY <1>0
  <2> HIDE DEF F
  <2>5. OnClip(ts, id, Trim) = Mapped(ts, id, F)
    BY <2>4 DEF OnClip, OnClips, Mapped
  <2>6. Revised(Mapped(ts, id, F), ts, {})
    BY <2>2, ClipsRevised
  <2> QED
    BY <1>2, <2>3, <2>5, <2>6 DEF Adds
<1>3. CASE cmd.type \in {"CREATE", "DELETE"}
  <2> DEFINE adds == (cmd.type = "CREATE") = (kind # "undo")
             id == cmd.clip.id
  <2>1. cmd.clip \in Clip
    BY <1>3, CommandsTyped
  <2>2. CASE adds
    <3> DEFINE new == [k \in DOMAIN ts |-> Append(ts[k].clips, cmd.clip)]
    <3>1. Applied(ts, cmd, kind) = WithClip(ts, cmd.track, cmd.clip)
      BY <1>3, <2>2 DEF Applied
    <3>2. WithClip(ts, cmd.track, cmd.clip) = WithNew(ts, cmd.track, new)
      BY DEF WithClip, OnTrack, WithNew
    <3>3. ASSUME NEW k \in DOMAIN ts
          PROVE  new[k] \in Seq(Clip) /\ ClipIds(new[k]) \subseteq OwnIds(ts[k]) \union {id}
      <4> DEFINE old == ts[k].clips
                 w == Append(old, cmd.clip)
      <4>1. old \in Seq(Clip)
        BY TracksTyped
      <4>2. Len(old) \in Nat /\ DOMAIN old = 1..Len(old)
        BY <4>1
      <4>5. OwnIds(ts[k]) = ClipIds(old) /\ new[k] = w
        BY DEF OwnIds, ClipIds
      <4> HIDE DEF old, new
      <4>3. w \in Seq(Clip) /\ DOMAIN w = 1..(Len(old) + 1)
            /\ \A j \in DOMAIN w : w[j] = IF j = Len(old) + 1 THEN cmd.clip ELSE old[j]
        BY <2>1, <4>1, <4>2
      <4> HIDE DEF w
      <4>4. ClipIds(w) \subseteq ClipIds(old) \union {id}
        BY <4>2, <4>3 DEF ClipIds
      <4> QED
        BY <4>3, <4>4, <4>5
    <3>4. NewClips(new, ts, {id})
      BY <3>3 DEF NewClips
    <3>5. Revised(WithNew(ts, cmd.track, new), ts, {id})
      <4> HIDE DEF new, id
      <4> QED
        BY <3>4, TrackRevised
    <3>6. Adds(cmd, kind) = {id}
      BY <1>3, <2>2 DEF Adds
    <3> HIDE DEF new, id
    <3> QED
      BY <3>1, <3>2, <3>5, <3>6
  <2>3. CASE ~adds
    <3> DEFINE new == [k \in DOMAIN ts |-> Without(ts[k].clips, id)]
    <3>1. Applied(ts, cmd, kind) = WithoutClip(ts, cmd.track, id)
      BY <1>3, <2>3 DEF Applied
    <3>2. WithoutClip(ts, cmd.track, id) = WithNew(ts, cmd.track, new)
      BY DEF WithoutClip, OnTrack, WithNew
    <3>3. ASSUME NEW k \in DOMAIN ts
          PROVE  new[k] \in Seq(Clip) /\ ClipIds(new[k]) \subseteq OwnIds(ts[k]) \union {}
      <4>1. ts[k].clips \in Seq(Clip)
        BY TracksTyped
      <4>2. /\ Without(ts[k].clips, id) \in Seq(Clip)
            /\ ClipIds(Without(ts[k].clips, id)) \subseteq ClipIds(ts[k].clips)
        BY <4>1, ClipsWithout
      <4>3. OwnIds(ts[k]) = ClipIds(ts[k].clips)
        BY DEF OwnIds, ClipIds
      <4> QED
        BY <4>2, <4>3
    <3>4. NewClips(new, ts, {})
      BY <3>3 DEF NewClips
    <3>5. Revised(WithNew(ts, cmd.track, new), ts, {})
      <4> HIDE DEF new
      <4> QED
        BY <3>4, TrackRevised
    <3>6. Adds(cmd, kind) = {}
      BY <2>3 DEF Adds
    <3> HIDE DEF new, id
    <3> QED
      BY <3>1, <3>2, <3>5, <3>6
  <2> QED
    BY <2>2, <2>3
<1>4. CASE cmd.type \in {"CREATE_TRACK", "DELETE_TRACK"}
  <2>1. Applied(ts, cmd, kind) = ts
    BY <1>4 DEF Applied
  <2> QED
    BY <2>1, NotRevised
<1> QED
  BY <1>1, <1>2, <1>3, <1>4, CommandsTyped

-----------------------------------------------------------------------------
(* What an edit does.                                                      *)

NewIds == fresh..(fresh' - 1)

\* An edit leaves a typed store; its tracks and clips come of those before, of
\* what a redo may put back and of new ids.
StoreEdited ==
    /\ StoreInv' /\ dirty' /\ fresh <= fresh'
    /\ ComesOf(tracks', tracks, Created \union NewIds, NewIds)
    /\ Created' \subseteq Created \union NewIds

LEMMA ComesOfMore ==
    ASSUME NEW us, NEW ts, NEW X, NEW N, NEW Y, NEW M, ComesOf(us, ts, X, N), X \subseteq Y, N \subseteq M
    PROVE  ComesOf(us, ts, Y, M)
<1>1. \A k \in DOMAIN us :
         \/ us[k].id \in M /\ OwnIds(us[k]) = {}
         \/ \E a \in DOMAIN ts :
               SameTrack(us[k], ts[a]) /\ OwnIds(us[k]) \subseteq OwnIds(ts[a]) \union Y
  <2> SUFFICES ASSUME NEW k \in DOMAIN us
               PROVE  \/ us[k].id \in M /\ OwnIds(us[k]) = {}
                      \/ \E a \in DOMAIN ts :
                            SameTrack(us[k], ts[a]) /\ OwnIds(us[k]) \subseteq OwnIds(ts[a]) \union Y
    OBVIOUS
  <2>1. CASE us[k].id \in N /\ OwnIds(us[k]) = {}
    BY <2>1
  <2>2. ASSUME NEW a \in DOMAIN ts, SameTrack(us[k], ts[a]),
               OwnIds(us[k]) \subseteq OwnIds(ts[a]) \union X
        PROVE  \E b \in DOMAIN ts :
                  SameTrack(us[k], ts[b]) /\ OwnIds(us[k]) \subseteq OwnIds(ts[b]) \union Y
    <3>1. OwnIds(us[k]) \subseteq OwnIds(ts[a]) \union Y
      BY <2>2
    <3> QED
      BY <2>2, <3>1
  <2> QED
    BY <2>1, <2>2 DEF ComesOf
<1>2. us \in Seq(Track)
  BY DEF ComesOf
<1>3. \A k, m \in DOMAIN us : k # m /\ us[k].id = us[m].id =>
          \/ us[k].id \in M
          \/ \E a, b \in DOMAIN ts : a # b /\ ts[a].id = us[k].id /\ ts[b].id = us[k].id
  <2>1. \A x : x \in N => x \in M
    OBVIOUS
  <2> QED
    BY <2>1 DEF ComesOf
<1> QED
  BY <1>1, <1>2, <1>3 DEF ComesOf

LEMMA RevisedFits ==
    ASSUME NEW ts \in Seq(Track), NEW us, NEW X, NEW Y, NEW M, Revised(us, ts, X), X \subseteq Y
    PROVE  ComesOf(us, ts, Y, M)
<1>1. ComesOf(us, ts, X, {})
  BY RevisedComesOf
<1>2. {} \subseteq M
  OBVIOUS
<1> QED
  BY <1>1, <1>2, ComesOfMore

LEMMA CreatedIds ==
    ASSUME NEW cmd \in Range(past) \union Range(future), cmd.type = "CREATE"
    PROVE  cmd.clip.id \in Created
  BY DEF Created

LEMMA PushedTyped ==
    ASSUME past \in Seq(Command), Len(past) <= HistoryLimit, NEW cmd \in Command
    PROVE  /\ Pushed(cmd) \in Seq(Command) /\ Len(Pushed(cmd)) \in Nat
           /\ Len(Pushed(cmd)) <= HistoryLimit /\ Len(Pushed(cmd)) <= Len(past) + 1
           /\ Range(Pushed(cmd)) \subseteq Range(past) \union {cmd}
<1> DEFINE all == Append(past, cmd)
           n == Len(past)
<1>1. n \in Nat /\ HistoryLimit \in Nat \ {0} /\ n <= HistoryLimit
  BY StoreAssumption
<1>2. /\ all \in Seq(Command) /\ Len(all) = n + 1 /\ DOMAIN all = 1..(n + 1)
      /\ \A i \in 1..(n + 1) : all[i] = IF i = n + 1 THEN cmd ELSE past[i]
      /\ DOMAIN past = 1..n
  BY <1>1
<1>3. Pushed(cmd) = IF Len(all) > HistoryLimit THEN Tail(all) ELSE all
  BY DEF Pushed
<1> HIDE DEF all, n
<1>4. Range(all) \subseteq Range(past) \union {cmd}
  BY <1>1, <1>2 DEF Range
<1>5. CASE Len(all) > HistoryLimit
  <2>1. all # <<>>
    BY <1>1, <1>2
  <2>2. /\ Tail(all) \in Seq(Command) /\ Len(Tail(all)) = n
        /\ DOMAIN Tail(all) = 1..n /\ \A i \in 1..n : Tail(all)[i] = all[i + 1]
    BY <1>1, <1>2, <2>1
  <2>3. \A i \in 1..n : i + 1 \in 1..(n + 1)
    BY <1>1
  <2>4. Range(Tail(all)) \subseteq Range(all)
    BY <1>2, <2>2, <2>3 DEF Range
  <2> QED
    BY <1>1, <1>3, <1>4, <1>5, <2>2, <2>4 DEF n
<1>6. CASE ~(Len(all) > HistoryLimit)
  BY <1>1, <1>2, <1>3, <1>4, <1>6 DEF n
<1> QED
  BY <1>5, <1>6

LEMMA ChangedKeeps ==
    ASSUME StoreInv, NEW ts \in Seq(Track), Changed(ts),
           past' \in Seq(Command), future' \in Seq(Command),
           Len(past') + Len(future') <= Len(past) + Len(future) + 1,
           Len(past') + Len(future') <= HistoryLimit,
           title' \in 0..1, fresh' \in Nat, fresh <= fresh'
    PROVE  StoreInv' /\ dirty'
<1>1. tracks' \in Seq(Track) /\ dirty' = TRUE /\ edits' \in 0..MaxEdits /\ edits' = edits + 1
  BY StoreAssumption DEF Changed, StoreInv
<1>2. /\ Len(past) \in Nat /\ Len(future) \in Nat /\ Len(past') \in Nat /\ Len(future') \in Nat
      /\ edits \in Nat /\ Len(past) + Len(future) <= edits
  BY DEF StoreInv
<1>3. Len(past') + Len(future') <= edits'
  BY <1>1, <1>2
<1>4. fresh' \in Nat \ {0}
  BY DEF StoreInv
<1>5. \A id \in InitialIds : id < fresh'
  <2>1. \A id \in InitialIds : id \in Nat /\ id < fresh
    BY AllTracksAre DEF StoreInv
  <2> QED
    BY <2>1 DEF StoreInv
<1>6. InitialIds' = InitialIds
  BY DEF InitialIds, TrackIdsOf, ClipIdsOf, ClipsOf
<1> QED
  BY <1>1, <1>3, <1>4, <1>5, <1>6 DEF StoreInv

LEMMA DoesKeeps ==
    ASSUME StoreInv, NEW cmd \in Command, NEW ts \in Seq(Track), Does(cmd, ts),
           fresh' \in Nat, fresh <= fresh'
    PROVE  /\ StoreInv' /\ dirty'
           /\ Created' \subseteq Created \union {cmd.clip.id : c \in {x \in {cmd} : x.type = "CREATE"}}
<1>1. past \in Seq(Command) /\ Len(past) <= HistoryLimit /\ Len(past) \in Nat /\ Len(future) \in Nat
      /\ future \in Seq(Command) /\ HistoryLimit \in Nat
  BY StoreAssumption DEF StoreInv
<1>2. Changed(ts) /\ past' = Pushed(cmd) /\ future' = <<>> /\ title' = title
  BY DEF Does
<1>3. /\ past' \in Seq(Command) /\ Len(past') \in Nat
      /\ Len(past') <= HistoryLimit /\ Len(past') <= Len(past) + 1
      /\ Range(past') \subseteq Range(past) \union {cmd}
  BY <1>1, <1>2, PushedTyped
<1>4. future' \in Seq(Command) /\ Len(future') = 0 /\ Range(future') = {}
  BY <1>2 DEF Range
<1>5. StoreInv' /\ dirty'
  <2>1. /\ Len(past') + Len(future') <= Len(past) + Len(future) + 1
        /\ Len(past') + Len(future') <= HistoryLimit /\ title' \in 0..1
    BY <1>1, <1>2, <1>3, <1>4 DEF StoreInv
  <2> QED
    BY <1>2, <1>3, <1>4, <2>1, ChangedKeeps
<1>6. Created' \subseteq Created \union {cmd.clip.id : c \in {x \in {cmd} : x.type = "CREATE"}}
  <2> SUFFICES ASSUME NEW o \in Created'
               PROVE  o \in Created \union {cmd.clip.id : c \in {x \in {cmd} : x.type = "CREATE"}}
    OBVIOUS
  <2>1. PICK x \in Range(past') \union Range(future') : x.type = "CREATE" /\ o = x.clip.id
    BY DEF Created
  <2>2. x \in Range(past) \/ x = cmd
    BY <1>3, <1>4, <2>1
  <2>3. CASE x \in Range(past)
    BY <2>1, <2>3 DEF Created
  <2>4. CASE x = cmd
    BY <2>1, <2>4
  <2> QED
    BY <2>2, <2>3, <2>4
<1> QED
  BY <1>5, <1>6

LEMMA UnrecordedKeeps ==
    ASSUME StoreInv, NEW ts \in Seq(Track), Changed(ts), title' \in 0..1,
           UNCHANGED <<past, future>>, fresh' \in Nat, fresh <= fresh'
    PROVE  StoreInv' /\ dirty' /\ Created' = Created
<1>1. /\ past' \in Seq(Command) /\ future' \in Seq(Command)
      /\ Len(past') + Len(future') <= Len(past) + Len(future) + 1
      /\ Len(past') + Len(future') <= HistoryLimit
  BY DEF StoreInv
<1>2. StoreInv' /\ dirty'
  BY <1>1, ChangedKeeps
<1>3. Created' = Created
  BY DEF Created
<1> QED
  BY <1>2, <1>3

-----------------------------------------------------------------------------
(* The edits, one by one.                                                  *)

\* An edit that puts in no clip: a command is applied, nothing is new.
LEMMA AppliedIsEdited ==
    ASSUME StoreInv, NEW cmd \in Command, NEW kind, Does(cmd, Applied(tracks, cmd, kind)),
           cmd.type # "CREATE", Adds(cmd, kind) = {}, fresh' = fresh
    PROVE  StoreEdited
<1>1. tracks \in Seq(Track) /\ fresh \in Nat
  BY DEF StoreInv
<1>2. Revised(Applied(tracks, cmd, kind), tracks, {})
  BY <1>1, AppliedRevises
<1>3. tracks' = Applied(tracks, cmd, kind)
  BY DEF Does, Changed
<1>4. Applied(tracks, cmd, kind) \in Seq(Track)
  BY <1>2 DEF Revised
<1>5. StoreInv' /\ dirty' /\ Created' \subseteq Created
  <2>1. fresh' \in Nat /\ fresh <= fresh'
    BY <1>1
  <2>2. /\ StoreInv' /\ dirty'
        /\ Created' \subseteq Created \union {cmd.clip.id : c \in {x \in {cmd} : x.type = "CREATE"}}
    BY <1>4, <2>1, DoesKeeps
  <2>3. {x \in {cmd} : x.type = "CREATE"} = {}
    OBVIOUS
  <2> QED
    BY <2>2, <2>3
<1>6. ComesOf(tracks', tracks, Created \union NewIds, NewIds)
  BY <1>1, <1>2, <1>3, RevisedFits
<1> QED
  BY <1>1, <1>5, <1>6 DEF StoreEdited

LEMMA FoundTyped ==
    ASSUME tracks \in Seq(Track), NEW id \in ClipIdsOf(tracks)
    PROVE  /\ TrackWith(id) \in DOMAIN tracks /\ FoundClip(id) \in Clip
           /\ FoundClip(id).id = id
<1> DEFINE I == {k \in 1..Len(tracks) : \E j \in DOMAIN tracks[k].clips : tracks[k].clips[j].id = id}
           k == TrackWith(id)
           clips == tracks[k].clips
           J == {j \in 1..Len(clips) : clips[j].id = id}
<1>1. Len(tracks) \in Nat /\ DOMAIN tracks = 1..Len(tracks)
  BY TracksTyped
<1>2. I \in SUBSET Nat /\ I # {}
  BY <1>1, WhoHasWhat DEF OwnIds
<1>3. k = Min(I)
  BY <1>2 DEF TrackWith, SelectInSeq
<1>4. k \in I
  <2> HIDE DEF I, k
  <2> QED
    BY <1>2, <1>3, LeastNumber
<1>5. k \in DOMAIN tracks /\ clips \in Seq(Clip)
  BY <1>1, <1>4, TracksTyped
<1>6. FoundClip(id) = clips[IF J # {} THEN Min(J) ELSE 0]
  BY DEF FoundClip, SelectInSeq
<1>7. \E j \in DOMAIN clips : clips[j].id = id
  BY <1>4
<1> HIDE DEF k
<1>8. J \in SUBSET Nat /\ J # {}
  <2>1. Len(clips) \in Nat /\ DOMAIN clips = 1..Len(clips)
    BY <1>5, ClipsTyped
  <2> HIDE DEF clips
  <2>2. PICK j \in 1..Len(clips) : clips[j].id = id
    BY <1>7, <2>1
  <2> QED
    BY <2>1, <2>2
<1>9. Min(J) \in J
  <2> HIDE DEF J
  <2> QED
    BY <1>8, LeastNumber
<1>10. FoundClip(id) = clips[Min(J)]
  BY <1>6, <1>8
<1>11. clips[Min(J)] \in Clip /\ clips[Min(J)].id = id
  <2> HIDE DEF clips
  <2> QED
    BY <1>5, <1>9, ClipsTyped
<1> QED
  BY <1>5, <1>10, <1>11 DEF k

LEMMA MoveEdits ==
    ASSUME StoreInv, NEW id \in ClipIdsOf(tracks), NEW d \in Deltas, MoveClip(id, d)
    PROVE  StoreEdited
<1> DEFINE start == FoundClip(id).start
           to == AtLeast(0, start + d)
           cmd == [type |-> "MOVE", clip |-> id, from |-> start, to |-> to]
<1>1. id \in Nat /\ start \in Nat /\ to \in Nat
  <2>1. tracks \in Seq(Track) /\ d \in Int
    BY StoreAssumption DEF StoreInv
  <2>2. FoundClip(id) \in Clip
    BY <2>1, FoundTyped
  <2>3. FoundClip(id).start \in Nat /\ id \in Nat
    BY <2>1, <2>2, IdsAreNumbers DEF Clip
  <2> QED
    BY <2>1, <2>3 DEF AtLeast
<1>2. Does(cmd, Applied(tracks, cmd, "do")) /\ fresh' = fresh
  BY DEF MoveClip
<1> HIDE DEF start, to
<1>3. cmd \in Command /\ cmd.type # "CREATE" /\ Adds(cmd, "do") = {}
  BY <1>1 DEF Command, Adds
<1> HIDE DEF cmd
<1> QED
  BY <1>2, <1>3, AppliedIsEdited

LEMMA TrimEdits ==
    ASSUME StoreInv, NEW id \in ClipIdsOf(tracks), NEW d \in Deltas, NEW edge \in {"start", "end"},
           TrimClip(id, edge, d)
    PROVE  StoreEdited
<1> DEFINE cmd == [type |-> "TRIM", clip |-> id, edge |-> edge, delta |-> d]
<1>1. id \in Nat /\ d \in Int
  BY StoreAssumption, IdsAreNumbers DEF StoreInv
<1>2. Does(cmd, Applied(tracks, cmd, "do")) /\ fresh' = fresh
  BY DEF TrimClip
<1>3. cmd \in Command /\ cmd.type # "CREATE" /\ Adds(cmd, "do") = {}
  BY <1>1 DEF Command, Adds
<1> HIDE DEF cmd
<1> QED
  BY <1>2, <1>3, AppliedIsEdited

LEMMA DeleteEdits ==
    ASSUME StoreInv, NEW id \in ClipIdsOf(tracks), DeleteClip(id)
    PROVE  StoreEdited
<1> DEFINE track == tracks[TrackWith(id)].id
           clip == FoundClip(id)
           cmd == [type |-> "DELETE", track |-> track, clip |-> clip]
<1>1. track \in Nat /\ clip \in Clip
  <2>1. tracks \in Seq(Track)
    BY DEF StoreInv
  <2> QED
    BY <2>1, FoundTyped, TracksTyped
<1>2. Does(cmd, Applied(tracks, cmd, "do")) /\ fresh' = fresh
  BY DEF DeleteClip
<1> HIDE DEF track, clip
<1>3. cmd \in Command /\ cmd.type # "CREATE" /\ Adds(cmd, "do") = {}
  BY <1>1 DEF Command, Adds
<1> HIDE DEF cmd
<1> QED
  BY <1>2, <1>3, AppliedIsEdited

LEMMA SplitEdits ==
    ASSUME StoreInv, Sound(tracks), NEW p \in Cuts, SplitClipAtPlayhead(p)
    PROVE  StoreEdited
<1>1. tracks \in Seq(Track) /\ fresh \in Nat /\ title \in 0..1
  BY DEF StoreInv
<1>2. Revised(tracks', tracks, HalfIds)
  BY <1>1, PlayheadRevises
<1>3. fresh' = 2 * fresh /\ HalfIds = NewIds /\ fresh' \in Nat /\ fresh <= fresh'
  BY <1>1 DEF SplitClipAtPlayhead, HalfIds, NewIds
<1>4. tracks' \in Seq(Track) /\ Changed(tracks') /\ UNCHANGED <<past, future>> /\ title' = title
  BY <1>2 DEF Revised, SplitClipAtPlayhead, Unrecorded, Changed
<1>5. StoreInv' /\ dirty' /\ Created' = Created
  <2> DEFINE ts == tracks'
  <2>1. ts \in Seq(Track) /\ Changed(ts)
    BY <1>4
  <2>2. title' \in 0..1 /\ fresh' \in Nat /\ fresh <= fresh' /\ UNCHANGED <<past, future>>
    BY <1>1, <1>3, <1>4
  <2> HIDE DEF ts
  <2> QED
    BY <2>1, <2>2, UnrecordedKeeps
<1>6. ComesOf(tracks', tracks, Created \union NewIds, NewIds)
  BY <1>1, <1>2, <1>3, RevisedFits
<1> QED
  BY <1>3, <1>5, <1>6 DEF StoreEdited

LEMMA TrailingTyped ==
    ASSUME NEW clips \in Seq(Clip)
    PROVE  Max({0} \union {c.start + c.len : c \in Range(clips)}) \in Nat
<1> DEFINE n == Len(clips)
           f == [j \in 1..n |-> clips[j].start + clips[j].len]
           S == {0} \union {c.start + c.len : c \in Range(clips)}
<1>1. n \in Nat /\ DOMAIN clips = 1..n /\ f \in [1..n -> Nat]
  <2>1. \A j \in 1..n : clips[j].start + clips[j].len \in Nat
    BY ClipsTyped
  <2> QED
    BY <2>1
<1>2. PICK b \in Nat : \A j \in 1..n : f[j] <= b
  <2> HIDE DEF f, n
  <2> QED
    BY <1>1, Bounded
<1>3. \A x \in S : x \in 0..b
  <2> SUFFICES ASSUME NEW x \in S, x # 0 PROVE x \in 0..b
    OBVIOUS
  <2>1. PICK j \in 1..n : x = clips[j].start + clips[j].len
    BY <1>1 DEF Range
  <2>2. x = f[j] /\ f[j] \in Nat
    BY <1>1, <2>1
  <2> HIDE DEF f, n
  <2> QED
    BY <1>2, <2>2
<1>4. S \in SUBSET (0..b) /\ S # {}
  BY <1>3
<1> HIDE DEF S
<1>5. Max(S) \in S
  BY <1>4, GreatestTurn
<1> QED
  BY <1>4, <1>5 DEF S

LEMMA AddEdits ==
    ASSUME StoreInv, NEW kind \in Kinds, AddClip(kind)
    PROVE  StoreEdited
<1> DEFINE I == {m \in 1..Len(tracks) : tracks[m].kind = kind}
           k == SelectInSeq(tracks, LAMBDA t : t.kind = kind)
           track == IF k = 0 THEN tracks[1].id ELSE tracks[k].id
           trailing == IF k = 0 THEN 0
                       ELSE Max({0} \union {c.start + c.len : c \in Range(tracks[k].clips)})
           clip == [id |-> fresh, start |-> trailing, in |-> 0, out |-> MinLen, len |-> MinLen]
           cmd == [type |-> "CREATE", track |-> track, clip |-> clip]
<1>1. /\ tracks \in Seq(Track) /\ fresh \in Nat /\ MinLen \in Nat \ {0}
      /\ Len(tracks) \in Nat /\ DOMAIN tracks = 1..Len(tracks)
  BY StoreAssumption, TracksTyped DEF StoreInv
<1>2. tracks # <<>> /\ Does(cmd, Applied(tracks, cmd, "do")) /\ fresh' = fresh + 1
  BY DEF AddClip
<1>3. k = 0 \/ k \in 1..Len(tracks)
  <2>1. k = IF I # {} THEN Min(I) ELSE 0
    BY DEF SelectInSeq
  <2>2. I \in SUBSET Nat
    BY <1>1
  <2>3. I # {} => Min(I) \in I
    <3> HIDE DEF I
    <3> QED
      BY <2>2, LeastNumber
  <2> HIDE DEF k
  <2> QED
    BY <2>1, <2>3
<1>4. track \in Nat
  <2>1. 1 \in 1..Len(tracks)
    BY <1>1, <1>2
  <2> HIDE DEF k
  <2> QED
    BY <1>1, <1>3, <2>1, TracksTyped
<1>5. trailing \in Nat
  <2>1. CASE k = 0
    BY <2>1
  <2>2. CASE k # 0
    <3> HIDE DEF k
    <3>1. tracks[k].clips \in Seq(Clip)
      BY <1>1, <1>3, <2>2, TracksTyped
    <3> QED
      BY <2>2, <3>1, TrailingTyped
  <2> QED
    BY <2>1, <2>2
<1> HIDE DEF k, track, trailing
<1>6. clip \in Clip /\ clip.id = fresh
  BY <1>1, <1>5 DEF Clip
<1> HIDE DEF clip
<1>7. cmd \in Command /\ cmd.type = "CREATE" /\ cmd.clip = clip /\ Adds(cmd, "do") = {fresh}
  BY <1>4, <1>6 DEF Command, Adds
<1> HIDE DEF cmd
<1>8. NewIds = {fresh} /\ fresh' \in Nat /\ fresh <= fresh'
  BY <1>1, <1>2 DEF NewIds
<1>9. Revised(Applied(tracks, cmd, "do"), tracks, {fresh})
  BY <1>1, <1>7, AppliedRevises
<1>10. tracks' = Applied(tracks, cmd, "do") /\ Applied(tracks, cmd, "do") \in Seq(Track)
  BY <1>2, <1>9 DEF Does, Changed, Revised
<1>11. StoreInv' /\ dirty' /\ Created' \subseteq Created \union {fresh}
  <2>1. /\ StoreInv' /\ dirty'
        /\ Created' \subseteq Created \union {cmd.clip.id : c \in {x \in {cmd} : x.type = "CREATE"}}
    BY <1>2, <1>7, <1>8, <1>10, DoesKeeps
  <2>2. {cmd.clip.id : c \in {x \in {cmd} : x.type = "CREATE"}} = {fresh}
    BY <1>6, <1>7
  <2> QED
    BY <2>1, <2>2
<1>12. ComesOf(tracks', tracks, Created \union NewIds, NewIds)
  <2>1. {fresh} \subseteq Created \union NewIds
    BY <1>8
  <2> QED
    BY <1>1, <1>9, <1>10, <2>1, RevisedFits
<1> QED
  BY <1>8, <1>11, <1>12 DEF StoreEdited

LEMMA CreateTrackEdits ==
    ASSUME StoreInv, Sound(tracks), NEW kind \in Kinds, CreateTrack(kind)
    PROVE  StoreEdited
<1> DEFINE I == {k \in DOMAIN tracks : tracks[k].kind = kind}
           index == Cardinality(I)
           track == [id |-> fresh, kind |-> kind, muted |-> FALSE, clips |-> <<>>, index |-> index]
           ts == Append(tracks, track)
           cmd == [type |-> "CREATE_TRACK", track |-> track]
           n == Len(tracks)
<1>1. tracks \in Seq(Track) /\ fresh \in Nat /\ n \in Nat /\ DOMAIN tracks = 1..n
  BY TracksTyped DEF StoreInv
<1>2. Does(cmd, ts) /\ fresh' = fresh + 1
  BY DEF CreateTrack
<1>3. index \in Nat
  <2>1. IsFiniteSet(1..n)
    BY <1>1, FS_Interval
  <2>2. I \subseteq 1..n
    BY <1>1
  <2> HIDE DEF I
  <2> QED
    BY <2>1, <2>2, FS_Subset, FS_CardinalityType
<1> HIDE DEF index
<1>4. track \in Track /\ track.id = fresh /\ OwnIds(track) = {}
  BY <1>1, <1>3 DEF Track, OwnIds
<1> HIDE DEF track
<1>5. cmd \in Command /\ {x \in {cmd} : x.type = "CREATE"} = {}
  BY <1>4 DEF Command
<1>6. /\ ts \in Seq(Track) /\ Len(ts) = n + 1 /\ DOMAIN ts = 1..(n + 1)
      /\ \A k \in 1..(n + 1) : ts[k] = IF k = n + 1 THEN track ELSE tracks[k]
  BY <1>1, <1>4
<1> HIDE DEF cmd, ts, n
<1>7. NewIds = {fresh} /\ fresh' \in Nat /\ fresh <= fresh'
  BY <1>1, <1>2 DEF NewIds
<1>8. StoreInv' /\ dirty' /\ Created' \subseteq Created
  <2>1. /\ StoreInv' /\ dirty'
        /\ Created' \subseteq Created \union {cmd.clip.id : c \in {x \in {cmd} : x.type = "CREATE"}}
    BY <1>2, <1>5, <1>6, <1>7, DoesKeeps
  <2> QED
    BY <1>5, <2>1
<1>9. tracks' = ts
  BY <1>2 DEF Does, Changed
<1>10. ComesOf(ts, tracks, Created \union NewIds, NewIds)
  <2>1. \A k \in DOMAIN ts :
           \/ ts[k].id \in NewIds /\ OwnIds(ts[k]) = {}
           \/ k \in DOMAIN tracks /\ ts[k] = tracks[k]
    BY <1>1, <1>4, <1>6, <1>7
  <2>2. \A k \in DOMAIN tracks : SameTrack(tracks[k], tracks[k])
    BY DEF SameTrack
  <2>3. \A k \in DOMAIN ts :
           \/ ts[k].id \in NewIds /\ OwnIds(ts[k]) = {}
           \/ \E a \in DOMAIN tracks :
                 /\ SameTrack(ts[k], tracks[a])
                 /\ OwnIds(ts[k]) \subseteq OwnIds(tracks[a]) \union (Created \union NewIds)
    BY <2>1, <2>2
  <2>4. \A k, m \in DOMAIN ts : k # m /\ ts[k].id = ts[m].id =>
           \/ ts[k].id \in NewIds
           \/ \E a, b \in DOMAIN tracks :
                 a # b /\ tracks[a].id = ts[k].id /\ tracks[b].id = ts[k].id
    BY <2>1
  <2> QED
    BY <1>6, <2>3, <2>4 DEF ComesOf
<1> QED
  BY <1>7, <1>8, <1>9, <1>10 DEF StoreEdited

LEMMA RemoveTrackEdits ==
    ASSUME StoreInv, NEW t \in Range(tracks), RemoveTrack(t)
    PROVE  StoreEdited
<1> DEFINE cmd == [type |-> "DELETE_TRACK", track |-> t]
           ts == Without(tracks, t.id)
<1>1. tracks \in Seq(Track) /\ fresh \in Nat
  BY DEF StoreInv
<1>2. t \in Track
  BY <1>1, TracksTyped DEF Range
<1>3. cmd \in Command /\ {x \in {cmd} : x.type = "CREATE"} = {}
  BY <1>2 DEF Command
<1>4. Does(cmd, ts) /\ fresh' = fresh
  BY DEF RemoveTrack
<1>5. ComesOf(ts, tracks, {}, {}) /\ ts \in Seq(Track)
  BY <1>1, TracksWithout DEF ComesOf
<1> HIDE DEF cmd, ts
<1>6. fresh' \in Nat /\ fresh <= fresh'
  BY <1>1, <1>4
<1>7. StoreInv' /\ dirty' /\ Created' \subseteq Created
  <2>1. /\ StoreInv' /\ dirty'
        /\ Created' \subseteq Created \union {cmd.clip.id : c \in {x \in {cmd} : x.type = "CREATE"}}
    BY <1>3, <1>4, <1>5, <1>6, DoesKeeps
  <2> QED
    BY <1>3, <2>1
<1>8. tracks' = ts
  BY <1>4 DEF Does, Changed
<1>9. ComesOf(ts, tracks, Created \union NewIds, NewIds)
  <2>1. {} \subseteq Created \union NewIds /\ {} \subseteq NewIds
    OBVIOUS
  <2> QED
    BY <1>5, <2>1, ComesOfMore
<1> QED
  BY <1>6, <1>7, <1>8, <1>9 DEF StoreEdited

LEMMA ToggleEdits ==
    ASSUME StoreInv, NEW t \in Range(tracks), ToggleTrack(t)
    PROVE  StoreEdited
<1> DEFINE ts == [k \in DOMAIN tracks |->
                    IF tracks[k].id = t.id THEN [tracks[k] EXCEPT !.muted = ~@] ELSE tracks[k]]
<1>1. tracks \in Seq(Track) /\ fresh \in Nat /\ title \in 0..1
  BY DEF StoreInv
<1>2. Unrecorded(ts) /\ fresh' = fresh
  BY DEF ToggleTrack, OnTrack
<1>3. ASSUME NEW k \in DOMAIN tracks
      PROVE  /\ ts[k] \in Track /\ SameTrack(ts[k], tracks[k])
             /\ OwnIds(ts[k]) \subseteq OwnIds(tracks[k]) \union {}
  <2>1. tracks[k] \in Track
    BY <1>1, TracksTyped
  <2>2. CASE tracks[k].id = t.id
    <3>1. ts[k] = [tracks[k] EXCEPT !.muted = ~@]
      BY <2>2
    <3>2. /\ ts[k] \in Track /\ ts[k].id = tracks[k].id /\ ts[k].kind = tracks[k].kind
          /\ ts[k].clips = tracks[k].clips
      BY <2>1, <3>1 DEF Track
    <3> QED
      BY <3>2 DEF SameTrack, OwnIds
  <2>3. CASE tracks[k].id # t.id
    BY <2>1, <2>3 DEF SameTrack
  <2> QED
    BY <2>2, <2>3
<1>4. DOMAIN ts = DOMAIN tracks /\ ts = [k \in DOMAIN tracks |-> ts[k]]
  OBVIOUS
<1> HIDE DEF ts
<1>5. Revised(ts, tracks, {})
  BY <1>1, <1>3, <1>4, EachRevised
<1>6. Changed(ts) /\ tracks' = ts /\ ts \in Seq(Track) /\ UNCHANGED <<title, past, future>>
  BY <1>2, <1>5 DEF Unrecorded, Changed, Revised
<1>7. fresh' \in Nat /\ fresh <= fresh'
  BY <1>1, <1>2
<1>8. StoreInv' /\ dirty' /\ Created' = Created
  BY <1>1, <1>6, <1>7, UnrecordedKeeps
<1>9. ComesOf(ts, tracks, Created \union NewIds, NewIds)
  BY <1>1, <1>5, RevisedFits
<1> QED
  BY <1>6, <1>7, <1>8, <1>9 DEF StoreEdited

LEMMA TitleEdits ==
    ASSUME StoreInv, SetTitle
    PROVE  StoreEdited
<1>1. tracks \in Seq(Track) /\ fresh \in Nat /\ title \in 0..1
  BY DEF StoreInv
<1>2. Changed(tracks) /\ tracks' = tracks /\ UNCHANGED <<past, future, fresh>> /\ title' \in 0..1
  BY <1>1 DEF SetTitle, Changed
<1>3. fresh' \in Nat /\ fresh <= fresh'
  BY <1>1, <1>2
<1>4. StoreInv' /\ dirty' /\ Created' = Created
  BY <1>1, <1>2, <1>3, UnrecordedKeeps
<1>5. ComesOf(tracks, tracks, Created \union NewIds, NewIds)
  BY <1>1, NotRevised, RevisedFits
<1> QED
  BY <1>2, <1>3, <1>4, <1>5 DEF StoreEdited

-----------------------------------------------------------------------------
(* Undo and redo.                                                          *)

LEMMA LastAndFront ==
    ASSUME NEW s \in Seq(Command), s # <<>>
    PROVE  /\ Last(s) \in Command /\ Last(s) \in Range(s)
           /\ Front(s) \in Seq(Command) /\ Len(Front(s)) = Len(s) - 1
           /\ Range(Front(s)) \subseteq Range(s)
<1> DEFINE n == Len(s)
<1>1. n \in Nat \ {0} /\ DOMAIN s = 1..n /\ \A i \in 1..n : s[i] \in Command
  OBVIOUS
<1>2. Last(s) = s[n] /\ Front(s) = SubSeq(s, 1, n - 1)
  BY DEF Last, Front
<1>3. /\ Front(s) \in Seq(Command) /\ Len(Front(s)) = n - 1 /\ DOMAIN Front(s) = 1..(n - 1)
      /\ \A i \in 1..(n - 1) : Front(s)[i] = s[i]
  BY <1>1, <1>2
<1> HIDE DEF n
<1>4. n \in 1..n /\ \A i \in 1..(n - 1) : i \in 1..n
  BY <1>1
<1> QED
  BY <1>1, <1>2, <1>3, <1>4 DEF Range, n

LEMMA AppendCommand ==
    ASSUME NEW s \in Seq(Command), NEW cmd \in Command
    PROVE  /\ Append(s, cmd) \in Seq(Command) /\ Len(Append(s, cmd)) = Len(s) + 1
           /\ Range(Append(s, cmd)) = Range(s) \union {cmd}
<1> DEFINE n == Len(s)
           all == Append(s, cmd)
<1>1. n \in Nat /\ DOMAIN s = 1..n
  OBVIOUS
<1>2. /\ all \in Seq(Command) /\ Len(all) = n + 1 /\ DOMAIN all = 1..(n + 1)
      /\ \A i \in 1..(n + 1) : all[i] = IF i = n + 1 THEN cmd ELSE s[i]
  BY <1>1
<1> HIDE DEF n, all
<1>3. n + 1 \in 1..(n + 1) /\ \A i \in 1..n : i \in 1..(n + 1) /\ i # n + 1
  BY <1>1
<1>4. Range(all) = Range(s) \union {cmd}
  BY <1>1, <1>2, <1>3 DEF Range
<1> QED
  BY <1>2, <1>4 DEF n, all

\* A command goes from one end of the history to the other.
LEMMA HistoryEdits ==
    ASSUME StoreInv, NEW act \in Command, NEW kind, Adds(act, kind) \subseteq Created,
           Changed(Applied(tracks, act, kind)), UNCHANGED <<title, fresh>>,
           past' \in Seq(Command), future' \in Seq(Command),
           Len(past') + Len(future') = Len(past) + Len(future),
           Range(past') \union Range(future') \subseteq Range(past) \union Range(future)
    PROVE  StoreEdited
<1>1. /\ tracks \in Seq(Track) /\ fresh \in Nat /\ title \in 0..1
      /\ past \in Seq(Command) /\ future \in Seq(Command)
      /\ Len(past) \in Nat /\ Len(future) \in Nat /\ Len(past) + Len(future) <= HistoryLimit
  BY DEF StoreInv
<1>4. Revised(Applied(tracks, act, kind), tracks, Adds(act, kind))
  BY <1>1, AppliedRevises
<1>5. Applied(tracks, act, kind) \in Seq(Track) /\ tracks' = Applied(tracks, act, kind)
  BY <1>4 DEF Revised, Changed
<1>6. fresh' \in Nat /\ fresh <= fresh' /\ title' \in 0..1
  BY <1>1
<1>7. StoreInv' /\ dirty'
  <2>1. /\ Len(past') + Len(future') <= Len(past) + Len(future) + 1
        /\ Len(past') + Len(future') <= HistoryLimit
    BY <1>1
  <2> QED
    BY <1>5, <1>6, <2>1, ChangedKeeps
<1>8. Created' \subseteq Created
  <2> SUFFICES ASSUME NEW o \in Created' PROVE o \in Created
    OBVIOUS
  <2>1. PICK x \in Range(past') \union Range(future') : x.type = "CREATE" /\ o = x.clip.id
    BY DEF Created
  <2>2. x \in Range(past) \union Range(future)
    OBVIOUS
  <2> QED
    BY <2>1, <2>2, CreatedIds
<1>9. ComesOf(tracks', tracks, Created \union NewIds, NewIds)
  <2>1. Adds(act, kind) \subseteq Created \union NewIds
    OBVIOUS
  <2> QED
    BY <1>1, <1>4, <1>5, <2>1, RevisedFits
<1> QED
  BY <1>6, <1>7, <1>8, <1>9 DEF StoreEdited

LEMMA UndoEdits ==
    ASSUME StoreInv, Undo
    PROVE  StoreEdited
<1> DEFINE cmd == Last(past)
           act == Invert(cmd)
<1>1. past \in Seq(Command) /\ future \in Seq(Command) /\ Len(past) \in Nat /\ Len(future) \in Nat
  BY DEF StoreInv
<1>2. /\ past # <<>> /\ Changed(Applied(tracks, act, "undo")) /\ UNCHANGED <<title, fresh>>
      /\ past' = Front(past) /\ future' = Append(future, cmd)
  BY DEF Undo
<1>3. /\ cmd \in Command /\ cmd \in Range(past) /\ past' \in Seq(Command)
      /\ Len(past') = Len(past) - 1 /\ Range(past') \subseteq Range(past)
  BY <1>1, <1>2, LastAndFront
<1>4. /\ future' \in Seq(Command) /\ Len(future') = Len(future) + 1
      /\ Range(future') = Range(future) \union {cmd}
  BY <1>1, <1>2, <1>3, AppendCommand
<1>5. /\ Len(past') + Len(future') = Len(past) + Len(future)
      /\ Range(past') \union Range(future') \subseteq Range(past) \union Range(future)
  BY <1>1, <1>3, <1>4
<1> HIDE DEF cmd
<1>6. act \in Command /\ Adds(act, "undo") \subseteq Created
  <2>1. cmd.type = "CREATE" => cmd.clip.id \in Created
    BY <1>3, CreatedIds
  <2>2. /\ act \in Command
        /\ act.type \in {"CREATE", "DELETE"} <=> cmd.type \in {"CREATE", "DELETE"}
        /\ cmd.type \in {"CREATE", "DELETE"} =>
             act.clip = cmd.clip /\ (act.type = "CREATE" <=> cmd.type = "DELETE")
    BY <1>3, InvertTyped
  <2>3. Adds(act, "undo") # {} => cmd.type = "CREATE" /\ Adds(act, "undo") = {cmd.clip.id}
    BY <2>2 DEF Adds
  <2> QED
    BY <2>1, <2>2, <2>3
<1> HIDE DEF act
<1> QED
  BY <1>2, <1>3, <1>4, <1>5, <1>6, HistoryEdits

LEMMA RedoEdits ==
    ASSUME StoreInv, Redo
    PROVE  StoreEdited
<1> DEFINE cmd == Last(future)
<1>1. past \in Seq(Command) /\ future \in Seq(Command) /\ Len(past) \in Nat /\ Len(future) \in Nat
  BY DEF StoreInv
<1>2. /\ future # <<>> /\ Changed(Applied(tracks, cmd, "redo")) /\ UNCHANGED <<title, fresh>>
      /\ past' = Append(past, cmd) /\ future' = Front(future)
  BY DEF Redo
<1>3. /\ cmd \in Command /\ cmd \in Range(future) /\ future' \in Seq(Command)
      /\ Len(future') = Len(future) - 1 /\ Range(future') \subseteq Range(future)
  BY <1>1, <1>2, LastAndFront
<1>4. /\ past' \in Seq(Command) /\ Len(past') = Len(past) + 1
      /\ Range(past') = Range(past) \union {cmd}
  BY <1>1, <1>2, <1>3, AppendCommand
<1>5. /\ Len(past') + Len(future') = Len(past) + Len(future)
      /\ Range(past') \union Range(future') \subseteq Range(past) \union Range(future)
  BY <1>1, <1>3, <1>4
<1> HIDE DEF cmd
<1>6. Adds(cmd, "redo") \subseteq Created
  <2>1. cmd.type = "CREATE" => cmd.clip.id \in Created
    BY <1>3, CreatedIds
  <2> QED
    BY <2>1 DEF Adds
<1> QED
  BY <1>2, <1>3, <1>4, <1>5, <1>6, HistoryEdits

LEMMA EditDoes ==
    ASSUME StoreInv, Sound(tracks), Edit
    PROVE  StoreEdited
<1>1. ASSUME NEW id \in ClipIdsOf(tracks), NEW d \in Deltas, MoveClip(id, d) PROVE StoreEdited
  BY <1>1, MoveEdits
<1>2. ASSUME NEW id \in ClipIdsOf(tracks), NEW d \in Deltas, NEW edge \in {"start", "end"},
             TrimClip(id, edge, d)
      PROVE  StoreEdited
  BY <1>2, TrimEdits
<1>3. ASSUME NEW id \in ClipIdsOf(tracks), DeleteClip(id) PROVE StoreEdited
  BY <1>3, DeleteEdits
<1>4. ASSUME NEW p \in Cuts, SplitClipAtPlayhead(p) PROVE StoreEdited
  BY <1>4, SplitEdits
<1>5. ASSUME NEW kind \in Kinds, AddClip(kind) PROVE StoreEdited
  BY <1>5, AddEdits
<1>6. ASSUME NEW kind \in Kinds, CreateTrack(kind) PROVE StoreEdited
  BY <1>6, CreateTrackEdits
<1>7. ASSUME NEW t \in Range(tracks), RemoveTrack(t) PROVE StoreEdited
  BY <1>7, RemoveTrackEdits
<1>8. ASSUME NEW t \in Range(tracks), ToggleTrack(t) PROVE StoreEdited
  BY <1>8, ToggleEdits
<1> QED
  <2> USE DEF Edit
  <2>1. SUFFICES ASSUME ~StoreEdited PROVE FALSE
    OBVIOUS
  <2>2. ~(SetTitle \/ Undo \/ Redo)
    BY <2>1, TitleEdits, UndoEdits, RedoEdits
  <2>3. ~(\E id \in ClipIdsOf(tracks) :
              \/ \E d \in Deltas : MoveClip(id, d)
              \/ \E d \in Deltas, edge \in {"start", "end"} : TrimClip(id, edge, d)
              \/ DeleteClip(id))
    BY <2>1, <1>1, <1>2, <1>3
  <2>4. ~(\/ \E p \in Cuts : SplitClipAtPlayhead(p)
          \/ \E kind \in Kinds : AddClip(kind) \/ CreateTrack(kind)
          \/ \E t \in Range(tracks) : RemoveTrack(t) \/ ToggleTrack(t))
    BY <2>1, <1>4, <1>5, <1>6, <1>7, <1>8
  <2> QED
    BY <2>2, <2>3, <2>4

-----------------------------------------------------------------------------
(* What the API makes of a request.                                        *)

LEMMA OperationsAre ==
    /\ Range(Operations) = {"title", "trackAdded", "trackUpdated", "trackRemoved",
                            "clipCreated", "clipUpdated", "clipRemoved", "reorder"}
    /\ \A q \in Request : q.op \in Range(Operations) /\ q.id \in Nat /\ q.at \in Nat
<1> DEFINE ops == {"title", "trackAdded", "trackUpdated", "trackRemoved",
                   "clipCreated", "clipUpdated", "clipRemoved", "reorder"}
<1>1. DOMAIN Operations = 1..8
  BY DEF Operations
<1>2. \A i \in 1..8 : Operations[i] \in ops
  BY DEF Operations
<1>3. /\ Operations[1] = "title" /\ Operations[2] = "trackAdded" /\ Operations[3] = "trackUpdated"
      /\ Operations[4] = "trackRemoved" /\ Operations[5] = "clipCreated"
      /\ Operations[6] = "clipUpdated" /\ Operations[7] = "clipRemoved" /\ Operations[8] = "reorder"
  BY DEF Operations
<1>4. Range(Operations) = ops
  <2>1. Range(Operations) \subseteq ops
    BY <1>1, <1>2 DEF Range
  <2>2. /\ "title" \in Range(Operations) /\ "trackAdded" \in Range(Operations)
        /\ "trackUpdated" \in Range(Operations) /\ "trackRemoved" \in Range(Operations)
        /\ "clipCreated" \in Range(Operations) /\ "clipUpdated" \in Range(Operations)
        /\ "clipRemoved" \in Range(Operations) /\ "reorder" \in Range(Operations)
    BY <1>1, <1>3 DEF Range
  <2> QED
    BY <2>1, <2>2
<1> QED
  BY <1>4 DEF Request

LEMMA TrackRowKept ==
    ASSUME NEW t \in Track
    PROVE  /\ Attributes(t) \in TrackRow
           /\ Attributes(t).kind = t.kind /\ Attributes(t).index = t.index
           /\ Attributes(t).muted = t.muted
  BY DEF Attributes, TrackRow, Track

\* What a request reads of the snapshot.
LEMMA SentTyped ==
    ASSUME SaveInv, NEW q \in flight.todo
    PROVE  /\ q \in Request
           /\ q.op \in {"trackAdded", "trackUpdated"} =>
                /\ SentTrack(q) \in TrackRow /\ q.id \in TrackIdsOf(flight.next.tracks)
                /\ SentTrack(q).kind = flight.next.tracks[q.at].kind
           /\ q.op \in {"clipCreated", "clipUpdated"} =>
                /\ SentClip(q) \in ClipRow /\ q.id \in ClipIdsOf(flight.next.tracks)
                /\ Holds(flight.next.tracks, SentClip(q).track, q.id)
<1> DEFINE ts == flight.next.tracks
<1>1. ts \in Seq(Track) /\ q \in Request /\ Sendable(q)
  BY DEF SaveInv, Flight, Timeline
<1>2. CASE q.op \in {"trackAdded", "trackUpdated"}
  <2>1. q.at \in DOMAIN ts /\ ts[q.at].id = q.id
    BY <1>1, <1>2 DEF Sendable
  <2>2. ts[q.at] \in Track /\ q.id \in TrackIdsOf(ts) /\ SentTrack(q) = Attributes(ts[q.at])
    BY <1>1, <2>1, TracksTyped DEF TrackIdsOf, SentTrack
  <2> QED
    BY <1>1, <1>2, <2>2, TrackRowKept
<1>3. CASE q.op \in {"clipCreated", "clipUpdated"}
  <2>1. q.id \in ClipIdsOf(ts)
    BY <1>1, <1>3 DEF Sendable
  <2>2. RowsOf(ts).clips[q.id] \in ClipRow /\ Holds(ts, RowsOf(ts).clips[q.id].track, q.id)
    BY <1>1, <2>1, RowsTyped
  <2> QED
    BY <1>1, <1>3, <2>1, <2>2 DEF SentClip
<1> QED
  BY <1>1, <1>2, <1>3

LEMMA TrackPut ==
    ASSUME NEW r, NEW n \in Nat, TypedRows(r, n), NEW m \in Nat, n <= m,
           NEW id \in 1..(m - 1), NEW row \in TrackRow
    PROVE  /\ TypedRows(TrackCreated(r, id, row), m)
           /\ TrackCreated(r, id, row).clips = r.clips
           /\ DOMAIN TrackCreated(r, id, row).tracks = DOMAIN r.tracks \union {id}
           /\ TrackCreated(r, id, row).tracks[id] = row
           /\ \A t \in DOMAIN r.tracks \ {id} : TrackCreated(r, id, row).tracks[t] = r.tracks[t]
<1> DEFINE T == With(r.tracks, id, row)
           s == TrackCreated(r, id, row)
<1>1. s.tracks = T /\ s.clips = r.clips /\ s = [tracks |-> T, clips |-> r.clips]
  BY DEF TrackCreated, TypedRows
<1>2. /\ DOMAIN T = DOMAIN r.tracks \union {id} /\ T[id] = row
      /\ \A t \in DOMAIN r.tracks \ {id} : T[t] = r.tracks[t]
      /\ T \in [DOMAIN T -> TrackRow]
  BY DEF With, TypedRows
<1> HIDE DEF T, s
<1>3. DOMAIN r.clips \subseteq 1..(m - 1) /\ DOMAIN T \subseteq 1..(m - 1)
  <2>1. \A x \in 1..(n - 1) : x \in 1..(m - 1)
    OBVIOUS
  <2> QED
    BY <1>2, <2>1 DEF TypedRows
<1>4. TypedRows(s, m)
  BY <1>1, <1>2, <1>3 DEF TypedRows
<1> QED
  BY <1>1, <1>2, <1>4 DEF s

LEMMA ClipPut ==
    ASSUME NEW r, NEW n \in Nat, TypedRows(r, n), NEW m \in Nat, n <= m,
           NEW id \in 1..(m - 1), NEW row \in ClipRow, row.track \in DOMAIN r.tracks
    PROVE  /\ TypedRows(ClipCreated(r, id, row), m)
           /\ ClipCreated(r, id, row).tracks = r.tracks
           /\ DOMAIN ClipCreated(r, id, row).clips = DOMAIN r.clips \union {id}
           /\ ClipCreated(r, id, row).clips[id] = row
           /\ \A c \in DOMAIN r.clips \ {id} : ClipCreated(r, id, row).clips[c] = r.clips[c]
<1> DEFINE C == With(r.clips, id, row)
           s == ClipCreated(r, id, row)
<1>1. s.clips = C /\ s.tracks = r.tracks /\ s = [tracks |-> r.tracks, clips |-> C]
  BY DEF ClipCreated, TypedRows
<1>2. /\ DOMAIN C = DOMAIN r.clips \union {id} /\ C[id] = row
      /\ \A c \in DOMAIN r.clips \ {id} : C[c] = r.clips[c]
      /\ C \in [DOMAIN C -> ClipRow]
  BY DEF With, TypedRows
<1> HIDE DEF C, s
<1>3. \A c \in DOMAIN C : C[c].track \in DOMAIN r.tracks
  BY <1>2 DEF TypedRows
<1>4. DOMAIN r.tracks \subseteq 1..(m - 1) /\ DOMAIN C \subseteq 1..(m - 1)
  <2>1. \A x \in 1..(n - 1) : x \in 1..(m - 1)
    OBVIOUS
  <2> QED
    BY <1>2, <2>1 DEF TypedRows
<1>5. TypedRows(s, m)
  BY <1>1, <1>2, <1>3, <1>4 DEF TypedRows
<1> QED
  BY <1>1, <1>2, <1>5 DEF s

LEMMA ClipPatchedIsPut ==
    ASSUME NEW r, NEW n \in Nat, TypedRows(r, n), NEW id \in DOMAIN r.clips, NEW row
    PROVE  ClipPatched(r, id, row) = ClipCreated(r, id, row)
<1>1. r = [tracks |-> r.tracks, clips |-> r.clips] /\ r.clips = [c \in DOMAIN r.clips |-> r.clips[c]]
  BY DEF TypedRows
<1>2. DOMAIN r.clips \union {id} = DOMAIN r.clips
  OBVIOUS
<1>3. [r.clips EXCEPT ![id] = row] = With(r.clips, id, row)
  BY <1>1, <1>2 DEF With
<1>4. ClipPatched(r, id, row) = [tracks |-> r.tracks, clips |-> [r.clips EXCEPT ![id] = row]]
  BY <1>1 DEF ClipPatched
<1>5. ClipCreated(r, id, row) = [tracks |-> r.tracks, clips |-> With(r.clips, id, row)]
  BY <1>1 DEF ClipCreated
<1> QED
  BY <1>3, <1>4, <1>5

LEMMA TrackTaken ==
    ASSUME NEW r, NEW n \in Nat, TypedRows(r, n), NEW id
    PROVE  /\ TypedRows(TrackDeleted(r, id), n)
           /\ DOMAIN TrackDeleted(r, id).tracks = DOMAIN r.tracks \ {id}
           /\ DOMAIN TrackDeleted(r, id).clips = {c \in DOMAIN r.clips : r.clips[c].track # id}
           /\ \A t \in DOMAIN r.tracks \ {id} : TrackDeleted(r, id).tracks[t] = r.tracks[t]
           /\ \A c \in DOMAIN TrackDeleted(r, id).clips : TrackDeleted(r, id).clips[c] = r.clips[c]
<1> DEFINE s == TrackDeleted(r, id)
           T == s.tracks
           C == s.clips
<1>1. s = [tracks |-> T, clips |-> C]
  BY DEF TrackDeleted
<1>2. /\ DOMAIN T = DOMAIN r.tracks \ {id} /\ \A t \in DOMAIN T : T[t] = r.tracks[t]
      /\ T = [t \in DOMAIN T |-> T[t]]
  BY DEF TrackDeleted, Drop, Restrict
<1>3. /\ DOMAIN C = {c \in DOMAIN r.clips : r.clips[c].track # id}
      /\ \A c \in DOMAIN C : C[c] = r.clips[c]
      /\ C = [c \in DOMAIN C |-> C[c]]
  BY DEF TrackDeleted, Drop, Restrict
<1> HIDE DEF s
<1>4. T \in [DOMAIN T -> TrackRow] /\ C \in [DOMAIN C -> ClipRow]
  <2>1. (\A t \in DOMAIN T : T[t] \in TrackRow) /\ (\A c \in DOMAIN C : C[c] \in ClipRow)
    BY <1>2, <1>3 DEF TypedRows
  <2> HIDE DEF T, C
  <2> QED
    BY <1>2, <1>3, <2>1
<1> HIDE DEF T, C
<1>5. \A c \in DOMAIN C : C[c].track \in DOMAIN T
  BY <1>2, <1>3 DEF TypedRows
<1>6. DOMAIN T \subseteq 1..(n - 1) /\ DOMAIN C \subseteq 1..(n - 1)
  BY <1>2, <1>3 DEF TypedRows
<1>7. TypedRows(s, n)
  BY <1>1, <1>4, <1>5, <1>6 DEF TypedRows, T, C
<1> QED
  BY <1>2, <1>3, <1>7 DEF s, T, C

LEMMA ClipTaken ==
    ASSUME NEW r, NEW n \in Nat, TypedRows(r, n), NEW id
    PROVE  /\ TypedRows(ClipDeleted(r, id), n)
           /\ ClipDeleted(r, id).tracks = r.tracks
           /\ DOMAIN ClipDeleted(r, id).clips = DOMAIN r.clips \ {id}
           /\ \A c \in DOMAIN r.clips \ {id} : ClipDeleted(r, id).clips[c] = r.clips[c]
<1> DEFINE s == ClipDeleted(r, id)
           C == Drop(r.clips, {id})
<1>1. s = [tracks |-> r.tracks, clips |-> C] /\ s.tracks = r.tracks /\ s.clips = C
  BY DEF ClipDeleted, TypedRows
<1>2. /\ DOMAIN C = DOMAIN r.clips \ {id} /\ \A c \in DOMAIN C : C[c] = r.clips[c]
      /\ C \in [DOMAIN C -> ClipRow]
  BY DEF Drop, Restrict, TypedRows
<1> HIDE DEF s, C
<1>3. \A c \in DOMAIN C : C[c].track \in DOMAIN r.tracks
  BY <1>2 DEF TypedRows
<1>4. DOMAIN C \subseteq 1..(n - 1)
  BY <1>2 DEF TypedRows
<1>5. TypedRows(s, n)
  BY <1>1, <1>2, <1>3, <1>4 DEF TypedRows
<1> QED
  BY <1>1, <1>2, <1>5 DEF s

LEMMA MovesTyped ==
    ASSUME NEW u \in Move
    PROVE  /\ u.id \in Nat
           /\ "track" \in DOMAIN u.set => u.set.track \in Nat
           /\ "start" \in DOMAIN u.set => u.set.start \in Nat
<1>1. u.id \in Nat /\ u.set \in UNION {[D -> Nat] : D \in SUBSET {"track", "start"}}
  BY DEF Move
<1>2. PICK D \in SUBSET {"track", "start"} : u.set \in [D -> Nat]
  BY <1>1
<1> QED
  BY <1>1, <1>2

\* A row is placed elsewhere, and nothing else of it changes.
LEMMA RowPlaced ==
    ASSUME NEW row \in ClipRow, NEW u \in Move
    PROVE  /\ Placed(row, u.set) \in ClipRow
           /\ Placed(row, u.set).track = IF "track" \in DOMAIN u.set THEN u.set.track ELSE row.track
           /\ Placed(row, u.set).start = IF "start" \in DOMAIN u.set THEN u.set.start ELSE row.start
           /\ Body(Placed(row, u.set)) = Body(row)
<1> DEFINE track == IF "track" \in DOMAIN u.set THEN u.set.track ELSE row.track
           start == IF "start" \in DOMAIN u.set THEN u.set.start ELSE row.start
           new == [row EXCEPT !.track = track, !.start = start]
<1>1. track \in Nat /\ start \in Nat
  <2>1. row.track \in Nat /\ row.start \in Nat
    BY DEF ClipRow
  <2> QED
    BY <2>1, MovesTyped
<1>2. Placed(row, u.set) = new
  BY DEF Placed
<1>3. /\ new \in ClipRow /\ new.track = track /\ new.start = start
      /\ new.len = row.len /\ new.in = row.in /\ new.out = row.out
  <2> HIDE DEF track, start
  <2> QED
    BY <1>1 DEF ClipRow
<1> HIDE DEF new
<1> QED
  BY <1>2, <1>3 DEF Body

LEMMA RowsMoved ==
    ASSUME NEW r, NEW n \in Nat, TypedRows(r, n), NEW moves \in SUBSET Move, CanReorder(r, moves)
    PROVE  /\ TypedRows(Reordered(r, moves), n)
           /\ Reordered(r, moves).tracks = r.tracks
           /\ DOMAIN Reordered(r, moves).clips = DOMAIN r.clips
           /\ \A c \in DOMAIN r.clips \ {u.id : u \in moves} : Reordered(r, moves).clips[c] = r.clips[c]
           /\ \A c \in {u.id : u \in moves} :
                 /\ c \in DOMAIN r.clips
                 /\ \E u \in moves :
                       u.id = c /\ Reordered(r, moves).clips[c] = Placed(r.clips[c], u.set)
<1> DEFINE ids == {u.id : u \in moves}
           Set(c) == (CHOOSE u \in moves : u.id = c).set
           C == [c \in DOMAIN r.clips |-> IF c \in ids THEN Placed(r.clips[c], Set(c)) ELSE r.clips[c]]
           s == Reordered(r, moves)
<1>1. s = [tracks |-> r.tracks, clips |-> C] /\ s.tracks = r.tracks /\ s.clips = C
  BY DEF Reordered, TypedRows
<1>2. \A c \in ids : \E u \in moves : u.id = c /\ Set(c) = u.set
  OBVIOUS
<1>3. DOMAIN C = DOMAIN r.clips /\ \A c \in DOMAIN r.clips \ ids : C[c] = r.clips[c]
  OBVIOUS
<1>4. \A c \in ids : c \in DOMAIN r.clips
  BY DEF CanReorder
<1>5. \A c \in ids : C[c] = Placed(r.clips[c], Set(c))
  BY <1>4
<1>6. \A c \in ids : \E u \in moves : u.id = c /\ C[c] = Placed(r.clips[c], u.set)
  BY <1>2, <1>5
<1>7. C = [c \in DOMAIN C |-> C[c]]
  OBVIOUS
<1>8. \A x : x \in {u.id : u \in moves} <=> x \in ids
  OBVIOUS
<1> HIDE DEF C, s, ids, Set
<1>9. ASSUME NEW c \in DOMAIN C PROVE C[c] \in ClipRow /\ C[c].track \in DOMAIN r.tracks
  <2>1. r.clips[c] \in ClipRow /\ r.clips[c].track \in DOMAIN r.tracks
    BY <1>3 DEF TypedRows
  <2>2. CASE c \in ids
    <3>1. PICK u \in moves : u.id = c /\ C[c] = Placed(r.clips[c], u.set)
      BY <1>6, <2>2
    <3>2. u \in Move
      OBVIOUS
    <3>3. "track" \in DOMAIN u.set => u.set.track \in DOMAIN r.tracks
      BY DEF CanReorder
    <3> QED
      BY <2>1, <3>1, <3>2, <3>3, RowPlaced
  <2>3. CASE c \notin ids
    BY <1>3, <2>1, <2>3
  <2> QED
    BY <2>2, <2>3
<1>10. C \in [DOMAIN C -> ClipRow]
  BY <1>7, <1>9
<1>11. TypedRows(s, n)
  BY <1>1, <1>3, <1>9, <1>10 DEF TypedRows
<1> QED
  BY <1>1, <1>3, <1>4, <1>6, <1>11 DEF s, ids

\* What the rows r are when request q is done.
Apart(f, g, S) == \A x \in DOMAIN g \ S : f[x] = g[x]
ServedAs(q, r) ==
    CASE q.op = "title" -> r = rows
      [] q.op = "trackAdded" ->
            /\ r.clips = rows.clips
            /\ DOMAIN r.tracks = DOMAIN rows.tracks \union {fresh}
            /\ r.tracks[fresh].kind = SentTrack(q).kind
            /\ r.tracks[fresh].index = SentTrack(q).index
            /\ Apart(r.tracks, rows.tracks, {fresh})
      [] q.op = "trackUpdated" ->
            /\ r.clips = rows.clips
            /\ q.id \in DOMAIN rows.tracks /\ DOMAIN r.tracks = DOMAIN rows.tracks
            /\ r.tracks[q.id].kind = rows.tracks[q.id].kind
            /\ r.tracks[q.id].index = SentTrack(q).index
            /\ r.tracks[q.id].muted = SentTrack(q).muted
            /\ Apart(r.tracks, rows.tracks, {q.id})
      [] q.op = "trackRemoved" ->
            /\ DOMAIN r.tracks = DOMAIN rows.tracks \ {q.id}
            /\ DOMAIN r.clips = {c \in DOMAIN rows.clips : rows.clips[c].track # q.id}
            /\ Apart(r.tracks, rows.tracks, {q.id})
            /\ \A c \in DOMAIN r.clips : r.clips[c] = rows.clips[c]
      [] q.op = "clipCreated" ->
            /\ r.tracks = rows.tracks
            /\ DOMAIN r.clips = DOMAIN rows.clips \union {fresh}
            /\ Apart(r.clips, rows.clips, {fresh})
      [] q.op = "clipUpdated" ->
            /\ r.tracks = rows.tracks
            /\ q.id \in DOMAIN rows.clips /\ DOMAIN r.clips = DOMAIN rows.clips
            /\ r.clips[q.id].track = rows.clips[q.id].track
            /\ r.clips[q.id].start = SentClip(q).start /\ Body(r.clips[q.id]) = Body(SentClip(q))
            /\ Apart(r.clips, rows.clips, {q.id})
      [] q.op = "clipRemoved" ->
            /\ r.tracks = rows.tracks
            /\ DOMAIN r.clips = DOMAIN rows.clips \ {q.id}
            /\ Apart(r.clips, rows.clips, {q.id})
      [] q.op = "reorder" ->
            /\ r.tracks = rows.tracks /\ DOMAIN r.clips = DOMAIN rows.clips
            /\ Apart(r.clips, rows.clips, {u.id : u \in flight.moves})
            /\ \A c \in {u.id : u \in flight.moves} :
                  /\ c \in DOMAIN rows.clips
                  /\ \E u \in flight.moves : u.id = c /\ r.clips[c] = Placed(rows.clips[c], u.set)

\* The rows stay typed whatever request is done.
LEMMA ServedTyped ==
    ASSUME SaveInv, TypedRows(rows, fresh), fresh \in Nat \ {0}, NEW q \in flight.todo, Accepted(q)
    PROVE  /\ TypedRows(Served(q), IF Creates(q) THEN fresh + 1 ELSE fresh)
           /\ ServedAs(q, Served(q))
<1>0. q \in Request /\ q.op \in Range(Operations) /\ flight.moves \in SUBSET Move
  BY OperationsAre DEF SaveInv, Flight
<1>1. CASE q.op \in {"title", "trackRemoved", "clipRemoved", "reorder"}
  <2>1. ~Creates(q)
    BY <1>1 DEF Creates
  <2>2. CASE q.op = "title"
    BY <2>1, <2>2 DEF Served, ServedAs
  <2>3. CASE q.op = "trackRemoved"
    <3>1. Served(q) = TrackDeleted(rows, q.id)
      BY <2>3 DEF Served
    <3> QED
      BY <2>1, <2>3, <3>1, TrackTaken DEF ServedAs, Apart
  <2>4. CASE q.op = "clipRemoved"
    <3>1. Served(q) = ClipDeleted(rows, q.id)
      BY <2>4 DEF Served
    <3> QED
      BY <2>1, <2>4, <3>1, ClipTaken DEF ServedAs, Apart
  <2>5. CASE q.op = "reorder"
    <3>1. Served(q) = Reordered(rows, flight.moves) /\ CanReorder(rows, flight.moves)
      BY <2>5 DEF Served, Accepted
    <3> QED
      BY <1>0, <2>1, <2>5, <3>1, RowsMoved DEF ServedAs, Apart
  <2> QED
    BY <1>1, <2>2, <2>3, <2>4, <2>5
<1>2. CASE q.op = "trackAdded"
  <2> DEFINE sent == SentTrack(q)
             row == [sent EXCEPT !.muted = FALSE]
  <2>1. sent \in TrackRow
    BY <1>2, SentTyped
  <2>2. Served(q) = TrackCreated(rows, fresh, row) /\ Creates(q)
    BY <1>2 DEF Served, Creates
  <2>3. fresh + 1 \in Nat /\ fresh <= fresh + 1 /\ fresh \in 1..((fresh + 1) - 1)
    OBVIOUS
  <2> HIDE DEF sent
  <2>4. row \in TrackRow /\ row.kind = sent.kind /\ row.index = sent.index
    BY <2>1 DEF TrackRow
  <2> HIDE DEF row
  <2> DEFINE r == TrackCreated(rows, fresh, row)
  <2>5. /\ TypedRows(r, fresh + 1) /\ r.clips = rows.clips
        /\ DOMAIN r.tracks = DOMAIN rows.tracks \union {fresh} /\ r.tracks[fresh] = row
        /\ \A t \in DOMAIN rows.tracks \ {fresh} : r.tracks[t] = rows.tracks[t]
    BY <2>3, <2>4, TrackPut
  <2> HIDE DEF r
  <2>6. ServedAs(q, r)
    BY <1>2, <2>4, <2>5 DEF ServedAs, Apart, sent
  <2> QED
    BY <2>2, <2>5, <2>6 DEF r
<1>3. CASE q.op = "trackUpdated"
  <2> DEFINE row == TrackPatched(q)
             r == TrackCreated(rows, q.id, row)
  <2>1. SentTrack(q) \in TrackRow
    BY <1>3, SentTyped
  <2>2. q.id \in DOMAIN rows.tracks
    BY <1>3 DEF Accepted, Its, TracksOf
  <2>3. Served(q) = TrackCreated(rows, q.id, row) /\ ~Creates(q)
    BY <1>3 DEF Served, Creates
  <2>4. row \in TrackRow
    BY <2>1, <2>2 DEF TrackPatched, TypedRows, TrackRow
  <2>5. row.kind = rows.tracks[q.id].kind /\ row.index = SentTrack(q).index
        /\ row.muted = SentTrack(q).muted
    BY <2>1, <2>2 DEF TrackPatched, TypedRows, TrackRow
  <2>6. q.id \in 1..(fresh - 1) /\ fresh <= fresh
    BY <2>2 DEF TypedRows
  <2> HIDE DEF row
  <2>7. /\ TypedRows(r, fresh) /\ r.clips = rows.clips
        /\ DOMAIN r.tracks = DOMAIN rows.tracks \union {q.id} /\ r.tracks[q.id] = row
        /\ \A t \in DOMAIN rows.tracks \ {q.id} : r.tracks[t] = rows.tracks[t]
    BY <2>4, <2>6, TrackPut
  <2> HIDE DEF r
  <2>8. ServedAs(q, r)
    BY <1>3, <2>2, <2>5, <2>7 DEF ServedAs, Apart
  <2> QED
    BY <2>3, <2>7, <2>8 DEF r
<1>4. CASE q.op = "clipCreated"
  <2>1. SentClip(q) \in ClipRow /\ SentClip(q).track \in DOMAIN rows.tracks
    BY <1>4, SentTyped DEF Accepted, Its, TracksOf
  <2>2. Served(q) = ClipCreated(rows, fresh, SentClip(q)) /\ Creates(q)
    BY <1>4 DEF Served, Creates
  <2>3. fresh + 1 \in Nat /\ fresh <= fresh + 1 /\ fresh \in 1..((fresh + 1) - 1)
    OBVIOUS
  <2> DEFINE r == ClipCreated(rows, fresh, SentClip(q))
  <2>4. /\ TypedRows(r, fresh + 1) /\ r.tracks = rows.tracks
        /\ DOMAIN r.clips = DOMAIN rows.clips \union {fresh}
        /\ \A c \in DOMAIN rows.clips \ {fresh} : r.clips[c] = rows.clips[c]
    BY <2>1, <2>3, ClipPut
  <2> HIDE DEF r
  <2>5. ServedAs(q, r)
    BY <1>4, <2>4 DEF ServedAs, Apart
  <2> QED
    BY <2>2, <2>4, <2>5 DEF r
<1>5. CASE q.op = "clipUpdated"
  <2> DEFINE sent == SentClip(q)
             old == rows.clips[q.id]
             row == [sent EXCEPT !.track = old.track]
  <2>1. sent \in ClipRow
    BY <1>5, SentTyped
  <2>2. q.id \in DOMAIN rows.clips
    BY <1>5 DEF Accepted
  <2>3. Served(q) = ClipPatched(rows, q.id, row) /\ ~Creates(q)
    BY <1>5 DEF Served, Creates
  <2>4. old.track \in DOMAIN rows.tracks /\ old.track \in Nat
    BY <2>2 DEF TypedRows, ClipRow
  <2> HIDE DEF sent, old
  <2>5. row \in ClipRow /\ row.track = old.track /\ row.start = sent.start /\ Body(row) = Body(sent)
    BY <2>1, <2>4 DEF ClipRow, Body
  <2> HIDE DEF row
  <2>6. q.id \in 1..(fresh - 1) /\ fresh <= fresh
    BY <2>2 DEF TypedRows
  <2>7. ClipPatched(rows, q.id, row) = ClipCreated(rows, q.id, row)
    BY <2>2, ClipPatchedIsPut
  <2> DEFINE r == ClipCreated(rows, q.id, row)
  <2>8. /\ TypedRows(r, fresh) /\ r.tracks = rows.tracks
        /\ DOMAIN r.clips = DOMAIN rows.clips \union {q.id} /\ r.clips[q.id] = row
        /\ \A c \in DOMAIN rows.clips \ {q.id} : r.clips[c] = rows.clips[c]
    BY <2>4, <2>5, <2>6, ClipPut
  <2> HIDE DEF r
  <2>9. ServedAs(q, r)
    BY <1>5, <2>2, <2>5, <2>8 DEF ServedAs, Apart, sent, old
  <2> QED
    BY <2>3, <2>7, <2>8, <2>9 DEF r
<1> QED
  BY <1>0, <1>1, <1>2, <1>3, <1>4, <1>5, OperationsAre

\* No two tracks of a project get one index.
LEMMA ServedIndexed ==
    ASSUME SaveInv, RowsInv, fresh \in Nat \ {0}, NEW q \in flight.todo, Accepted(q), NEW o,
           o = IF q.op = "trackAdded" THEN With(owner, fresh, flight.project) ELSE owner
    PROVE  Indexed(Served(q), o)
<1> DEFINE r == Served(q)
           p == flight.project
<1>1. q \in Request /\ q.op \in Range(Operations) /\ ServedAs(q, r)
  BY ServedTyped, OperationsAre DEF SaveInv, RowsInv, Flight
<1>2. Indexed(rows, owner) /\ DOMAIN rows.tracks \subseteq DOMAIN owner
  BY DEF RowsInv
<1> HIDE DEF r
<1>3. \A S, k, i : TrackFits(TracksWith(rows, S), k, i) =>
         \A t \in S : ~(rows.tracks[t].kind = k /\ rows.tracks[t].index = i)
  BY DEF TrackFits, TracksWith, Restrict
<1>4. CASE q.op = "trackAdded"
  <2>1. /\ DOMAIN r.tracks = DOMAIN rows.tracks \union {fresh}
        /\ r.tracks[fresh].kind = SentTrack(q).kind /\ r.tracks[fresh].index = SentTrack(q).index
        /\ \A t \in DOMAIN rows.tracks \ {fresh} : r.tracks[t] = rows.tracks[t]
    BY <1>1, <1>4 DEF ServedAs, Apart
  <2>2. o[fresh] = p /\ \A t \in DOMAIN rows.tracks \ {fresh} : o[t] = owner[t]
    BY <1>2, <1>4 DEF With
  <2>3. \A t \in DOMAIN rows.tracks : owner[t] = p =>
           ~(rows.tracks[t].kind = SentTrack(q).kind /\ rows.tracks[t].index = SentTrack(q).index)
    <3>1. TrackFits(TracksWith(rows, Its), SentTrack(q).kind, SentTrack(q).index)
      BY <1>4 DEF Accepted
    <3> QED
      BY <1>3, <3>1 DEF Its, TracksOf
  <2>4. Indexed(r, o)
    BY <1>2, <2>1, <2>2, <2>3 DEF Indexed
  <2> QED
    BY <2>4 DEF r
<1>5. CASE q.op = "trackUpdated"
  <2>1. /\ DOMAIN r.tracks = DOMAIN rows.tracks /\ q.id \in DOMAIN rows.tracks
        /\ r.tracks[q.id].kind = rows.tracks[q.id].kind
        /\ r.tracks[q.id].index = SentTrack(q).index
        /\ \A t \in DOMAIN rows.tracks \ {q.id} : r.tracks[t] = rows.tracks[t]
    BY <1>1, <1>5 DEF ServedAs, Apart
  <2>2. o = owner /\ owner[q.id] = p
    BY <1>5 DEF Accepted, Its, TracksOf
  <2>3. \A t \in DOMAIN rows.tracks \ {q.id} : owner[t] = p =>
           ~(/\ rows.tracks[t].kind = rows.tracks[q.id].kind
             /\ rows.tracks[t].index = SentTrack(q).index)
    <3>1. TrackFits(TracksWith(rows, Its \ {q.id}), TrackPatched(q).kind, TrackPatched(q).index)
      BY <1>5 DEF Accepted
    <3>2. /\ TrackPatched(q).kind = rows.tracks[q.id].kind
          /\ TrackPatched(q).index = SentTrack(q).index
      BY <2>1 DEF TrackPatched, RowsInv, TypedRows, TrackRow
    <3> QED
      BY <1>3, <3>1, <3>2 DEF Its, TracksOf
  <2>4. Indexed(r, o)
    BY <1>2, <2>1, <2>2, <2>3 DEF Indexed
  <2> QED
    BY <2>4 DEF r
<1>6. CASE q.op \notin {"trackAdded", "trackUpdated"}
  <2>1. \A t \in DOMAIN r.tracks : t \in DOMAIN rows.tracks /\ r.tracks[t] = rows.tracks[t]
    BY <1>1, <1>6, OperationsAre DEF ServedAs, Apart
  <2>2. Indexed(r, o)
    BY <1>2, <1>6, <2>1 DEF Indexed
  <2> QED
    BY <2>2 DEF r
<1> QED
  BY <1>4, <1>5, <1>6

\* What a request that is done leaves of the rows and of the ids.
LEMMA DoneTyped ==
    ASSUME SaveInv, RowsInv, fresh \in Nat \ {0}, OriginBound, NEW q \in flight.todo, q.id < fresh,
           Done(q)
    PROVE  RowsInv' /\ OriginBound' /\ fresh' \in Nat \ {0} /\ fresh <= fresh'
           /\ fresh' = IF Creates(q) THEN fresh + 1 ELSE fresh
<1>1. fresh' = (IF Creates(q) THEN fresh + 1 ELSE fresh) /\ rows' = Served(q)
  BY DEF Done
<1>2. fresh' \in Nat \ {0} /\ fresh <= fresh'
  BY <1>1
<1>3. TypedRows(rows', fresh')
  <2>1. TypedRows(Served(q), IF Creates(q) THEN fresh + 1 ELSE fresh)
    BY ServedTyped DEF RowsInv, Done
  <2> QED
    BY <1>1, <2>1
<1>4. rowTitle' \in [Projects -> 0..1]
  BY DEF Done, RowsInv, SaveInv, Flight, Timeline
<1>5. OriginBound'
  <2>1. CASE Creates(q)
    <3>1. origin' = With(origin, fresh, q.id) /\ fresh' = fresh + 1 /\ q.id \in Nat
      BY <2>1, OperationsAre DEF Done, SaveInv, Flight
    <3>2. /\ DOMAIN origin' = DOMAIN origin \union {fresh} /\ origin'[fresh] = q.id
          /\ \A i \in DOMAIN origin : i # fresh => origin'[i] = origin[i]
      BY <3>1 DEF With
    <3> SUFFICES ASSUME NEW i \in DOMAIN origin'
                 PROVE  i \in Nat /\ i < fresh' /\ origin'[i] \in Nat /\ origin'[i] < fresh'
      BY DEF OriginBound
    <3>3. CASE i = fresh
      BY <3>1, <3>2, <3>3
    <3>4. CASE i # fresh
      <4>1. /\ i \in DOMAIN origin /\ origin'[i] = origin[i]
        BY <3>2, <3>4
      <4> QED
        BY <3>1, <4>1 DEF OriginBound
    <3> QED
      BY <3>3, <3>4
  <2>2. CASE ~Creates(q)
    BY <2>2 DEF Done, OriginBound
  <2> QED
    BY <2>1, <2>2
<1>6. Indexed(rows', owner')
  BY <1>1, ServedIndexed DEF Done
<1>7. Owned(owner', fresh') /\ DOMAIN rows'.tracks \subseteq DOMAIN owner'
  <2>1. q.op \in Range(Operations) /\ ServedAs(q, rows')
    BY <1>1, ServedTyped, OperationsAre DEF Done, SaveInv, RowsInv, Flight
  <2>2. /\ Owned(owner, fresh) /\ DOMAIN rows.tracks \subseteq DOMAIN owner
        /\ flight.project \in Projects
    BY DEF RowsInv, SaveInv, Flight
  <2>3. CASE q.op = "trackAdded"
    <3>1. owner' = With(owner, fresh, flight.project) /\ fresh' = fresh + 1
      BY <1>1, <2>3 DEF Done, Creates
    <3>2. /\ DOMAIN owner' = DOMAIN owner \union {fresh} /\ owner'[fresh] = flight.project
          /\ \A t \in DOMAIN owner : t # fresh => owner'[t] = owner[t]
          /\ owner' \in [DOMAIN owner' -> Projects]
      BY <2>2, <3>1 DEF With, Owned
    <3>3. DOMAIN owner' \subseteq 1..(fresh' - 1)
      BY <2>2, <3>1, <3>2 DEF Owned
    <3>4. \A t \in FirstTracks : t \in DOMAIN owner' /\ owner'[t] = ProjectOf[t]
      BY <2>2, <3>2 DEF Owned
    <3>5. DOMAIN rows'.tracks \subseteq DOMAIN owner'
      BY <2>1, <2>2, <2>3, <3>2 DEF ServedAs
    <3> QED
      BY <3>2, <3>3, <3>4, <3>5 DEF Owned
  <2>4. CASE q.op # "trackAdded"
    <3>1. owner' = owner
      BY <2>4 DEF Done
    <3>2. DOMAIN rows'.tracks \subseteq DOMAIN rows.tracks
      BY <2>1, <2>4, OperationsAre DEF ServedAs
    <3>3. 1..(fresh - 1) \subseteq 1..(fresh' - 1)
      BY <1>2, Widened
    <3> QED
      BY <2>2, <3>1, <3>2, <3>3 DEF Owned
  <2> QED
    BY <2>3, <2>4
<1> QED
  BY <1>1, <1>2, <1>3, <1>4, <1>5, <1>6, <1>7 DEF RowsInv

-----------------------------------------------------------------------------
(* What the store makes of an answer.                                      *)

\* us is ts with the tracks that were sent as q called id; clips called id
\* may say something else.
RenamedAs(us, ts, q, id) ==
    /\ us \in Seq(Track) /\ Len(us) = Len(ts)
    /\ \A k \in 1..Len(ts) :
          /\ us[k].kind = ts[k].kind /\ us[k].index = ts[k].index /\ us[k].muted = ts[k].muted
          /\ us[k].id = IF q.op = "trackAdded" /\ ts[k].id = q.id THEN id ELSE ts[k].id
          /\ DOMAIN us[k].clips = DOMAIN ts[k].clips
          /\ \A j \in DOMAIN ts[k].clips :
                /\ us[k].clips[j].id = ts[k].clips[j].id
                /\ ts[k].clips[j].id # id => us[k].clips[j] = ts[k].clips[j]

LEMMA RewrittenRenames ==
    ASSUME SaveInv, tracks \in Seq(Track), NEW q \in flight.todo, NEW id \in Nat
    PROVE  RenamedAs(Rewritten(q, id), tracks, q, id)
<1> DEFINE us == Rewritten(q, id)
           n == Len(tracks)
           Fits(k) == /\ us[k] \in Track
                      /\ us[k].kind = tracks[k].kind /\ us[k].index = tracks[k].index
                      /\ us[k].muted = tracks[k].muted
                      /\ us[k].id = (IF q.op = "trackAdded" /\ tracks[k].id = q.id THEN id
                                     ELSE tracks[k].id)
                      /\ DOMAIN us[k].clips = DOMAIN tracks[k].clips
                      /\ \A j \in DOMAIN tracks[k].clips :
                            /\ us[k].clips[j].id = tracks[k].clips[j].id
                            /\ tracks[k].clips[j].id # id => us[k].clips[j] = tracks[k].clips[j]
<1>1. n \in Nat /\ DOMAIN tracks = 1..n /\ \A k \in 1..n : tracks[k] \in Track
  BY TracksTyped
<1>2. CASE q.op = "trackAdded"
  <2>1. us = [k \in DOMAIN tracks |->
                IF tracks[k].id = q.id THEN [tracks[k] EXCEPT !.id = id] ELSE tracks[k]]
    BY <1>2 DEF Rewritten, OnTrack
  <2>2. ASSUME NEW k \in 1..n PROVE Fits(k)
    <3>1. CASE tracks[k].id = q.id
      <4>1. us[k] = [tracks[k] EXCEPT !.id = id]
        BY <1>1, <2>1, <3>1
      <4>2. /\ us[k] \in Track /\ us[k].id = id /\ us[k].kind = tracks[k].kind
            /\ us[k].index = tracks[k].index /\ us[k].muted = tracks[k].muted
            /\ us[k].clips = tracks[k].clips
        BY <1>1, <4>1 DEF Track
      <4> HIDE DEF us
      <4> QED
        BY <1>2, <3>1, <4>2
    <3>2. CASE tracks[k].id # q.id
      <4>1. us[k] = tracks[k]
        BY <1>1, <2>1, <3>2
      <4> HIDE DEF us
      <4> QED
        BY <1>1, <3>2, <4>1
    <3> QED
      BY <3>1, <3>2
  <2>3. DOMAIN us = 1..n /\ us = [k \in 1..n |-> us[k]]
    BY <1>1, <2>1
  <2> HIDE DEF us
  <2>4. us \in Seq(Track) /\ Len(us) = n
    BY <1>1, <2>2, <2>3
  <2> QED
    BY <2>2, <2>4 DEF RenamedAs, us
<1>3. CASE q.op = "clipCreated"
  <2> DEFINE r == SentClip(q)
             same == [id |-> id, start |-> r.start, in |-> r.in, out |-> r.out, len |-> r.len]
             new(k) == [j \in DOMAIN tracks[k].clips |->
                          IF tracks[k].clips[j].id = id THEN same ELSE tracks[k].clips[j]]
  <2>1. same \in Clip /\ same.id = id
    <3>1. r \in ClipRow
      BY <1>3, SentTyped
    <3> HIDE DEF r
    <3> QED
      BY <3>1 DEF ClipRow, Clip
  <2>2. us = [k \in DOMAIN tracks |-> [tracks[k] EXCEPT !.clips = new(k)]]
    BY <1>3 DEF Rewritten, OnClip, OnClips
  <2> HIDE DEF same
  <2>3. ASSUME NEW k \in 1..n PROVE Fits(k)
    <3>1. tracks[k].clips \in Seq(Clip)
      BY <1>1, TracksTyped
    <3>2. \A j \in DOMAIN tracks[k].clips : tracks[k].clips[j] \in Clip
      BY <3>1, ClipsTyped
    <3>3. /\ new(k) \in Seq(Clip) /\ DOMAIN new(k) = DOMAIN tracks[k].clips
          /\ \A j \in DOMAIN tracks[k].clips :
                /\ new(k)[j].id = tracks[k].clips[j].id
                /\ tracks[k].clips[j].id # id => new(k)[j] = tracks[k].clips[j]
      BY <2>1, <3>1, <3>2
    <3>4. us[k] = [tracks[k] EXCEPT !.clips = new(k)]
      BY <1>1, <2>2
    <3> HIDE DEF new, us
    <3>5. /\ us[k] \in Track /\ us[k].id = tracks[k].id /\ us[k].kind = tracks[k].kind
          /\ us[k].index = tracks[k].index /\ us[k].muted = tracks[k].muted
          /\ us[k].clips = new(k)
      BY <1>1, <3>3, <3>4 DEF Track
    <3> QED
      BY <1>3, <3>3, <3>5
  <2>4. DOMAIN us = 1..n /\ us = [k \in 1..n |-> us[k]]
    BY <1>1, <2>2
  <2> HIDE DEF us
  <2>5. us \in Seq(Track) /\ Len(us) = n
    BY <1>1, <2>3, <2>4
  <2> QED
    BY <2>3, <2>5 DEF RenamedAs, us
<1>4. CASE q.op \notin {"trackAdded", "clipCreated"}
  <2>1. us = tracks
    BY <1>4 DEF Rewritten
  <2> HIDE DEF us
  <2> QED
    BY <1>4, <2>1 DEF RenamedAs, us
<1> QED
  BY <1>2, <1>3, <1>4

LEMMA RenamedIds ==
    ASSUME NEW ts \in Seq(Track), NEW us, NEW q, NEW id, RenamedAs(us, ts, q, id)
    PROVE  /\ us \in Seq(Track) /\ DOMAIN us = DOMAIN ts
           /\ \A k \in DOMAIN ts : /\ us[k].kind = ts[k].kind
                                   /\ OwnIds(us[k]) = OwnIds(ts[k])
                                   /\ us[k].id \in {ts[k].id, id}
           /\ ClipIdsOf(us) = ClipIdsOf(ts)
           /\ TrackIdsOf(us) \subseteq TrackIdsOf(ts) \union {id}
           /\ q.op # "trackAdded" => TrackIdsOf(us) = TrackIdsOf(ts)
<1>1. us \in Seq(Track) /\ DOMAIN us = 1..Len(ts) /\ DOMAIN ts = 1..Len(ts)
  BY TracksTyped DEF RenamedAs
<1>2. ASSUME NEW k \in DOMAIN ts
      PROVE  /\ us[k].kind = ts[k].kind /\ us[k].id \in {ts[k].id, id}
             /\ q.op # "trackAdded" => us[k].id = ts[k].id
             /\ OwnIds(us[k]) = OwnIds(ts[k])
  <2>1. /\ DOMAIN us[k].clips = DOMAIN ts[k].clips
        /\ \A j \in DOMAIN ts[k].clips : us[k].clips[j].id = ts[k].clips[j].id
    BY <1>1 DEF RenamedAs
  <2>2. OwnIds(us[k]) = OwnIds(ts[k])
    BY <2>1 DEF OwnIds
  <2> QED
    BY <1>1, <2>2 DEF RenamedAs
<1>3. ClipIdsOf(us) = ClipIdsOf(ts)
  <2>1. \A c : c \in ClipIdsOf(us) <=> c \in ClipIdsOf(ts)
    BY <1>1, <1>2, WhoHasWhat
  <2> QED
    BY <2>1 DEF ClipIdsOf
<1>4. TrackIdsOf(us) \subseteq TrackIdsOf(ts) \union {id}
  BY <1>1, <1>2 DEF TrackIdsOf
<1>5. q.op # "trackAdded" => TrackIdsOf(us) = TrackIdsOf(ts)
  BY <1>1, <1>2 DEF TrackIdsOf
<1> QED
  BY <1>1, <1>2, <1>3, <1>4, <1>5

-----------------------------------------------------------------------------
(* What the page loads.                                                    *)

LEMMA TracksInOrder ==
    ASSUME TypedRows(rows, fresh), fresh \in Nat, Indexed(rows, owner), NEW p
    PROVE  Lists(InOrder(TracksOf(p), Above), TracksOf(p))
<1> DEFINE S == TracksOf(p)
           R == {x \in S \X S : Above(x[1], x[2])}
           place == [x \in S |-> 1 + Cardinality({y \in S : Above(y, x)})]
           all == [k \in 1..Cardinality(S) |-> CHOOSE x \in S : place[x] = k]
<1>0. S \subseteq DOMAIN rows.tracks
  BY DEF TracksOf
<1>1. IsFiniteSet(S)
  <2>1. IsFiniteSet(1..(fresh - 1)) /\ S \subseteq 1..(fresh - 1)
    BY <1>0, FS_Interval DEF TypedRows
  <2> HIDE DEF S
  <2> QED
    BY <2>1, FS_Subset
<1>2. \A x, y \in S : <<x, y>> \in R <=> Above(x, y)
  OBVIOUS
<1>3. \A x \in S : rows.tracks[x].kind \in {"VIDEO", "AUDIO"} /\ rows.tracks[x].index \in Nat
  BY <1>0 DEF TypedRows, TrackRow, Kinds
<1>4. StrictOrder(R, S)
  <2>1. \A x \in S : ~Above(x, x)
    BY <1>3 DEF Above
  <2>2. \A x, y, z \in S : Above(x, y) /\ Above(y, z) => Above(x, z)
    BY <1>3 DEF Above
  <2>3. \A x, y \in S : x # y => Above(x, y) \/ Above(y, x)
    <3>1. \A x, y \in S : x # y =>
             rows.tracks[x].kind # rows.tracks[y].kind \/ rows.tracks[x].index # rows.tracks[y].index
      BY <1>0 DEF Indexed, TracksOf
    <3> QED
      BY <1>3, <3>1 DEF Above
  <2> HIDE DEF S, R
  <2> QED
    BY <1>2, <2>1, <2>2, <2>3 DEF StrictOrder
<1>5. place = PlacesIn(R, S)
  <2>1. \A x \in S : {y \in S : Above(y, x)} = {y \in S : <<y, x>> \in R}
    BY <1>2
  <2> HIDE DEF S, R
  <2> QED
    BY <2>1 DEF PlacesIn
<1>6. InOrder(S, Above) = all
  BY DEF InOrder
<1>7. Lists(all, S)
  <2>1. all = [k \in 1..Cardinality(S) |-> CHOOSE x \in S : place[x] = k]
    OBVIOUS
  <2> HIDE DEF S, R, place, all
  <2> QED
    BY <1>1, <1>4, <1>5, <2>1, ListOfOrder
<1> QED
  BY <1>6, <1>7

LEMMA ClipsInOrder ==
    ASSUME TypedRows(rows, fresh), fresh \in Nat, NEW S \in SUBSET DOMAIN rows.clips
    PROVE  Lists(InOrder(S, Earlier), S)
<1> DEFINE R == {p \in S \X S : Earlier(p[1], p[2])}
           place == [x \in S |-> 1 + Cardinality({y \in S : Earlier(y, x)})]
           all == [p \in 1..Cardinality(S) |-> CHOOSE x \in S : place[x] = p]
<1>1. IsFiniteSet(S)
  <2>1. IsFiniteSet(1..(fresh - 1)) /\ S \subseteq 1..(fresh - 1)
    BY FS_Interval DEF TypedRows
  <2> QED
    BY <2>1, FS_Subset
<1>2. \A x, y \in S : <<x, y>> \in R <=> Earlier(x, y)
  OBVIOUS
<1>3. \A x \in S : rows.clips[x].start \in Nat /\ x \in Nat
  BY DEF TypedRows, ClipRow
<1>4. StrictOrder(R, S)
  <2>1. \A x \in S : ~Earlier(x, x)
    BY <1>3 DEF Earlier
  <2>2. \A x, y, z \in S : Earlier(x, y) /\ Earlier(y, z) => Earlier(x, z)
    BY <1>3 DEF Earlier
  <2>3. \A x, y \in S : x # y => Earlier(x, y) \/ Earlier(y, x)
    BY <1>3 DEF Earlier
  <2> HIDE DEF R
  <2> QED
    BY <1>2, <2>1, <2>2, <2>3 DEF StrictOrder
<1>5. place = PlacesIn(R, S)
  <2>1. \A x \in S : {y \in S : Earlier(y, x)} = {y \in S : <<y, x>> \in R}
    BY <1>2
  <2> HIDE DEF R
  <2> QED
    BY <2>1 DEF PlacesIn
<1>6. InOrder(S, Earlier) = all
  BY DEF InOrder
<1>7. Lists(all, S)
  <2>1. all = [p \in 1..Cardinality(S) |-> CHOOSE x \in S : place[x] = p]
    OBVIOUS
  <2> HIDE DEF R, place, all
  <2> QED
    BY <1>1, <1>4, <1>5, <2>1, ListOfOrder
<1> QED
  BY <1>6, <1>7

LEMMA FullTyped ==
    ASSUME TypedRows(rows, fresh), fresh \in Nat, NEW t \in DOMAIN rows.tracks
    PROVE  /\ Full(t) \in Track /\ Full(t).id = t /\ Attributes(Full(t)) = rows.tracks[t]
           /\ \A j \in DOMAIN Full(t).clips :
                 \E c \in DOMAIN rows.clips : rows.clips[c].track = t /\ Full(t).clips[j] = Plain(c)
           /\ \A c \in DOMAIN rows.clips : rows.clips[c].track = t =>
                 \E j \in DOMAIN Full(t).clips : Full(t).clips[j] = Plain(c)
<1> DEFINE S == {c \in DOMAIN rows.clips : rows.clips[c].track = t}
           all == InOrder(S, Earlier)
           n == Cardinality(S)
           clips == [j \in DOMAIN all |-> Plain(all[j])]
           r == rows.tracks[t]
<1>1. Lists(all, S)
  BY ClipsInOrder
<1>2. /\ n \in Nat /\ DOMAIN all = 1..n /\ \A p \in 1..n : all[p] \in S
      /\ \A x \in S : \E p \in 1..n : all[p] = x
  <2> HIDE DEF S, all
  <2> QED
    BY <1>1 DEF Lists, n
<1>3. Full(t) = [id |-> t, kind |-> r.kind, index |-> r.index, muted |-> r.muted, clips |-> clips]
  BY DEF Full
<1>4. r \in TrackRow /\ t \in Nat
  BY DEF TypedRows
<1>5. ASSUME NEW c \in DOMAIN rows.clips PROVE Plain(c) \in Clip /\ Plain(c).id = c
  <2>1. rows.clips[c] \in ClipRow /\ c \in Nat
    BY DEF TypedRows
  <2> QED
    BY <2>1 DEF Plain, Clip, ClipRow
<1> HIDE DEF all, n
<1>6. clips \in Seq(Clip) /\ DOMAIN clips = 1..n /\ \A j \in 1..n : clips[j] = Plain(all[j])
  <2>1. \A j \in 1..n : Plain(all[j]) \in Clip
    BY <1>2, <1>5
  <2> HIDE DEF S
  <2> QED
    BY <1>2, <2>1
<1> HIDE DEF clips
<1>7. Full(t) \in Track /\ Full(t).id = t /\ Full(t).clips = clips
  BY <1>3, <1>4, <1>6 DEF Track, TrackRow
<1>8. Attributes(Full(t)) = r
  BY <1>3, <1>4 DEF Attributes, TrackRow
<1>9. \A j \in DOMAIN clips : all[j] \in S /\ clips[j] = Plain(all[j])
  BY <1>2, <1>6
<1> QED
  BY <1>2, <1>6, <1>7, <1>8, <1>9

LEMMA LoadedTyped ==
    ASSUME TypedRows(rows, fresh), fresh \in Nat, Indexed(rows, owner), NEW p
    PROVE  /\ Loaded(p) \in Seq(Track)
           /\ \A k \in DOMAIN Loaded(p) : \E t \in TracksOf(p) : Loaded(p)[k] = Full(t)
           /\ \A t \in TracksOf(p) : \E k \in DOMAIN Loaded(p) : Loaded(p)[k] = Full(t)
           /\ \A k, m \in DOMAIN Loaded(p) : Loaded(p)[k].id = Loaded(p)[m].id => k = m
<1> DEFINE S == TracksOf(p)
           all == InOrder(S, Above)
           n == Cardinality(S)
<1>1. Lists(all, S)
  BY TracksInOrder
<1>2. /\ n \in Nat /\ DOMAIN all = 1..n /\ \A k \in 1..n : all[k] \in S
      /\ \A x \in S : \E k \in 1..n : all[k] = x
      /\ \A k, m \in 1..n : all[k] = all[m] => k = m
  <2> HIDE DEF S, all
  <2> QED
    BY <1>1 DEF Lists, n
<1>3. Loaded(p) = [k \in DOMAIN all |-> Full(all[k])]
  BY DEF Loaded
<1>4. \A t \in S : Full(t) \in Track /\ Full(t).id = t
  BY FullTyped DEF TracksOf
<1> HIDE DEF all, n, S
<1>5. DOMAIN Loaded(p) = 1..n /\ \A k \in 1..n : all[k] \in S /\ Loaded(p)[k] = Full(all[k])
  BY <1>2, <1>3
<1>6. Loaded(p) \in Seq(Track)
  BY <1>2, <1>3, <1>4
<1>7. \A k, m \in DOMAIN Loaded(p) : Loaded(p)[k].id = Loaded(p)[m].id => k = m
  BY <1>2, <1>4, <1>5
<1> QED
  BY <1>2, <1>5, <1>6, <1>7 DEF S

\* Rows made of what was loaded are the rows.
LEMMA LoadedIsRows ==
    ASSUME TypedRows(rows, fresh), fresh \in Nat, Indexed(rows, owner), NEW p
    PROVE  /\ TrackIdsOf(Loaded(p)) = TracksOf(p)
           /\ ClipIdsOf(Loaded(p)) = {c \in DOMAIN rows.clips : rows.clips[c].track \in TracksOf(p)}
           /\ \A t \in TracksOf(p) : RowsOf(Loaded(p)).tracks[t] = rows.tracks[t]
           /\ \A c \in ClipIdsOf(Loaded(p)) : RowsOf(Loaded(p)).clips[c] = rows.clips[c]
<1> DEFINE ts == Loaded(p)
           S == TracksOf(p)
           C == {c \in DOMAIN rows.clips : rows.clips[c].track \in S}
<1>0. S \subseteq DOMAIN rows.tracks
  BY DEF TracksOf
<1>1. /\ ts \in Seq(Track)
      /\ \A k \in DOMAIN ts : \E t \in S : ts[k] = Full(t)
      /\ \A t \in S : \E k \in DOMAIN ts : ts[k] = Full(t)
  BY LoadedTyped
<1> HIDE DEF ts, S
<1>2. \A t \in S : Full(t).id = t /\ Attributes(Full(t)) = rows.tracks[t]
  BY <1>0, FullTyped
<1>3. \A k \in DOMAIN ts : \E t \in S : ts[k].id = t /\ ts[k] = Full(t)
  BY <1>1, <1>2
<1>4. TrackIdsOf(ts) = S
  <2>1. \A t : t \in TrackIdsOf(ts) <=> \E k \in DOMAIN ts : ts[k].id = t
    BY DEF TrackIdsOf
  <2>2. \A t \in TrackIdsOf(ts) : t \in S
    BY <1>3, <2>1
  <2>3. \A t \in S : t \in TrackIdsOf(ts)
    BY <1>1, <1>2, <2>1
  <2> QED
    BY <2>2, <2>3
<1>5. \A t \in S : RowsOf(ts).tracks[t] = rows.tracks[t]
  <2> SUFFICES ASSUME NEW t \in S PROVE RowsOf(ts).tracks[t] = rows.tracks[t]
    OBVIOUS
  <2>1. PICK k \in DOMAIN ts : ts[k].id = t /\ RowsOf(ts).tracks[t] = Attributes(ts[k])
    BY <1>1, <1>4, RowsTyped
  <2> QED
    BY <1>2, <1>3, <2>1
<1>6. ASSUME NEW k \in DOMAIN ts, NEW j \in DOMAIN ts[k].clips
      PROVE  \E c \in C :
                /\ ts[k].clips[j].id = c /\ ts[k].clips[j] = Plain(c)
                /\ RowOf(ts[k].clips[j], ts[k].id) = rows.clips[c]
  <2>1. PICK t \in S : ts[k].id = t /\ ts[k] = Full(t)
    BY <1>3
  <2>2. PICK c \in DOMAIN rows.clips : rows.clips[c].track = t /\ ts[k].clips[j] = Plain(c)
    BY <1>0, <2>1, FullTyped
  <2>3. rows.clips[c] \in ClipRow
    BY DEF TypedRows
  <2>4. Plain(c).id = c /\ RowOf(Plain(c), t) = rows.clips[c]
    BY <2>2, <2>3 DEF Plain, RowOf, ClipRow
  <2> QED
    BY <2>1, <2>2, <2>4 DEF C
<1>7. ClipIdsOf(ts) = C
  <2>1. ASSUME NEW c \in ClipIdsOf(ts) PROVE c \in C
    <3>1. PICK k \in DOMAIN ts : c \in OwnIds(ts[k])
      BY WhoHasWhat
    <3>2. PICK j \in DOMAIN ts[k].clips : ts[k].clips[j].id = c
      BY <3>1 DEF OwnIds
    <3> QED
      BY <1>6, <3>2
  <2>2. ASSUME NEW c \in C PROVE c \in ClipIdsOf(ts)
    <3> DEFINE t == rows.clips[c].track
    <3>1. t \in S /\ t \in DOMAIN rows.tracks
      BY <1>0
    <3>2. PICK k \in DOMAIN ts : ts[k] = Full(t)
      BY <1>1, <3>1
    <3>3. PICK j \in DOMAIN ts[k].clips : ts[k].clips[j] = Plain(c)
      BY <3>1, <3>2, FullTyped
    <3>4. c \in OwnIds(ts[k])
      BY <3>3 DEF OwnIds, Plain
    <3> QED
      BY <3>4, WhoHasWhat
  <2> QED
    BY <2>1, <2>2
<1>8. \A c \in C : RowsOf(ts).clips[c] = rows.clips[c]
  <2> SUFFICES ASSUME NEW c \in C PROVE RowsOf(ts).clips[c] = rows.clips[c]
    OBVIOUS
  <2>1. PICK k \in DOMAIN ts : \E j \in DOMAIN ts[k].clips :
           ts[k].clips[j].id = c /\ RowsOf(ts).clips[c] = RowOf(ts[k].clips[j], ts[k].id)
    BY <1>1, <1>7, RowsTyped
  <2> QED
    BY <1>6, <2>1
<1> QED
  BY <1>4, <1>5, <1>7, <1>8 DEF ts, S

-----------------------------------------------------------------------------
(* What a flush sends.                                                     *)

LEMMA MovesAreMoves ==
    ASSUME NEW prev \in Timeline, NEW next \in Timeline
    PROVE  /\ Moves(prev, next) \in SUBSET Move
           /\ \A u \in Moves(prev, next) :
                 /\ u.id \in ClipIdsOf(prev.tracks) \intersect ClipIdsOf(next.tracks)
                 /\ u.set = Placement(RowsOf(prev.tracks).clips[u.id], RowsOf(next.tracks).clips[u.id])
           /\ \A c \in ClipIdsOf(prev.tracks) \intersect ClipIdsOf(next.tracks) :
                 LET p == RowsOf(prev.tracks).clips[c]
                     n == RowsOf(next.tracks).clips[c]
                 IN  <<p.track, p.start>> # <<n.track, n.start>>
                        => \E u \in Moves(prev, next) : u.id = c
<1> DEFINE p == RowsOf(prev.tracks).clips
           n == RowsOf(next.tracks).clips
<1>1. /\ prev.tracks \in Seq(Track) /\ next.tracks \in Seq(Track)
      /\ DOMAIN p = ClipIdsOf(prev.tracks) /\ DOMAIN n = ClipIdsOf(next.tracks)
  BY RowsTyped DEF Timeline
<1>2. ASSUME NEW c \in DOMAIN p \intersect DOMAIN n
      PROVE  [id |-> c, set |-> Placement(p[c], n[c])] \in Move
  <2>1. n[c] \in ClipRow /\ c \in Nat
    BY <1>1, RowsTyped, IdsAreNumbers
  <2> DEFINE D == {g \in {"track", "start"} : p[c][g] # n[c][g]}
  <2>2. \A g \in D : n[c][g] \in Nat
    BY <2>1 DEF ClipRow
  <2>3. Placement(p[c], n[c]) \in [D -> Nat] /\ D \in SUBSET {"track", "start"}
    BY <2>2 DEF Placement
  <2> HIDE DEF D, p, n
  <2> QED
    BY <2>1, <2>3 DEF Move
<1>3. \A u \in Moves(prev, next) :
         /\ u.id \in DOMAIN p \intersect DOMAIN n
         /\ u = [id |-> u.id, set |-> Placement(p[u.id], n[u.id])]
  BY DEF Moves
<1>4. \A c \in DOMAIN p \intersect DOMAIN n :
         <<p[c].track, p[c].start>> # <<n[c].track, n[c].start>>
            => \E u \in Moves(prev, next) : u.id = c
  <2> SUFFICES ASSUME NEW c \in DOMAIN p \intersect DOMAIN n,
                      <<p[c].track, p[c].start>> # <<n[c].track, n[c].start>>
               PROVE  \E u \in Moves(prev, next) : u.id = c
    OBVIOUS
  <2>1. [id |-> c, set |-> Placement(p[c], n[c])] \in Moves(prev, next)
    BY DEF Moves
  <2> QED
    BY <2>1
<1> HIDE DEF p, n
<1>5. Moves(prev, next) \in SUBSET Move
  BY <1>2, <1>3
<1> QED
  BY <1>1, <1>3, <1>4, <1>5 DEF p, n

\* What the requests of a flush are.
Needed(q, prev, next) ==
    LET P == RowsOf(prev.tracks)
        N == RowsOf(next.tracks)
    IN  CASE q.op = "title" -> q.id = Undefined /\ prev.title # next.title
          [] q.op = "trackAdded" -> /\ q.at \in DOMAIN next.tracks /\ next.tracks[q.at].id = q.id
                                    /\ q.id \notin TrackIdsOf(prev.tracks)
          [] q.op = "trackUpdated" -> /\ q.at \in DOMAIN next.tracks /\ next.tracks[q.at].id = q.id
                                      /\ q.id \in TrackIdsOf(prev.tracks)
                                      /\ P.tracks[q.id] # Attributes(next.tracks[q.at])
          [] q.op = "trackRemoved" -> /\ q.id \in TrackIdsOf(prev.tracks)
                                      /\ q.id \notin TrackIdsOf(next.tracks)
          [] q.op = "clipCreated" -> q.id \in ClipIdsOf(next.tracks) \ ClipIdsOf(prev.tracks) /\ q.at = 0
          [] q.op = "clipUpdated" -> /\ q.id \in ClipIdsOf(prev.tracks) \intersect ClipIdsOf(next.tracks)
                                     /\ Body(P.clips[q.id]) # Body(N.clips[q.id])
          [] q.op = "clipRemoved" -> q.id \in ClipIdsOf(prev.tracks) \ ClipIdsOf(next.tracks)
          [] q.op = "reorder" -> q.id = Undefined /\ Moves(prev, next) # {}

LEMMA RequestIn ==
    ASSUME NEW op \in Range(Operations), NEW ids \in SUBSET Nat, NEW q
    PROVE  q \in Requests(op, ids) <=>
              q \in Request /\ q.op = op /\ q.id \in ids /\ q.at = 0
<1>1. ASSUME q \in Requests(op, ids) PROVE q \in Request /\ q.op = op /\ q.id \in ids /\ q.at = 0
  <2>1. PICK i \in ids : q = [op |-> op, id |-> i, at |-> 0]
    BY <1>1 DEF Requests
  <2> QED
    BY <2>1 DEF Request
<1>2. ASSUME q \in Request, q.op = op, q.id \in ids, q.at = 0 PROVE q \in Requests(op, ids)
  <2>1. q = [op |-> op, id |-> q.id, at |-> 0]
    BY <1>2 DEF Request
  <2> QED
    BY <1>2, <2>1 DEF Requests
<1> QED
  BY <1>1, <1>2

LEMMA TrackRequestIn ==
    ASSUME NEW op \in Range(Operations), NEW ts \in Seq(Track), NEW places \in SUBSET DOMAIN ts, NEW q
    PROVE  q \in TrackRequests(op, ts, places) <=>
              q \in Request /\ q.op = op /\ q.at \in places /\ q.id = ts[q.at].id
<1>0. \A k \in places : ts[k].id \in Nat /\ k \in Nat
  BY TracksTyped
<1>1. ASSUME q \in TrackRequests(op, ts, places)
      PROVE  q \in Request /\ q.op = op /\ q.at \in places /\ q.id = ts[q.at].id
  BY <1>0, <1>1 DEF TrackRequests, Request
<1>2. ASSUME q \in Request, q.op = op, q.at \in places, q.id = ts[q.at].id
      PROVE  q \in TrackRequests(op, ts, places)
  <2>1. q = [op |-> op, id |-> ts[q.at].id, at |-> q.at]
    BY <1>2 DEF Request
  <2> QED
    BY <1>2, <2>1 DEF TrackRequests
<1> QED
  BY <1>1, <1>2

LEMMA DiffIsNeeded ==
    ASSUME NEW prev \in Timeline, NEW next \in Timeline
    PROVE  \A q \in Diff(prev, next) : q \in Request /\ Needed(q, prev, next)
<1> DEFINE p == RowsOf(prev.tracks)
           n == RowsOf(next.tracks)
           was == prev.tracks
           is == next.tracks
           c == DOMAIN p.clips \cap DOMAIN n.clips
           I1 == IF prev.title # next.title THEN {Undefined} ELSE {}
           I2 == {k \in DOMAIN is : is[k].id \notin DOMAIN p.tracks}
           I3 == {k \in DOMAIN is : is[k].id \in DOMAIN p.tracks /\ p.tracks[is[k].id] # Attributes(is[k])}
           I4 == {k \in DOMAIN was : was[k].id \notin DOMAIN n.tracks}
           I5 == DOMAIN n.clips \ DOMAIN p.clips
           I6 == {i \in c : Body(p.clips[i]) # Body(n.clips[i])}
           I7 == DOMAIN p.clips \ DOMAIN n.clips
           I8 == IF Moves(prev, next) # {} THEN {Undefined} ELSE {}
<1>1. /\ was \in Seq(Track) /\ is \in Seq(Track)
      /\ DOMAIN p.tracks = TrackIdsOf(was) /\ DOMAIN p.clips = ClipIdsOf(was)
      /\ DOMAIN n.tracks = TrackIdsOf(is) /\ DOMAIN n.clips = ClipIdsOf(is)
  BY RowsTyped DEF Timeline
<1>2. /\ I1 \in SUBSET Nat /\ I5 \in SUBSET Nat /\ I6 \in SUBSET Nat /\ I7 \in SUBSET Nat
      /\ I8 \in SUBSET Nat
  <2>1. ClipIdsOf(was) \subseteq Nat /\ ClipIdsOf(is) \subseteq Nat
    BY <1>1, IdsAreNumbers
  <2> QED
    BY <1>1, <2>1 DEF Undefined
<1>3. I2 \in SUBSET DOMAIN is /\ I3 \in SUBSET DOMAIN is /\ I4 \in SUBSET DOMAIN was
  OBVIOUS
<1>4. Diff(prev, next) =
        (Requests("title", I1) \union TrackRequests("trackAdded", is, I2)
         \union TrackRequests("trackUpdated", is, I3) \union TrackRequests("trackRemoved", was, I4)
         \union Requests("clipCreated", I5) \union Requests("clipUpdated", I6)
         \union Requests("clipRemoved", I7) \union Requests("reorder", I8))
  BY DEF Diff
<1> SUFFICES ASSUME NEW q \in Diff(prev, next) PROVE q \in Request /\ Needed(q, prev, next)
  OBVIOUS
<1>5. CASE q \in Requests("title", I1)
  <2>1. q \in Request /\ q.op = "title" /\ q.id \in I1
    <3> HIDE DEF I1
    <3> QED
      BY <1>2, <1>5, RequestIn, OperationsAre
  <2> QED
    BY <2>1 DEF Needed
<1>6. CASE q \in TrackRequests("trackAdded", is, I2)
  <2>1. q \in Request /\ q.op = "trackAdded" /\ q.at \in I2 /\ q.id = is[q.at].id
    <3> HIDE DEF I2, is
    <3> QED
      BY <1>1, <1>3, <1>6, TrackRequestIn, OperationsAre
  <2> QED
    BY <1>1, <2>1 DEF Needed
<1>7. CASE q \in TrackRequests("trackUpdated", is, I3)
  <2>1. q \in Request /\ q.op = "trackUpdated" /\ q.at \in I3 /\ q.id = is[q.at].id
    <3> HIDE DEF I3, is
    <3> QED
      BY <1>1, <1>3, <1>7, TrackRequestIn, OperationsAre
  <2> QED
    BY <1>1, <2>1 DEF Needed
<1>8. CASE q \in TrackRequests("trackRemoved", was, I4)
  <2>1. q \in Request /\ q.op = "trackRemoved" /\ q.at \in I4 /\ q.id = was[q.at].id
    <3> HIDE DEF I4, was
    <3> QED
      BY <1>1, <1>3, <1>8, TrackRequestIn, OperationsAre
  <2>2. q.id \in TrackIdsOf(was)
    BY <2>1 DEF TrackIdsOf
  <2> QED
    BY <1>1, <2>1, <2>2 DEF Needed
<1>9. CASE q \in Requests("clipCreated", I5)
  <2>1. q \in Request /\ q.op = "clipCreated" /\ q.id \in I5 /\ q.at = 0
    <3> HIDE DEF I5
    <3> QED
      BY <1>2, <1>9, RequestIn, OperationsAre
  <2> QED
    BY <1>1, <2>1 DEF Needed
<1>10. CASE q \in Requests("clipUpdated", I6)
  <2>1. q \in Request /\ q.op = "clipUpdated" /\ q.id \in I6
    <3> HIDE DEF I6
    <3> QED
      BY <1>2, <1>10, RequestIn, OperationsAre
  <2> QED
    BY <1>1, <2>1 DEF Needed
<1>11. CASE q \in Requests("clipRemoved", I7)
  <2>1. q \in Request /\ q.op = "clipRemoved" /\ q.id \in I7
    <3> HIDE DEF I7
    <3> QED
      BY <1>2, <1>11, RequestIn, OperationsAre
  <2> QED
    BY <1>1, <2>1 DEF Needed
<1>12. CASE q \in Requests("reorder", I8)
  <2>1. q \in Request /\ q.op = "reorder" /\ q.id \in I8
    <3> HIDE DEF I8
    <3> QED
      BY <1>2, <1>12, RequestIn, OperationsAre
  <2> QED
    BY <2>1 DEF Needed
<1> HIDE DEF I1, I2, I3, I4, I5, I6, I7, I8
<1> QED
  BY <1>4, <1>5, <1>6, <1>7, <1>8, <1>9, <1>10, <1>11, <1>12
-----------------------------------------------------------------------------
(* Types, for every step.                                                  *)

LEMMA RowsLast ==
    ASSUME NEW r, NEW o, NEW n \in Nat, NEW m \in Nat, n <= m
    PROVE  (TypedRows(r, n) => TypedRows(r, m)) /\ (Owned(o, n) => Owned(o, m))
<1>1. 1..(n - 1) \subseteq 1..(m - 1)
  BY Widened
<1> QED
  BY <1>1 DEF TypedRows, Owned

LEMMA Grounds ==
    Grounded \in Flight /\ TrackIdsOf(Grounded.next.tracks) = {}
    /\ ClipIdsOf(Grounded.next.tracks) = {}
<1>1. << >> \in Seq(Track)
  OBVIOUS
<1>2. Grounded.next \in Timeline
  BY <1>1 DEF Grounded, Timeline
<1>3. Grounded \in Flight
  BY <1>2, ProjectsAssumption DEF Grounded, Flight
<1>4. DOMAIN Grounded.next.tracks = {}
  BY DEF Grounded
<1> QED
  BY <1>3, <1>4 DEF TrackIdsOf, ClipIdsOf, ClipsOf

LEMMA InitialRows ==
    /\ TypedRows(RowsOf(AllTracks), FirstId) /\ Owned(ProjectOf, FirstId)
    /\ DOMAIN RowsOf(AllTracks).tracks \subseteq DOMAIN ProjectOf
    /\ Indexed(RowsOf(AllTracks), ProjectOf)
<1>1. AllTracks \in Seq(Track) /\ FirstId \in Nat
  BY AllTracksAre, InitialAssumption
<1> DEFINE r == RowsOf(AllTracks)
<1>2. /\ DOMAIN r.tracks = FirstTracks /\ DOMAIN r.clips = FirstClips
      /\ \A t \in FirstTracks :
            /\ r.tracks[t] \in TrackRow
            /\ \E k \in DOMAIN AllTracks : AllTracks[k].id = t /\ r.tracks[t] = Attributes(AllTracks[k])
      /\ \A c \in FirstClips : r.clips[c] \in ClipRow /\ Holds(AllTracks, r.clips[c].track, c)
  BY <1>1, RowsTyped DEF FirstTracks, FirstClips
<1>3. r = [tracks |-> r.tracks, clips |-> r.clips]
  BY DEF RowsOf
<1>4. r.tracks = [t \in DOMAIN r.tracks |-> r.tracks[t]] /\ r.clips = [c \in DOMAIN r.clips |-> r.clips[c]]
  BY DEF RowsOf
<1>5. FirstTracks \union FirstClips \subseteq 1..(FirstId - 1)
  BY AllTracksAssumption DEF FirstTracks, FirstClips
<1> HIDE DEF r
<1>6. ASSUME NEW t \in DOMAIN r.tracks, NEW u \in DOMAIN r.tracks, ProjectOf[t] = ProjectOf[u],
             r.tracks[t].kind = r.tracks[u].kind, r.tracks[t].index = r.tracks[u].index
      PROVE  t = u
  <2>1. PICK k \in DOMAIN AllTracks :
                AllTracks[k].id = t /\ r.tracks[t] = Attributes(AllTracks[k])
    BY <1>2
  <2>2. PICK m \in DOMAIN AllTracks :
                AllTracks[m].id = u /\ r.tracks[u] = Attributes(AllTracks[m])
    BY <1>2
  <2>3. AllTracks[k].kind = AllTracks[m].kind /\ AllTracks[k].index = AllTracks[m].index
    BY <1>6, <2>1, <2>2 DEF Attributes
  <2>4. k = m
    BY <1>6, <2>1, <2>2, <2>3, AllTracksAssumption
  <2> QED
    BY <2>1, <2>2, <2>4
<1>7. \A c \in DOMAIN r.clips : r.clips[c].track \in DOMAIN r.tracks
  BY <1>2, WhoHasWhat DEF Holds, HasTrack, FirstTracks
<1>8. r.tracks \in [DOMAIN r.tracks -> TrackRow] /\ r.clips \in [DOMAIN r.clips -> ClipRow]
  BY <1>2, <1>4
<1>9. DOMAIN r.tracks \subseteq 1..(FirstId - 1) /\ DOMAIN r.clips \subseteq 1..(FirstId - 1)
  BY <1>2, <1>5
<1>10. TypedRows(r, FirstId)
  BY <1>3, <1>7, <1>8, <1>9 DEF TypedRows
<1>11. ProjectOf \in [FirstTracks -> Projects]
  BY ProjectsAssumption DEF FirstTracks
<1>12. Owned(ProjectOf, FirstId)
  BY <1>5, <1>11 DEF Owned
<1>13. Indexed(r, ProjectOf)
  BY <1>6 DEF Indexed
<1> QED
  BY <1>2, <1>10, <1>11, <1>12, <1>13 DEF r

LEMMA InitTyped ==
    ASSUME AutosaveInit
    PROVE  TypeInv /\ BoundInv
<1>1. /\ fresh = FirstId /\ fresh \in Nat \ {0} /\ \A id \in InitialIds : id \in Nat /\ id < fresh
  BY AllTracksAre, InitialAssumption DEF AutosaveInit, StoreInit
<1>2. InitialTracks \in Seq(Track) /\ << >> \in Seq(Command) /\ Len(<< >>) = 0
  BY InitialAssumption
<1>3. 0 \in 0..MaxEdits /\ HistoryLimit \in Nat /\ MaxTrouble \in Nat
  BY StoreAssumption, TroubleAssumption
<1>4. /\ tracks = InitialTracks /\ title = 0 /\ past = << >> /\ future = << >> /\ dirty = FALSE
      /\ edits = 0
  BY DEF AutosaveInit, StoreInit
<1>5. /\ snapshot = [title |-> 0, tracks |-> InitialTracks] /\ timer = {} /\ flight = Grounded
      /\ status = "idle" /\ mounted = TRUE /\ rows = RowsOf(AllTracks) /\ owner = ProjectOf
      /\ rowTitle = [p \in Projects |-> 0] /\ project = FirstProject /\ rendered = {}
      /\ faults = 0 /\ leaves = 0 /\ origin = [i \in {} |-> 0] /\ missed = FALSE
      /\ crossed = FALSE /\ stale = FALSE
  BY DEF AutosaveInit
<1>6. StoreInv
  <2>1. tracks \in Seq(Track) /\ past \in Seq(Command) /\ future \in Seq(Command)
    BY <1>2, <1>4
  <2>2. past = << >> /\ future = << >>
    BY <1>4
  <2>3. Len(past) = 0 /\ Len(future) = 0
    BY <2>2
  <2>4. dirty \in BOOLEAN
    BY <1>4, Zenon
  <2>5. title = 0 /\ edits = 0
    BY <1>4, Zenon
  <2>6. edits \in 0..MaxEdits /\ Len(past) + Len(future) <= edits
        /\ Len(past) + Len(future) <= HistoryLimit
    BY <1>3, <2>3, <2>5
  <2> QED
    BY <1>1, <2>1, <2>4, <2>5, <2>6 DEF StoreInv
<1>7. RowsInv
  BY <1>1, <1>5, InitialRows DEF RowsInv
<1>8. snapshot \in Timeline
  BY <1>2, <1>5 DEF Timeline
<1>9. SaveInv
  <2>1. flight.todo = {} /\ flight = Grounded /\ flight \in Flight /\ flight.busy = FALSE
    BY <1>5, Grounds DEF Grounded
  <2>2. mounted \in BOOLEAN /\ missed \in BOOLEAN /\ crossed \in BOOLEAN /\ stale \in BOOLEAN
        /\ status \in {"idle", "saving", "saved", "error"}
    BY <1>5
  <2>3. faults \in Nat /\ leaves \in Nat /\ faults + leaves <= MaxTrouble
    BY <1>3, <1>5
  <2>4. project \in Projects /\ rendered \subseteq Page /\ timer \subseteq Projects
    BY <1>5, ProjectsAssumption
  <2> QED
    BY <1>8, <2>1, <2>2, <2>3, <2>4 DEF SaveInv
<1>10. Created = {}
  BY <1>4 DEF Created, Range
<1>11. BoundInv
  <2>1. \A id \in IdsOf(tracks) : id < fresh
    <3>1. IdsOf(tracks) \subseteq InitialIds
      <4>1. TrackIdsOf(InitialTracks) \subseteq FirstTracks
        BY AllTracksAre DEF TrackIdsOf, FirstTracks
      <4>2. ClipIdsOf(InitialTracks) \subseteq FirstClips
        BY AllTracksAre, WhoHasWhat DEF FirstClips
      <4> QED
        BY <1>4, <4>1, <4>2, AllTracksAre DEF IdsOf
    <3> QED
      BY <1>1, <3>1
  <2>2. IdsOf(flight.next.tracks) = {} /\ flight.todo = {}
    BY <1>5, Grounds DEF IdsOf, Grounded
  <2>3. OriginBound
    BY <1>5 DEF OriginBound
  <2> QED
    BY <1>4, <1>5, <1>10, <2>1, <2>2, <2>3 DEF BoundInv
<1> QED
  BY <1>6, <1>7, <1>9, <1>11 DEF TypeInv

\* Every id in sight has been drawn.
LEMMA Below ==
    ASSUME fresh' \in Nat, fresh \in Nat, fresh <= fresh', NEW S \in SUBSET Nat,
           \A id \in S : id < fresh
    PROVE  \A id \in S : id < fresh'
OBVIOUS

LEMMA EditedIds ==
    ASSUME StoreEdited, StoreInv, BoundInv
    PROVE  \A id \in IdsOf(tracks)' \union Created' : id < fresh'
<1>1. /\ tracks' \in Seq(Track) /\ tracks \in Seq(Track) /\ fresh \in Nat /\ fresh' \in Nat
      /\ fresh <= fresh'
  BY DEF StoreEdited, StoreInv
<1>2. \A id \in Created \union NewIds : id < fresh'
  <2>1. Created \subseteq Nat
    <3>1. ASSUME NEW cmd \in Range(past) \union Range(future), cmd.type = "CREATE"
          PROVE  cmd.clip.id \in Nat
      <4>1. cmd \in Command
        BY DEF StoreInv, Range
      <4>2. cmd.clip \in Clip
        BY <3>1, <4>1 DEF Command
      <4> QED
        BY <4>2 DEF Clip
    <3> QED
      BY <3>1 DEF Created
  <2>2. \A id \in Created : id < fresh'
    BY <1>1, <2>1 DEF BoundInv
  <2> QED
    BY <1>1, <2>2 DEF NewIds
<1>3. ASSUME NEW k \in DOMAIN tracks'
      PROVE  tracks'[k].id < fresh' /\ \A c \in OwnIds(tracks'[k]) : c < fresh'
  <2>1. CASE tracks'[k].id \in NewIds /\ OwnIds(tracks'[k]) = {}
    BY <1>2, <2>1
  <2>2. ASSUME NEW a \in DOMAIN tracks, SameTrack(tracks'[k], tracks[a]),
               OwnIds(tracks'[k]) \subseteq OwnIds(tracks[a]) \union (Created \union NewIds)
        PROVE  tracks'[k].id < fresh' /\ \A c \in OwnIds(tracks'[k]) : c < fresh'
    <3>1. tracks[a].id \in IdsOf(tracks) /\ OwnIds(tracks[a]) \subseteq IdsOf(tracks)
      <4>1. tracks[a].id \in TrackIdsOf(tracks)
        BY DEF TrackIdsOf
      <4>2. OwnIds(tracks[a]) \subseteq ClipIdsOf(tracks)
        BY WhoHasWhat
      <4> QED
        BY <4>1, <4>2 DEF IdsOf
    <3>2. IdsOf(tracks) \subseteq Nat
      BY <1>1, IdsAreNumbers DEF IdsOf
    <3>3. \A id \in IdsOf(tracks) : id < fresh'
      BY <1>1, <3>2 DEF BoundInv
    <3> QED
      BY <1>2, <2>2, <3>1, <3>3 DEF SameTrack
  <2> QED
    BY <2>1, <2>2 DEF StoreEdited, ComesOf
<1>4. \A id \in TrackIdsOf(tracks') \union ClipIdsOf(tracks') : id < fresh'
  <2>1. \A id \in TrackIdsOf(tracks') : id < fresh'
    BY <1>3 DEF TrackIdsOf
  <2>2. \A id \in ClipIdsOf(tracks') : id < fresh'
    BY <1>3, WhoHasWhat
  <2> QED
    BY <2>1, <2>2
<1>5. \A id \in IdsOf(tracks)' : id < fresh'
  BY <1>4 DEF IdsOf
<1> QED
  BY <1>2, <1>5 DEF StoreEdited

\* What is kept aside is bound by the later number too.
LEMMA AsideIds ==
    ASSUME StoreInv, SaveInv, BoundInv, fresh' \in Nat, fresh <= fresh'
    PROVE  /\ \A id \in IdsOf(snapshot.tracks) : id < fresh'
           /\ \A id \in IdsOf(flight.next.tracks) : id < fresh'
           /\ \A page \in rendered : \A id \in IdsOf(page.tracks) : id < fresh'
           /\ \A q \in flight.todo : q \in Request /\ q.id \in Nat /\ q.id < fresh'
           /\ \A i \in DOMAIN origin : i \in Nat /\ i < fresh' /\ origin[i] \in Nat /\ origin[i] < fresh'
<1>1. fresh \in Nat
  BY DEF StoreInv
<1>2. IdsOf(snapshot.tracks) \subseteq Nat /\ IdsOf(flight.next.tracks) \subseteq Nat
  <2>1. snapshot.tracks \in Seq(Track) /\ flight.next.tracks \in Seq(Track)
    BY DEF SaveInv, Timeline, Flight
  <2> QED
    BY <2>1, IdsAreNumbers DEF IdsOf
<1>3. \A q \in flight.todo : q \in Request /\ q.id \in Nat
  BY DEF SaveInv, Flight, Request
<1>4. /\ \A id \in IdsOf(snapshot.tracks) : id < fresh
      /\ \A id \in IdsOf(flight.next.tracks) : id < fresh
      /\ \A q \in flight.todo : q.id < fresh
      /\ OriginBound
  BY DEF BoundInv
<1>5. /\ \A id \in IdsOf(snapshot.tracks) : id < fresh'
      /\ \A id \in IdsOf(flight.next.tracks) : id < fresh'
  BY <1>1, <1>2, <1>4
<1>6. \A q \in flight.todo : q.id < fresh'
  BY <1>1, <1>3, <1>4
<1>7. \A i \in DOMAIN origin : i \in Nat /\ i < fresh' /\ origin[i] \in Nat /\ origin[i] < fresh'
  BY <1>1, <1>4 DEF OriginBound
<1>8. \A page \in rendered : \A id \in IdsOf(page.tracks) : id < fresh'
  <2>1. \A page \in rendered : IdsOf(page.tracks) \subseteq Nat
    <3>1. \A page \in rendered : page.tracks \in Seq(Track)
      BY DEF SaveInv, Page
    <3> QED
      BY <3>1, IdsAreNumbers DEF IdsOf
  <2> QED
    BY <1>1, <2>1 DEF BoundInv
<1> QED
  BY <1>3, <1>5, <1>6, <1>7, <1>8

LEMMA UserEditsTyped ==
    ASSUME TypeInv, BoundInv, UserEdits
    PROVE  TypeInv' /\ BoundInv'
<1> USE DEF TypeInv
<1>1. /\ Edit /\ Arms
      /\ UNCHANGED <<project, rendered, snapshot, flight, status, mounted, leaves, crossed, stale>>
      /\ UNCHANGED <<rows, owner, rowTitle, faults, origin>>
      /\ missed' = (missed \/ flight.busy)
  BY DEF UserEdits, netVars
<1>2. Sound(tracks)
  BY DEF BoundInv, IdsOf, Sound
<1>3. StoreEdited
  BY <1>1, <1>2, EditDoes
<1>4. StoreInv' /\ fresh \in Nat /\ fresh' \in Nat /\ fresh <= fresh'
  BY <1>3 DEF StoreEdited, StoreInv
<1>5. RowsInv'
  BY <1>1, <1>4, RowsLast DEF RowsInv
<1>6. SaveInv'
  <2>1. timer' \subseteq Projects /\ missed' \in BOOLEAN
    BY <1>1, <1>4 DEF Arms, SaveInv, StoreInv, Flight
  <2> QED
    BY <1>1, <2>1 DEF SaveInv, Sendable
<1>7. BoundInv'
  <2>1. \A id \in IdsOf(tracks)' \union Created' : id < fresh'
    BY <1>3, EditedIds
  <2>2. /\ \A id \in IdsOf(snapshot.tracks) : id < fresh'
        /\ \A id \in IdsOf(flight.next.tracks) : id < fresh'
        /\ \A page \in rendered : \A id \in IdsOf(page.tracks) : id < fresh'
        /\ \A q \in flight.todo : q.id < fresh'
        /\ \A i \in DOMAIN origin : i \in Nat /\ i < fresh' /\ origin[i] \in Nat /\ origin[i] < fresh'
    BY <1>4, AsideIds
  <2>3. snapshot' = snapshot /\ flight' = flight /\ origin' = origin /\ rendered' = rendered
    BY <1>1
  <2>4. OriginBound'
    BY <2>2, <2>3 DEF OriginBound
  <2> QED
    BY <2>1, <2>2, <2>3, <2>4 DEF BoundInv, IdsOf, TrackIdsOf, ClipIdsOf, ClipsOf
<1> QED
  BY <1>4, <1>5, <1>6, <1>7

LEMMA SaveNowTyped ==
    ASSUME TypeInv, BoundInv, SaveNow
    PROVE  TypeInv' /\ BoundInv'
<1> USE DEF TypeInv
<1>1. /\ Arms /\ dirty' = TRUE /\ edits' = edits + 1 /\ edits < MaxEdits
      /\ UNCHANGED <<tracks, title, past, future, fresh>>
      /\ UNCHANGED <<project, rendered, snapshot, flight, status, mounted, leaves, missed, crossed, stale>>
      /\ UNCHANGED <<rows, owner, rowTitle, faults, origin>>
  BY DEF SaveNow, netVars
<1>2. StoreInv'
  BY <1>1, StoreAssumption DEF StoreInv
<1>3. RowsInv'
  BY <1>1 DEF RowsInv, TypedRows, Owned, Indexed
<1>4. SaveInv'
  <2>1. timer' \subseteq Projects
    BY <1>1 DEF SaveInv, Arms, StoreInv
  <2> QED
    BY <1>1, <2>1 DEF SaveInv, Sendable
<1>5. BoundInv'
  BY <1>1 DEF BoundInv, IdsOf, TrackIdsOf, ClipIdsOf, ClipsOf, Created, OriginBound
<1> QED
  BY <1>2, <1>3, <1>4, <1>5

LEMMA LeaveTyped ==
    ASSUME TypeInv, BoundInv, Leave
    PROVE  TypeInv' /\ BoundInv'
<1> USE DEF TypeInv
<1>1. /\ UNCHANGED <<tracks, title, past, future, dirty, fresh, edits>>
      /\ UNCHANGED <<project, rendered, snapshot, flight, status, missed, crossed, stale>>
      /\ UNCHANGED <<rows, owner, rowTitle, faults, origin>>
      /\ timer' = {} /\ mounted' = FALSE /\ leaves' = leaves + 1 /\ faults + leaves < MaxTrouble
  BY DEF Leave, netVars, storeVars
<1>2. StoreInv'
  BY <1>1 DEF StoreInv
<1>3. RowsInv'
  BY <1>1 DEF RowsInv, TypedRows, Owned, Indexed
<1>4. SaveInv'
  <2>1. faults' \in Nat /\ leaves' \in Nat /\ faults' + leaves' <= MaxTrouble
    BY <1>1, TroubleAssumption DEF SaveInv
  <2> QED
    BY <1>1, <2>1 DEF SaveInv, Sendable
<1>5. BoundInv'
  BY <1>1 DEF BoundInv, IdsOf, TrackIdsOf, ClipIdsOf, ClipsOf, Created, OriginBound
<1> QED
  BY <1>2, <1>3, <1>4, <1>5

LEMMA PlaceholdersTyped ==
    ASSUME fresh \in Nat
    PROVE  /\ Placeholders \in Seq(Track) /\ DOMAIN Placeholders = 1..2
           /\ Placeholders[1].id = fresh /\ Placeholders[2].id = fresh + 1
           /\ TrackIdsOf(Placeholders) = {fresh, fresh + 1} /\ ClipIdsOf(Placeholders) = {}
           /\ \A k \in 1..2 : OwnIds(Placeholders[k]) = {}
<1>1. << >> \in Seq(Clip) /\ DOMAIN << >> = {}
  OBVIOUS
<1>2. \A k \in {"VIDEO", "AUDIO"}, n \in Nat :
         [id |-> n, kind |-> k, index |-> 0, muted |-> FALSE, clips |-> << >>] \in Track
  BY <1>1 DEF Track, Kinds
<1>3. Placeholders \in Seq(Track) /\ DOMAIN Placeholders = 1..2
  BY <1>2 DEF Placeholders
<1>4. /\ Placeholders[1].id = fresh /\ Placeholders[2].id = fresh + 1
      /\ Placeholders[1].clips = << >> /\ Placeholders[2].clips = << >>
  BY DEF Placeholders
<1>5. \A k \in 1..2 : k = 1 \/ k = 2
  OBVIOUS
<1> HIDE DEF Placeholders
<1>6. \A k \in 1..2 : OwnIds(Placeholders[k]) = {}
  BY <1>1, <1>4, <1>5 DEF OwnIds
<1>7. ClipIdsOf(Placeholders) = {}
  BY <1>3, <1>6, WhoHasWhat
<1>8. TrackIdsOf(Placeholders) = {fresh, fresh + 1}
  BY <1>3, <1>4, <1>5 DEF TrackIdsOf
<1> QED
  BY <1>3, <1>4, <1>6, <1>7, <1>8

LEMMA LoadTyped ==
    ASSUME TypeInv, BoundInv, NEW p \in Projects, Load(p)
    PROVE  TypeInv' /\ BoundInv'
<1> USE DEF TypeInv
<1>1. /\ UNCHANGED <<tracks, title, past, future, dirty, edits, rows, owner, rowTitle, origin>>
      /\ UNCHANGED <<project, snapshot, timer, flight, status, mounted, leaves>>
      /\ UNCHANGED <<missed, crossed, stale>>
  BY DEF Load
<1>2. \/ rendered' = {PageOf(p)} /\ fresh' = fresh /\ faults' = faults
      \/ /\ rendered' = {[PageOf(p) EXCEPT !.tracks = Placeholders]} /\ fresh' = fresh + 2
         /\ faults + leaves < MaxTrouble /\ faults' = faults + 1
  BY DEF Load
<1>3. fresh \in Nat \ {0} /\ fresh' \in Nat \ {0} /\ fresh <= fresh' /\ fresh' \in Nat /\ fresh \in Nat
  BY <1>2 DEF StoreInv
<1>4. /\ Loaded(p) \in Seq(Track)
      /\ TrackIdsOf(Loaded(p)) \subseteq DOMAIN rows.tracks
      /\ ClipIdsOf(Loaded(p)) \subseteq DOMAIN rows.clips
  BY <1>3, LoadedTyped, LoadedIsRows DEF RowsInv, TracksOf
<1>5. /\ Placeholders \in Seq(Track)
      /\ TrackIdsOf(Placeholders) = {fresh, fresh + 1} /\ ClipIdsOf(Placeholders) = {}
  BY <1>3, PlaceholdersTyped
<1>6. ASSUME NEW page \in rendered'
      PROVE  page \in Page /\ \A id \in IdsOf(page.tracks) : id < fresh'
  <2>1. rowTitle[p] \in 0..1
    BY DEF RowsInv
  <2>2. CASE page = PageOf(p)
    <3>1. page \in Page /\ page.tracks = Loaded(p)
      BY <1>4, <2>1, <2>2 DEF PageOf, Page
    <3>2. \A id \in IdsOf(Loaded(p)) : id < fresh'
      <4>1. \A id \in 1..(fresh - 1) : id < fresh'
        BY <1>3
      <4>2. DOMAIN rows.tracks \subseteq 1..(fresh - 1) /\ DOMAIN rows.clips \subseteq 1..(fresh - 1)
        BY DEF RowsInv, TypedRows
      <4> QED
        BY <1>4, <4>1, <4>2 DEF IdsOf
    <3> QED
      BY <3>1, <3>2
  <2>3. CASE page = [PageOf(p) EXCEPT !.tracks = Placeholders] /\ fresh' = fresh + 2
    <3> DEFINE given == Placeholders
    <3>0. page = [project |-> p, title |-> rowTitle[p], tracks |-> given]
      BY <2>3 DEF PageOf
    <3>1. given \in Seq(Track) /\ IdsOf(given) = {fresh, fresh + 1}
      BY <1>5 DEF IdsOf
    <3> HIDE DEF given
    <3>2. page \in Page /\ page.tracks = given
      BY <2>1, <3>0, <3>1 DEF Page
    <3>3. fresh < fresh' /\ fresh + 1 < fresh'
      BY <1>3, <2>3
    <3> QED
      BY <3>1, <3>2, <3>3
  <2> QED
    BY <1>2, <2>2, <2>3
<1>7. StoreInv'
  <2>1. \A id \in InitialIds : id < fresh'
    BY <1>3, AllTracksAre DEF StoreInv
  <2> QED
    BY <1>1, <1>3, <2>1 DEF StoreInv
<1>8. RowsInv'
  <2>1. TypedRows(rows, fresh') /\ Owned(owner, fresh')
    BY <1>3, RowsLast DEF RowsInv
  <2> QED
    BY <1>1, <2>1 DEF RowsInv, TypedRows, Owned, Indexed
<1>9. SaveInv'
  <2>1. faults' \in Nat /\ faults' + leaves' <= MaxTrouble
    BY <1>1, <1>2, TroubleAssumption DEF SaveInv
  <2>2. rendered' \subseteq Page
    BY <1>6
  <2> QED
    BY <1>1, <2>1, <2>2 DEF SaveInv, Sendable
<1>10. BoundInv'
  <2>1. /\ \A id \in IdsOf(snapshot.tracks) : id < fresh'
        /\ \A id \in IdsOf(flight.next.tracks) : id < fresh'
        /\ \A q \in flight.todo : q.id < fresh'
        /\ \A i \in DOMAIN origin : i \in Nat /\ i < fresh' /\ origin[i] \in Nat /\ origin[i] < fresh'
    BY <1>3, AsideIds
  <2>2. OriginBound'
    BY <1>1, <2>1 DEF OriginBound
  <2>3. \A id \in IdsOf(tracks) : id < fresh'
    <3>1. IdsOf(tracks) \subseteq Nat
      BY IdsAreNumbers DEF IdsOf, StoreInv
    <3> QED
      BY <1>3, <3>1 DEF BoundInv
  <2>4. Created' = Created /\ \A id \in Created : id \in Nat /\ id < fresh
    <3>1. \A cmd \in Range(past) \union Range(future) : cmd \in Command
      BY DEF StoreInv, Range
    <3>2. \A cmd \in Command : cmd.type = "CREATE" => cmd.clip.id \in Nat
      BY DEF Command, Clip
    <3>3. \A id \in Created : id \in Nat /\ id < fresh
      BY <3>1, <3>2 DEF Created, BoundInv
    <3> QED
      BY <1>1, <3>3 DEF Created
  <2>5. \A id \in Created' : id < fresh'
    BY <1>3, <2>4
  <2>6. \A page \in rendered' : \A id \in IdsOf(page.tracks) : id < fresh'
    BY <1>6
  <2> QED
    BY <1>1, <2>1, <2>2, <2>3, <2>5, <2>6 DEF BoundInv, IdsOf, TrackIdsOf, ClipIdsOf, ClipsOf
<1> QED
  BY <1>7, <1>8, <1>9, <1>10

LEMMA OpenTyped ==
    ASSUME TypeInv, BoundInv, Open
    PROVE  TypeInv' /\ BoundInv'
<1> USE DEF TypeInv
<1>1. PICK page \in rendered :
        /\ project' = page.project /\ tracks' = page.tracks /\ title' = page.title
        /\ snapshot' = [title |-> page.title, tracks |-> page.tracks]
        /\ stale' = (page # PageOf(page.project))
  BY DEF Open
<1>2. /\ past' = << >> /\ future' = << >>
      /\ dirty' = FALSE /\ status' = "idle" /\ mounted' = TRUE /\ missed' = FALSE
      /\ rendered' = {} /\ crossed' = (crossed \/ flight.busy)
      /\ UNCHANGED <<fresh, edits, timer, flight, leaves, rows, owner, rowTitle, faults, origin>>
  BY DEF Open
<1>3. /\ page.project \in Projects /\ page.title \in 0..1 /\ page.tracks \in Seq(Track)
      /\ \A id \in IdsOf(page.tracks) : id < fresh
  BY DEF SaveInv, Page, BoundInv
<1>4. StoreInv'
  <2>1. past' = << >> /\ future' = << >>
    BY <1>2
  <2>2. Len(past') = 0 /\ Len(future') = 0 /\ past' \in Seq(Command) /\ future' \in Seq(Command)
    BY <2>1
  <2>3. title' \in 0..1 /\ edits' \in 0..MaxEdits /\ fresh' \in Nat \ {0}
    BY <1>1, <1>2, <1>3 DEF StoreInv
  <2>4. dirty' \in BOOLEAN
    BY <1>2, Zenon
  <2>5. Len(past') + Len(future') <= edits' /\ Len(past') + Len(future') <= HistoryLimit
    BY <2>2, <2>3, StoreAssumption
  <2>6. \A id \in InitialIds : id < fresh'
    BY <1>2 DEF StoreInv
  <2> QED
    BY <1>1, <1>3, <2>2, <2>3, <2>4, <2>5, <2>6 DEF StoreInv
<1>5. RowsInv'
  BY <1>2 DEF RowsInv, TypedRows, Owned, Indexed
<1>6. SaveInv'
  <2>1. snapshot' \in Timeline
    BY <1>1, <1>3 DEF Timeline
  <2>2. status' \in {"idle", "saving", "saved", "error"} /\ mounted' \in BOOLEAN
        /\ missed' \in BOOLEAN /\ crossed' \in BOOLEAN /\ stale' \in BOOLEAN
    BY <1>1, <1>2 DEF SaveInv, Flight
  <2>3. ~(flight'.busy /\ ~crossed')
    BY <1>2
  <2>4. project' \in Projects /\ rendered' \subseteq Page
    BY <1>1, <1>2, <1>3
  <2> QED
    BY <1>2, <2>1, <2>2, <2>3, <2>4 DEF SaveInv, Sendable
<1>7. BoundInv'
  <2>1. tracks' = page.tracks /\ snapshot'.tracks = page.tracks /\ fresh' = fresh
    BY <1>1, <1>2
  <2>2. Created' = {}
    BY <1>2 DEF Created, Range
  <2>3. /\ \A id \in IdsOf(flight.next.tracks)' : id < fresh'
        /\ \A q \in flight'.todo : q.id < fresh'
    BY <1>2 DEF BoundInv, IdsOf, TrackIdsOf, ClipIdsOf, ClipsOf
  <2>4. OriginBound'
    BY <1>2 DEF BoundInv, OriginBound
  <2>5. \A id \in IdsOf(tracks)' \union IdsOf(snapshot.tracks)' : id < fresh'
    BY <1>3, <2>1 DEF IdsOf, TrackIdsOf, ClipIdsOf, ClipsOf
  <2> QED
    BY <1>2, <2>2, <2>3, <2>4, <2>5 DEF BoundInv
<1> QED
  BY <1>4, <1>5, <1>6, <1>7

LEMMA FlushTyped ==
    ASSUME TypeInv, BoundInv, Flush
    PROVE  TypeInv' /\ BoundInv'
<1> USE DEF TypeInv
<1> DEFINE next == [title |-> title, tracks |-> tracks]
           begun == [busy |-> TRUE, project |-> project, todo |-> Diff(snapshot, next),
                     next |-> next, moves |-> Moves(snapshot, next)]
<1>1. /\ timer' = {} /\ ~flight.busy
      /\ UNCHANGED <<project, rendered, stale, owner>>
      /\ UNCHANGED <<tracks, title, past, future, fresh, edits, mounted, leaves, crossed>>
      /\ UNCHANGED <<rows, rowTitle, faults, origin>>
  BY DEF Flush, netVars
<1>2. next \in Timeline /\ snapshot \in Timeline
  BY DEF StoreInv, SaveInv, Timeline
<1>3. \/ Saved(next) /\ missed' = FALSE
      \/ /\ flight' = begun
         /\ status' = "saving" /\ missed' = FALSE /\ UNCHANGED <<snapshot, dirty>>
      \/ UNCHANGED <<flight, snapshot, dirty, status, missed>>
  BY DEF Flush
<1> HIDE DEF next
<1>4. \/ flight' = flight
      \/ flight' = Grounded
      \/ flight' = begun
  BY <1>3 DEF Saved
<1>5. snapshot' \in Timeline /\ status' \in {"idle", "saving", "saved", "error"}
      /\ missed' \in BOOLEAN
  BY <1>2, <1>3 DEF Saved, SaveInv
<1>6. dirty' \in BOOLEAN
  BY <1>3 DEF Saved, StoreInv
<1>7. StoreInv'
  BY <1>1, <1>6 DEF StoreInv
<1>8. RowsInv'
  BY <1>1 DEF RowsInv, TypedRows, Owned, Indexed
<1>9. \A q \in Diff(snapshot, next) : q \in Request /\ Needed(q, snapshot, next)
  BY <1>2, DiffIsNeeded
<1>10. flight' \in Flight /\ (~flight'.busy => flight' = Grounded)
       /\ (flight'.busy => flight'.project = project') /\ \A q \in flight'.todo : Sendable(q)'
  <2>1. CASE flight' = flight
    BY <1>1, <2>1 DEF SaveInv, Sendable
  <2>2. CASE flight' = Grounded
    <3>1. flight' \in Flight /\ flight'.todo = {} /\ ~flight'.busy
      BY <2>2, Grounds DEF Grounded
    <3> QED
      BY <2>2, <3>1
  <2>3. CASE flight' = begun
    <3>1. Moves(snapshot, next) \in SUBSET Move
      BY <1>2, MovesAreMoves
    <3>2. flight' \in Flight
      BY <1>2, <1>9, <2>3, <3>1 DEF Flight, SaveInv
    <3>3. ASSUME NEW q \in flight'.todo PROVE Sendable(q)'
      <4>1. q \in Diff(snapshot, next) /\ flight'.next = next
        BY <2>3
      <4>2. Needed(q, snapshot, next)
        BY <1>9, <4>1
      <4>3. /\ q.op \in {"trackAdded", "trackUpdated"} =>
                  q.at \in DOMAIN next.tracks /\ next.tracks[q.at].id = q.id
            /\ q.op \in {"clipCreated", "clipUpdated"} => q.id \in ClipIdsOf(next.tracks)
            /\ q.op = "clipCreated" => q.at = 0
        BY <4>2 DEF Needed
      <4> QED
        BY <4>1, <4>3 DEF Sendable, ClipIdsOf, ClipsOf
    <3> QED
      BY <1>1, <2>3, <3>2, <3>3
  <2> QED
    BY <1>4, <2>1, <2>2, <2>3
<1>11. SaveInv'
  BY <1>1, <1>5, <1>10 DEF SaveInv
<1>12. BoundInv'
  <2>1. IdsOf(next.tracks) = IdsOf(tracks)
    BY DEF next
  <2>2. \A id \in IdsOf(next.tracks) \union IdsOf(snapshot.tracks) : id < fresh
    BY <2>1 DEF BoundInv
  <2>3. snapshot' \in {snapshot, next} /\ fresh' = fresh
    BY <1>1, <1>3 DEF Saved
  <2>4. \A id \in IdsOf(snapshot'.tracks) : id < fresh'
    BY <2>2, <2>3
  <2>5. \A id \in IdsOf(flight'.next.tracks) : id < fresh'
    <3>1. IdsOf(Grounded.next.tracks) = {}
      BY Grounds DEF IdsOf
    <3>2. flight'.next \in {flight.next, Grounded.next, next}
      BY <1>4
    <3> QED
      BY <2>2, <2>3, <3>1, <3>2 DEF BoundInv
  <2>6. \A q \in flight'.todo : q.id < fresh'
    <3>1. ASSUME NEW q \in Diff(snapshot, next) PROVE q.id < fresh
      <4>1. Needed(q, snapshot, next) /\ q \in Request
        BY <1>9
      <4>2. q.op \in Range(Operations)
        BY <4>1, OperationsAre
      <4>3. q.id \in {Undefined} \union IdsOf(snapshot.tracks) \union IdsOf(next.tracks)
        <5>1. q.op \in {"title", "reorder"} => q.id = Undefined
          BY <4>1 DEF Needed
        <5>2. q.op \in {"trackAdded", "trackUpdated"} => q.id \in TrackIdsOf(next.tracks)
          BY <4>1 DEF Needed, TrackIdsOf
        <5>3. q.op = "trackRemoved" => q.id \in TrackIdsOf(snapshot.tracks)
          BY <4>1 DEF Needed
        <5>4. q.op \in {"clipCreated", "clipUpdated"} => q.id \in ClipIdsOf(next.tracks)
          BY <4>1 DEF Needed
        <5>5. q.op = "clipRemoved" => q.id \in ClipIdsOf(snapshot.tracks)
          BY <4>1 DEF Needed
        <5> QED
          BY <4>2, <5>1, <5>2, <5>3, <5>4, <5>5, OperationsAre DEF IdsOf
      <4>4. fresh \in Nat \ {0}
        BY DEF StoreInv
      <4> QED
        BY <2>2, <4>3, <4>4 DEF Undefined
    <3>2. flight'.todo \in {flight.todo, {}, Diff(snapshot, next)}
      BY <1>4 DEF Grounded
    <3> QED
      BY <2>3, <3>1, <3>2 DEF BoundInv
  <2>7. \A id \in Created' : id < fresh'
    BY <1>1 DEF BoundInv, Created
  <2>8. OriginBound'
    BY <1>1 DEF BoundInv, OriginBound
  <2>9. \A id \in IdsOf(tracks)' : id < fresh'
    BY <1>1 DEF BoundInv, IdsOf, TrackIdsOf, ClipIdsOf, ClipsOf
  <2>10. \A page \in rendered' : \A id \in IdsOf(page.tracks) : id < fresh'
    BY <1>1 DEF BoundInv
  <2> QED
    BY <2>4, <2>5, <2>6, <2>7, <2>8, <2>9, <2>10 DEF BoundInv, IdsOf, TrackIdsOf, ClipIdsOf, ClipsOf
<1> QED
  BY <1>7, <1>8, <1>11, <1>12

LEMMA ContinuesTyped ==
    ASSUME SaveInv, NEW q \in flight.todo, Continues(q)
    PROVE  /\ flight.busy
           /\ flight' \in Flight /\ (~flight'.busy => flight' = Grounded)
           /\ (flight'.busy => flight'.project = flight.project)
           /\ flight'.todo \subseteq flight.todo /\ \A r \in flight'.todo : Sendable(r)'
           /\ flight'.next \in {flight.next, Grounded.next}
           /\ snapshot' \in {snapshot, flight.next} /\ snapshot' \in Timeline
           /\ status' \in {"idle", "saving", "saved", "error"} /\ dirty' \in {dirty, FALSE}
<1>0. flight.busy
  BY DEF SaveInv, Grounded
<1>1. flight \in Flight /\ snapshot \in Timeline /\ flight.next \in Timeline
  BY DEF SaveInv, Flight
<1>2. CASE flight.todo = {q}
  <2>1. flight' = Grounded /\ snapshot' = flight.next /\ status' = "saved" /\ dirty' = FALSE
    BY <1>2 DEF Continues, Saved
  <2>2. flight' \in Flight /\ flight'.todo = {}
    BY <2>1, Grounds DEF Grounded
  <2>3. ~flight'.busy
    BY <2>1 DEF Grounded
  <2> QED
    BY <1>0, <1>1, <2>1, <2>2, <2>3
<1>3. CASE flight.todo # {q}
  <2>1. flight' = [flight EXCEPT !.todo = @ \ {q}] /\ UNCHANGED <<snapshot, dirty, status>>
    BY <1>3 DEF Continues
  <2>2. /\ flight' \in Flight /\ flight'.todo = flight.todo \ {q} /\ flight'.next = flight.next
        /\ flight'.busy = flight.busy /\ flight'.project = flight.project
    BY <1>1, <2>1 DEF Flight
  <2>3. \A r \in flight'.todo : Sendable(r)'
    BY <2>2 DEF SaveInv, Sendable
  <2> QED
    BY <1>0, <1>1, <2>1, <2>2, <2>3 DEF SaveInv
<1> QED
  BY <1>2, <1>3
LEMMA FailsTyped ==
    ASSUME SaveInv, StoreInv, Fails
    PROVE  /\ flight' = Grounded /\ status' = "error" /\ UNCHANGED <<snapshot, dirty, tracks>>
           /\ flight' \in Flight /\ flight'.todo = {} /\ ~flight'.busy /\ timer' \subseteq Projects
<1>1. flight' = Grounded /\ status' = "error" /\ UNCHANGED <<snapshot, dirty, tracks>>
  BY DEF Fails
<1>2. flight' \in Flight /\ flight'.todo = {} /\ ~flight'.busy
  BY <1>1, Grounds DEF Grounded
<1>3. timer' \subseteq Projects
  BY DEF Fails, SaveInv, StoreInv, Flight
<1> QED
  BY <1>1, <1>2, <1>3

\* What a step leaves when it is the answer to a request, or no answer.
LEMMA RestTyped ==
    ASSUME TypeInv, BoundInv, Unmoved,
           RowsInv', OriginBound', fresh' \in Nat \ {0}, fresh <= fresh',
           tracks' \in Seq(Track), \A id \in IdsOf(tracks') : id < fresh',
           dirty' \in {dirty, FALSE}, timer' \subseteq Projects,
           faults' \in Nat, faults' + leaves <= MaxTrouble,
           flight'.busy => flight'.project = flight.project /\ flight.busy,
           flight' \in Flight, ~flight'.busy => flight' = Grounded,
           flight'.todo \subseteq flight.todo, \A r \in flight'.todo : Sendable(r)',
           flight'.next \in {flight.next, Grounded.next},
           snapshot' \in {snapshot, flight.next}, snapshot' \in Timeline,
           status' \in {"idle", "saving", "saved", "error"}
    PROVE  TypeInv' /\ BoundInv'
<1> USE DEF TypeInv
<1>1. UNCHANGED <<title, past, future, edits, project, mounted, rendered, leaves, missed, crossed, stale>>
  BY DEF Unmoved
<1>2. StoreInv'
  <2>1. dirty' \in BOOLEAN
    BY DEF StoreInv
  <2>2. \A id \in InitialIds : id < fresh'
    <3>1. InitialIds \subseteq Nat
      BY AllTracksAre
    <3> QED
      BY <3>1 DEF StoreInv
  <2> QED
    BY <1>1, <2>1, <2>2 DEF StoreInv
<1>3. SaveInv'
  BY <1>1 DEF SaveInv
<1>4. BoundInv'
  <2>1. /\ \A id \in IdsOf(snapshot.tracks) : id < fresh'
        /\ \A id \in IdsOf(flight.next.tracks) : id < fresh'
        /\ \A page \in rendered : \A id \in IdsOf(page.tracks) : id < fresh'
        /\ \A q \in flight.todo : q.id < fresh'
    BY AsideIds
  <2>2. \A id \in IdsOf(Grounded.next.tracks) : id < fresh'
    BY Grounds DEF IdsOf
  <2>3. \A id \in IdsOf(snapshot'.tracks) : id < fresh'
    BY <2>1
  <2>4. \A id \in IdsOf(flight'.next.tracks) : id < fresh'
    BY <2>1, <2>2
  <2>5. \A q \in flight'.todo : q.id < fresh'
    BY <2>1
  <2>6. \A id \in Created' : id < fresh'
    <3>1. Created' = Created
      BY <1>1 DEF Created
    <3>2. Created \subseteq Nat /\ \A id \in Created : id < fresh
      <4>1. \A cmd \in Range(past) \union Range(future) : cmd \in Command
        BY DEF StoreInv, Range
      <4>2. \A cmd \in Command : cmd.type = "CREATE" => cmd.clip.id \in Nat
        BY DEF Command, Clip
      <4> QED
        BY <4>1, <4>2 DEF Created, BoundInv
    <3> QED
      BY <3>1, <3>2 DEF StoreInv
  <2> QED
    BY <1>1, <2>1, <2>3, <2>4, <2>5, <2>6 DEF BoundInv, IdsOf, TrackIdsOf, ClipIdsOf, ClipsOf
<1> QED
  BY <1>2, <1>3, <1>4

LEMMA RewrittenIds ==
    ASSUME SaveInv, StoreInv, BoundInv, NEW q \in flight.todo, NEW id \in Nat,
           fresh' \in Nat, fresh <= fresh', id < fresh' \/ q.op # "trackAdded"
    PROVE  /\ Rewritten(q, id) \in Seq(Track)
           /\ \A i \in IdsOf(Rewritten(q, id)) : i < fresh'
<1>1. tracks \in Seq(Track) /\ fresh \in Nat
  BY DEF StoreInv
<1> DEFINE us == Rewritten(q, id)
<1>2. RenamedAs(us, tracks, q, id)
  BY <1>1, RewrittenRenames
<1> HIDE DEF us
<1>3. /\ us \in Seq(Track) /\ ClipIdsOf(us) = ClipIdsOf(tracks)
      /\ TrackIdsOf(us) \subseteq TrackIdsOf(tracks) \union {id}
      /\ q.op # "trackAdded" => TrackIdsOf(us) = TrackIdsOf(tracks)
  BY <1>1, <1>2, RenamedIds
<1>4. IdsOf(tracks) \subseteq Nat
  BY <1>1, IdsAreNumbers DEF IdsOf
<1>5. \A i \in IdsOf(tracks) : i < fresh'
  BY <1>1, <1>4 DEF BoundInv
<1>6. \A i \in IdsOf(us) : i < fresh'
  BY <1>3, <1>5 DEF IdsOf
<1> QED
  BY <1>3, <1>6 DEF us

LEMMA NotDoneTyped ==
    ASSUME TypeInv, BoundInv, NotDone
    PROVE  RowsInv' /\ OriginBound' /\ fresh' \in Nat \ {0} /\ fresh <= fresh'
<1>1. fresh \in Nat \ {0}
  BY DEF TypeInv, StoreInv
<1>2. rows' = rows /\ owner' = owner /\ rowTitle' = rowTitle /\ fresh' = fresh /\ origin' = origin
  BY DEF NotDone
<1>3. RowsInv'
  BY <1>2 DEF TypeInv, RowsInv, TypedRows, Owned, Indexed
<1>4. OriginBound'
  BY <1>2 DEF BoundInv, OriginBound
<1> QED
  BY <1>1, <1>2, <1>3, <1>4

LEMMA AnsweredTyped ==
    ASSUME TypeInv, BoundInv, Answered
    PROVE  TypeInv' /\ BoundInv'
<1> USE DEF TypeInv
<1>1. PICK q \in InTurn :
             /\ \/ Done(q) /\ tracks' = Rewritten(q, fresh)
                \/ NotDone /\ tracks' = Rewritten(q, Undefined)
             /\ Continues(q)
  BY DEF Answered, Refused
<1>2. q \in flight.todo /\ Unmoved /\ UNCHANGED <<timer, faults>>
  BY DEF Answered, InTurn
<1>3. q.id < fresh /\ fresh \in Nat \ {0} /\ OriginBound
  BY <1>2 DEF BoundInv, StoreInv
<1>4. RowsInv' /\ OriginBound' /\ fresh' \in Nat \ {0} /\ fresh <= fresh'
      /\ tracks' \in Seq(Track) /\ \A id \in IdsOf(tracks') : id < fresh'
  <2>1. CASE Done(q) /\ tracks' = Rewritten(q, fresh)
    <3>1. RowsInv' /\ OriginBound' /\ fresh' \in Nat \ {0} /\ fresh <= fresh'
          /\ fresh' = IF Creates(q) THEN fresh + 1 ELSE fresh
      BY <1>2, <1>3, <2>1, DoneTyped
    <3>2. fresh < fresh' \/ q.op # "trackAdded"
      BY <1>3, <3>1 DEF Creates
    <3>3. fresh \in Nat /\ fresh' \in Nat
      BY <1>3, <3>1
    <3>4. tracks' \in Seq(Track) /\ \A id \in IdsOf(tracks') : id < fresh'
      BY <1>2, <2>1, <3>1, <3>2, <3>3, RewrittenIds
    <3> QED
      BY <3>1, <3>4
  <2>2. CASE NotDone /\ tracks' = Rewritten(q, Undefined)
    <3>1. RowsInv' /\ OriginBound' /\ fresh' \in Nat \ {0} /\ fresh <= fresh'
      BY <2>2, NotDoneTyped
    <3>2. Undefined \in Nat /\ Undefined < fresh' /\ fresh' \in Nat
      BY <3>1 DEF Undefined
    <3>3. tracks' \in Seq(Track) /\ \A id \in IdsOf(tracks') : id < fresh'
      BY <1>2, <2>2, <3>1, <3>2, RewrittenIds
    <3> QED
      BY <3>1, <3>3
  <2> QED
    BY <1>1, <2>1, <2>2
<1>5. /\ flight' \in Flight /\ (~flight'.busy => flight' = Grounded)
      /\ (flight'.busy => flight'.project = flight.project) /\ flight.busy
      /\ flight'.todo \subseteq flight.todo /\ \A r \in flight'.todo : Sendable(r)'
      /\ flight'.next \in {flight.next, Grounded.next}
      /\ snapshot' \in {snapshot, flight.next} /\ snapshot' \in Timeline
      /\ status' \in {"idle", "saving", "saved", "error"} /\ dirty' \in {dirty, FALSE}
  BY <1>1, <1>2, ContinuesTyped
<1>6. timer' \subseteq Projects /\ faults' \in Nat /\ faults' + leaves <= MaxTrouble
  BY <1>2 DEF SaveInv
<1> QED
  BY <1>2, <1>4, <1>5, <1>6, RestTyped

LEMMA AnsweredWithErrorTyped ==
    ASSUME TypeInv, BoundInv, AnsweredWithError
    PROVE  TypeInv' /\ BoundInv'
<1> USE DEF TypeInv
<1>1. PICK q \in InTurn :
             /\ NotDone
             /\ \/ Fails
                \/ tracks' = Rewritten(q, Undefined) /\ Continues(q) /\ UNCHANGED timer
  BY DEF AnsweredWithError, Refused
<1>2. /\ q \in flight.todo /\ Unmoved /\ flight.busy
      /\ faults' \in Nat /\ faults' + leaves <= MaxTrouble
  BY TroubleAssumption DEF AnsweredWithError, Faulty, InTurn, SaveInv
<1>3. RowsInv' /\ OriginBound' /\ fresh' \in Nat \ {0} /\ fresh <= fresh'
  BY <1>1, NotDoneTyped
<1>4. CASE Fails
  <2>1. /\ flight' = Grounded /\ status' = "error" /\ UNCHANGED <<snapshot, dirty, tracks>>
        /\ flight' \in Flight /\ flight'.todo = {} /\ ~flight'.busy /\ timer' \subseteq Projects
    BY <1>4, FailsTyped
  <2>2. tracks' \in Seq(Track) /\ \A id \in IdsOf(tracks') : id < fresh'
    <3>1. fresh' = fresh /\ tracks' = tracks
      BY <1>1, <2>1 DEF NotDone
    <3> QED
      BY <3>1 DEF StoreInv, BoundInv
  <2>3. snapshot' \in Timeline /\ snapshot' = snapshot /\ dirty' = dirty
    BY <2>1 DEF SaveInv
  <2> QED
    BY <1>2, <1>3, <2>1, <2>2, <2>3, RestTyped
<1>5. CASE tracks' = Rewritten(q, Undefined) /\ Continues(q) /\ UNCHANGED timer
  <2>1. Undefined \in Nat /\ Undefined < fresh' /\ fresh' \in Nat
    BY <1>3 DEF Undefined
  <2>2. tracks' \in Seq(Track) /\ \A id \in IdsOf(tracks') : id < fresh'
    BY <1>2, <1>3, <1>5, <2>1, RewrittenIds
  <2>3. /\ flight' \in Flight /\ (~flight'.busy => flight' = Grounded)
        /\ (flight'.busy => flight'.project = flight.project)
        /\ flight'.todo \subseteq flight.todo /\ \A r \in flight'.todo : Sendable(r)'
        /\ flight'.next \in {flight.next, Grounded.next}
        /\ snapshot' \in {snapshot, flight.next} /\ snapshot' \in Timeline
        /\ status' \in {"idle", "saving", "saved", "error"} /\ dirty' \in {dirty, FALSE}
    BY <1>2, <1>5, ContinuesTyped
  <2>4. timer' \subseteq Projects
    BY <1>5 DEF SaveInv
  <2> QED
    BY <1>2, <1>3, <2>2, <2>3, <2>4, RestTyped
<1> QED
  BY <1>1, <1>4, <1>5

LEMMA LostTyped ==
    ASSUME TypeInv, BoundInv, Lost
    PROVE  TypeInv' /\ BoundInv'
<1> USE DEF TypeInv
<1>1. PICK q \in InTurn : Done(q) \/ NotDone
  BY DEF Lost
<1>2. /\ q \in flight.todo /\ Unmoved /\ Fails
      /\ faults' \in Nat /\ faults' + leaves <= MaxTrouble
  BY TroubleAssumption DEF Lost, Faulty, InTurn, SaveInv
<1>3. q.id < fresh /\ fresh \in Nat \ {0} /\ OriginBound
  BY <1>2 DEF BoundInv, StoreInv
<1>4. RowsInv' /\ OriginBound' /\ fresh' \in Nat \ {0} /\ fresh <= fresh'
  <2>1. CASE Done(q)
    BY <1>2, <1>3, <2>1, DoneTyped
  <2>2. CASE NotDone
    BY <2>2, NotDoneTyped
  <2> QED
    BY <1>1, <2>1, <2>2
<1>5. /\ flight' = Grounded /\ status' = "error" /\ UNCHANGED <<snapshot, dirty, tracks>>
      /\ flight' \in Flight /\ flight'.todo = {} /\ ~flight'.busy /\ timer' \subseteq Projects
  BY <1>2, FailsTyped
<1>6. tracks' \in Seq(Track) /\ \A id \in IdsOf(tracks') : id < fresh'
  <2>1. tracks' = tracks /\ tracks \in Seq(Track) /\ fresh' \in Nat
    BY <1>4, <1>5 DEF StoreInv
  <2>2. IdsOf(tracks) \subseteq Nat
    BY <2>1, IdsAreNumbers DEF IdsOf
  <2>3. \A id \in IdsOf(tracks) : id < fresh'
    BY <1>3, <1>4, <2>1, <2>2 DEF BoundInv
  <2> QED
    BY <2>1, <2>3
<1>7. snapshot' \in Timeline /\ snapshot' = snapshot /\ dirty' = dirty
  BY <1>5 DEF SaveInv
<1> QED
  BY <1>2, <1>4, <1>5, <1>6, <1>7, RestTyped

LEMMA NextTyped ==
    ASSUME TypeInv, BoundInv, [AutosaveNext]_editorVars
    PROVE  TypeInv' /\ BoundInv'
<1>1. CASE UNCHANGED editorVars
  <2>1. /\ UNCHANGED <<tracks, title, past, future, dirty, fresh, edits>>
        /\ UNCHANGED <<project, rendered, snapshot, timer, flight, status, mounted, leaves>>
        /\ UNCHANGED <<missed, crossed, stale>>
        /\ UNCHANGED <<rows, owner, rowTitle, faults, origin>>
    BY <1>1 DEF editorVars, storeVars, netVars, saveVars
  <2>2. StoreInv' /\ RowsInv' /\ OriginBound'
    BY <2>1 DEF TypeInv, StoreInv, RowsInv, TypedRows, Owned, Indexed, BoundInv, OriginBound
  <2>3. SaveInv'
    BY <2>1 DEF TypeInv, SaveInv, Sendable
  <2>4. BoundInv'
    BY <2>1 DEF BoundInv, IdsOf, TrackIdsOf, ClipIdsOf, ClipsOf, Created, OriginBound
  <2> QED
    BY <2>2, <2>3, <2>4 DEF TypeInv
<1> QED
  BY <1>1, UserEditsTyped, SaveNowTyped, LeaveTyped, OpenTyped, LoadTyped, FlushTyped, AnsweredTyped,
     AnsweredWithErrorTyped, LostTyped DEF AutosaveNext
LEMMA AutosaveTyped == AutosaveSpec => [](TypeInv /\ BoundInv)
<1>1. AutosaveInit => TypeInv /\ BoundInv
  BY InitTyped
<1>2. (TypeInv /\ BoundInv) /\ [AutosaveNext]_editorVars => (TypeInv /\ BoundInv)'
  BY NextTyped
<1> QED
  BY <1>1, <1>2, PTL DEF AutosaveSpec

\* The store, the snapshot and the rows have their types; every row's id has
\* been drawn, and every clip's row is on a track that is there
\* (editor-store.ts, timeline-sync.ts, the timeline's repositories).
THEOREM AutosaveTypeCorrect == AutosaveSpec => []AutosaveTypeOK
<1>1. ASSUME TypeInv PROVE AutosaveTypeOK
  <2>1. StoreTypeOK
    <3>1. past \in Seq(Command) /\ future \in Seq(Command) /\ edits \in 0..MaxEdits
          /\ Len(past) + Len(future) <= edits /\ Len(past) + Len(future) <= HistoryLimit
      BY <1>1 DEF TypeInv, StoreInv
    <3>2. Len(past) \in Nat /\ Len(future) \in Nat
      BY <3>1
    <3>3. Len(past) <= HistoryLimit /\ Len(past) + Len(future) <= MaxEdits
      BY <3>1, <3>2, StoreAssumption
    <3> QED
      BY <1>1, <3>3 DEF TypeInv, StoreInv, StoreTypeOK
  <2>2. snapshot.tracks \in Seq(Track) /\ snapshot.title \in 0..1 /\ flight.busy \in BOOLEAN
        /\ flight.project \in Projects
    BY <1>1 DEF TypeInv, SaveInv, Timeline, Flight
  <2>3. faults + leaves \in 0..MaxTrouble
    BY <1>1, TroubleAssumption DEF TypeInv, SaveInv
  <2>4. /\ \A c \in DOMAIN rows.clips : rows.clips[c].track \in DOMAIN rows.tracks
        /\ DOMAIN rows.tracks \subseteq DOMAIN owner /\ rowTitle \in [Projects -> 0..1]
        /\ (DOMAIN rows.tracks \union DOMAIN rows.clips) \subseteq 1..(fresh - 1)
    BY <1>1 DEF TypeInv, RowsInv, TypedRows
  <2> QED
    BY <1>1, <2>1, <2>2, <2>3, <2>4 DEF TypeInv, SaveInv, AutosaveTypeOK
<1> QED
  BY <1>1, AutosaveTyped, PTL
-----------------------------------------------------------------------------
(* What the page was loaded with stays, for every step.                    *)

LEMMA Firsts ==
    /\ InitialIds = FirstTracks \union FirstClips /\ FirstTracks \intersect FirstClips = {}
    /\ InitialIds \subseteq Nat /\ 0 \notin InitialIds
    /\ \A c \in FirstClips : Home(c) \in FirstTracks
<1>1. ASSUME NEW c \in FirstClips PROVE Home(c) \in FirstTracks
  <2>1. HolderAt(AllTracks, c) \in DOMAIN AllTracks
    BY AllTracksAre, ClipIsFound DEF FirstClips
  <2> QED
    BY <2>1 DEF Home, FirstTracks, TrackIdsOf
<1> QED
  BY <1>1, AllTracksAre

LEMMA NothingAtHome == AtHome(Grounded.next.tracks)
BY DEF Grounded, AtHome, ClipIdsOf, ClipsOf, TrackIdsOf

LEMMA HomeIs ==
    ASSUME NEW ts, AtHome(ts)
    PROVE  /\ \A t \in TrackIdsOf(ts) \intersect InitialIds : t \in FirstTracks
           /\ \A c \in ClipIdsOf(ts) \intersect InitialIds :
                 /\ c \in FirstClips /\ Home(c) \in TrackIdsOf(ts)
                 /\ \A t : Holds(ts, t, c) => t = Home(c)
<1>1. \A t \in TrackIdsOf(ts) \intersect InitialIds : t \in FirstTracks
  BY DEF AtHome, TrackIdsOf
<1>2. ASSUME NEW c \in ClipIdsOf(ts) \intersect InitialIds
      PROVE  /\ c \in FirstClips /\ Home(c) \in TrackIdsOf(ts)
             /\ \A t : Holds(ts, t, c) => t = Home(c)
  <2>1. PICK u \in TrackIdsOf(ts) : Holds(ts, u, c)
    BY WhoHasWhat
  <2>2. ASSUME NEW t, Holds(ts, t, c) PROVE t \in TrackIdsOf(ts) /\ c \in FirstClips /\ t = Home(c)
    <3>1. t \in TrackIdsOf(ts)
      BY <2>2, WhoHasWhat DEF Holds, HasTrack
    <3> QED
      BY <2>2, <3>1 DEF AtHome
  <2> QED
    BY <2>1, <2>2
<1> QED
  BY <1>1, <1>2

LEMMA RowsOfAtHome ==
    ASSUME NEW ts \in Seq(Track), AtHome(ts)
    PROVE  RowsAtHome(RowsOf(ts))
<1> DEFINE r == RowsOf(ts)
<1>1. /\ DOMAIN r.tracks = TrackIdsOf(ts) /\ DOMAIN r.clips = ClipIdsOf(ts)
      /\ \A t \in TrackIdsOf(ts) :
            \E k \in DOMAIN ts : ts[k].id = t /\ r.tracks[t] = Attributes(ts[k])
      /\ \A c \in ClipIdsOf(ts) : Holds(ts, r.clips[c].track, c)
  BY RowsTyped
<1> HIDE DEF r
<1>2. ASSUME NEW t \in DOMAIN r.tracks \intersect InitialIds
      PROVE  t \in FirstTracks /\ r.tracks[t].kind = FirstKind(t)
  <2>1. PICK k \in DOMAIN ts : ts[k].id = t /\ r.tracks[t] = Attributes(ts[k])
    BY <1>1
  <2>2. t \in FirstTracks /\ ts[k].kind = FirstKind(t)
    BY <2>1 DEF AtHome
  <2> QED
    BY <2>1, <2>2 DEF Attributes
<1>3. ASSUME NEW c \in DOMAIN r.clips \intersect InitialIds
      PROVE  c \in FirstClips /\ r.clips[c].track = Home(c)
  BY <1>1, HomeIs
<1>4. RowsAtHome(r)
  BY <1>2, <1>3 DEF RowsAtHome
<1> QED
  BY <1>4 DEF r

LEMMA AllAtHome == AtHome(AllTracks)
<1>1. AllTracks \in Seq(Track)
  BY AllTracksAre
<1>2. ASSUME NEW k \in DOMAIN AllTracks
      PROVE  /\ AllTracks[k].id \in FirstTracks
             /\ AllTracks[k].kind = FirstKind(AllTracks[k].id)
             /\ \A m \in DOMAIN AllTracks : AllTracks[m].id = AllTracks[k].id => m = k
  <2>1. AllTracks[k].id \in TrackIdsOf(AllTracks)
    BY DEF TrackIdsOf
  <2>2. \A m \in DOMAIN AllTracks : AllTracks[m].id = AllTracks[k].id => m = k
    BY AllTracksAssumption
  <2> DEFINE at == TrackAt(AllTracks, AllTracks[k].id)
  <2>3. at \in DOMAIN AllTracks /\ AllTracks[at].id = AllTracks[k].id
    BY <1>1, <2>1, TrackIsFound
  <2>4. at = k
    BY <2>2, <2>3
  <2> QED
    BY <2>1, <2>2, <2>4 DEF FirstTracks, FirstKind
<1>3. ASSUME NEW t, NEW c \in ClipIdsOf(AllTracks), Holds(AllTracks, t, c)
      PROVE  c \in FirstClips /\ t = Home(c)
  <2>1. PICK k \in DOMAIN AllTracks : AllTracks[k].id = t /\ c \in OwnIds(AllTracks[k])
    BY <1>3 DEF Holds
  <2> DEFINE m == HolderAt(AllTracks, c)
  <2>2. /\ m \in DOMAIN AllTracks
        /\ LastClip(AllTracks[m].clips, c) \in Range(AllTracks[m].clips)
        /\ LastClip(AllTracks[m].clips, c).id = c
    BY <1>1, ClipIsFound
  <2> HIDE DEF m
  <2>3. PICK i \in DOMAIN AllTracks[m].clips : AllTracks[m].clips[i].id = c
    BY <2>2 DEF Range
  <2>4. PICK j \in DOMAIN AllTracks[k].clips : AllTracks[k].clips[j].id = c
    BY <2>1 DEF OwnIds
  <2>5. k = m
    BY <2>2, <2>3, <2>4, AllTracksAssumption
  <2> QED
    BY <2>1, <2>5 DEF m, Home, FirstClips
<1> QED
  BY <1>2, <1>3 DEF AtHome

LEMMA FirstAtHome ==
    /\ AtHome(InitialTracks)
    /\ \A c \in FirstClips : Home(c) \in TrackIdsOf(InitialTracks) => c \in ClipIdsOf(InitialTracks)
<1>1. \A k \in DOMAIN InitialTracks : k \in DOMAIN AllTracks /\ AllTracks[k] = InitialTracks[k]
  BY AllTracksAre
<1>2. ASSUME NEW t, NEW c, Holds(InitialTracks, t, c)
      PROVE  Holds(AllTracks, t, c) /\ c \in ClipIdsOf(AllTracks)
  <2>1. Holds(AllTracks, t, c)
    BY <1>1, <1>2 DEF Holds
  <2> QED
    BY <2>1, WhoHasWhat DEF Holds
<1>3. AtHome(InitialTracks)
  <2>1. ASSUME NEW k \in DOMAIN InitialTracks, InitialTracks[k].id \in InitialIds
        PROVE  /\ InitialTracks[k].id \in FirstTracks
               /\ InitialTracks[k].kind = FirstKind(InitialTracks[k].id)
               /\ \A m \in DOMAIN InitialTracks : InitialTracks[m].id = InitialTracks[k].id => m = k
    BY <1>1, <2>1, AllAtHome DEF AtHome
  <2>2. ASSUME NEW t \in TrackIdsOf(InitialTracks), NEW c \in ClipIdsOf(InitialTracks) \intersect InitialIds,
               Holds(InitialTracks, t, c)
        PROVE  c \in FirstClips /\ t = Home(c)
    BY <1>2, <2>2, AllAtHome, HomeIs
  <2> QED
    BY <2>1, <2>2 DEF AtHome
<1>4. ASSUME NEW c \in FirstClips, Home(c) \in TrackIdsOf(InitialTracks)
      PROVE  c \in ClipIdsOf(InitialTracks)
  <2>1. PICK t \in TrackIdsOf(AllTracks) : Holds(AllTracks, t, c)
    BY WhoHasWhat DEF FirstClips
  <2>2. t = Home(c)
    BY <2>1, AllAtHome, HomeIs, Firsts DEF FirstClips
  <2>3. PICK k \in DOMAIN AllTracks : AllTracks[k].id = t /\ c \in OwnIds(AllTracks[k])
    BY <2>1 DEF Holds
  <2>4. PICK m \in DOMAIN InitialTracks : InitialTracks[m].id = t
    BY <1>4, <2>2, WhoHasWhat DEF HasTrack
  <2>5. k = m
    BY <1>1, <2>3, <2>4, AllTracksAssumption
  <2> QED
    BY <1>1, <2>3, <2>4, <2>5, WhoHasWhat
<1> QED
  BY <1>3, <1>4

LEMMA InitKeeps ==
    ASSUME AutosaveInit
    PROVE  KeptInv
<1>1. removed = {} /\ Kept = InitialIds
  BY DEF Kept, AutosaveInit
<1>2. /\ tracks = InitialTracks /\ snapshot.tracks = InitialTracks /\ rendered = {}
      /\ flight = Grounded /\ rows = RowsOf(AllTracks)
  BY DEF AutosaveInit, StoreInit
<1>3. past = << >> /\ future = << >>
  BY DEF AutosaveInit, StoreInit
<1>4. Created = {} /\ ~flight.busy
  BY <1>2, <1>3 DEF Created, Range, Grounded
<1>5. AtHome(tracks) /\ AtHome(snapshot.tracks) /\ AtHome(flight.next.tracks)
  BY <1>2, FirstAtHome, NothingAtHome
<1>6. AllTracks \in Seq(Track)
  BY AllTracksAre
<1>7. RowsKeep(rows)
  <2>1. RowsAtHome(rows)
    BY <1>2, <1>6, AllAtHome, RowsOfAtHome
  <2>2. DOMAIN rows.tracks = FirstTracks /\ DOMAIN rows.clips = FirstClips
    BY <1>2, <1>6, RowsTyped DEF FirstTracks, FirstClips
  <2> QED
    BY <2>1, <2>2 DEF RowsKeep
<1>8. Whole(tracks)
  BY <1>2, FirstAtHome DEF Whole
<1>9. \A c \in Kept \intersect FirstClips : Home(c) \in Kept
  BY <1>1, Firsts
<1>10. Keeps
  BY <1>2, <1>4, <1>5, <1>7, <1>8, <1>9 DEF Keeps
<1> QED
  BY <1>10 DEF KeptInv

\* What an edit leaves was there before, or it is new.
LEMMA EditedKeeps ==
    ASSUME StoreInv, Keeps, StoreEdited
    PROVE  /\ AtHome(tracks')
           /\ InitialIds \intersect IdsOf(tracks') \subseteq IdsOf(tracks)
           /\ Created' \intersect InitialIds = {}
<1> DEFINE X == Created \union NewIds
<1>1. /\ ComesOf(tracks', tracks, X, NewIds) /\ Created' \subseteq X
      /\ fresh \in Nat /\ fresh' \in Nat /\ \A id \in InitialIds : id < fresh
  BY DEF StoreEdited, StoreInv
<1>2. X \intersect InitialIds = {} /\ NewIds \intersect InitialIds = {}
  BY <1>1, Firsts DEF NewIds, Keeps
<1>3. AtHome(tracks)
  BY DEF Keeps
<1> HIDE DEF X
<1>4. ASSUME NEW k \in DOMAIN tracks'
      PROVE  \/ tracks'[k].id \notin InitialIds /\ OwnIds(tracks'[k]) = {}
             \/ \E a \in DOMAIN tracks :
                   /\ SameTrack(tracks'[k], tracks[a])
                   /\ OwnIds(tracks'[k]) \intersect InitialIds \subseteq OwnIds(tracks[a])
  <2>1. CASE tracks'[k].id \in NewIds /\ OwnIds(tracks'[k]) = {}
    BY <1>2, <1>3, <2>1
  <2>2. ASSUME NEW a \in DOMAIN tracks, SameTrack(tracks'[k], tracks[a]),
               OwnIds(tracks'[k]) \subseteq OwnIds(tracks[a]) \union X
        PROVE  OwnIds(tracks'[k]) \intersect InitialIds \subseteq OwnIds(tracks[a])
    BY <1>2, <1>3, <2>2
  <2> QED
    BY <1>1, <2>1, <2>2 DEF ComesOf
<1>5. ASSUME NEW k \in DOMAIN tracks', tracks'[k].id \in InitialIds
      PROVE  /\ tracks'[k].id \in FirstTracks /\ tracks'[k].kind = FirstKind(tracks'[k].id)
             /\ \A m \in DOMAIN tracks' : tracks'[m].id = tracks'[k].id => m = k
             /\ tracks'[k].id \in TrackIdsOf(tracks)
  <2>1. PICK a \in DOMAIN tracks : SameTrack(tracks'[k], tracks[a])
    BY <1>4, <1>5
  <2>2. tracks[a].id = tracks'[k].id /\ tracks[a].kind = tracks'[k].kind
    BY <2>1 DEF SameTrack
  <2>3. ASSUME NEW m \in DOMAIN tracks', tracks'[m].id = tracks'[k].id, m # k PROVE FALSE
    <3>1. tracks'[k].id \notin NewIds
      BY <1>2, <1>3, <1>5
    <3>2. PICK b, d \in DOMAIN tracks : b # d /\ tracks[b].id = tracks'[k].id /\ tracks[d].id = tracks'[k].id
      BY <1>1, <2>3, <3>1 DEF ComesOf
    <3> QED
      BY <1>3, <1>5, <3>2 DEF AtHome
  <2> QED
    BY <1>3, <1>5, <2>2, <2>3 DEF AtHome, TrackIdsOf
<1>6. ASSUME NEW t, NEW c \in InitialIds, Holds(tracks', t, c)
      PROVE  Holds(tracks, t, c)
  <2>1. PICK k \in DOMAIN tracks' : tracks'[k].id = t /\ c \in OwnIds(tracks'[k])
    BY <1>6 DEF Holds
  <2>2. PICK a \in DOMAIN tracks : /\ SameTrack(tracks'[k], tracks[a])
                                   /\ OwnIds(tracks'[k]) \intersect InitialIds \subseteq OwnIds(tracks[a])
    BY <1>4, <2>1
  <2> QED
    BY <2>1, <2>2 DEF Holds, SameTrack
<1>7. ASSUME NEW t, NEW c \in ClipIdsOf(tracks') \intersect InitialIds, Holds(tracks', t, c)
      PROVE  c \in ClipIdsOf(tracks) /\ c \in FirstClips /\ t = Home(c)
  <2>1. Holds(tracks, t, c)
    BY <1>6, <1>7
  <2>2. c \in ClipIdsOf(tracks)
    BY <2>1, WhoHasWhat DEF Holds
  <2> QED
    BY <1>3, <1>7, <2>1, <2>2, HomeIs
<1>8. AtHome(tracks')
  BY <1>5, <1>7 DEF AtHome
<1>9. InitialIds \intersect IdsOf(tracks') \subseteq IdsOf(tracks)
  <2>1. ASSUME NEW id \in InitialIds, id \in TrackIdsOf(tracks') PROVE id \in TrackIdsOf(tracks)
    BY <1>5, <2>1 DEF TrackIdsOf
  <2>2. ASSUME NEW id \in InitialIds, id \in ClipIdsOf(tracks') PROVE id \in ClipIdsOf(tracks)
    <3>1. PICK t : Holds(tracks', t, id)
      BY <2>2, WhoHasWhat
    <3> QED
      BY <1>7, <2>2, <3>1
  <2> QED
    BY <2>1, <2>2 DEF IdsOf
<1> QED
  BY <1>1, <1>2, <1>8, <1>9

LEMMA UserEditsKeep ==
    ASSUME TypeInv, BoundInv, Keeps, UserEdits
    PROVE  Keeps'
<1>1. /\ Edit /\ UNCHANGED <<snapshot, flight, rendered, rows>>
      /\ removed' = removed \union (TrackIdsOf(tracks) \ TrackIdsOf(tracks'))
                            \union (ClipIdsOf(tracks) \ ClipIdsOf(tracks'))
  BY DEF UserEdits, netVars
<1>2. StoreEdited /\ StoreInv
  BY <1>1, EditDoes DEF TypeInv, BoundInv, IdsOf, Sound
<1>3. /\ Kept' \subseteq Kept /\ Kept' \subseteq InitialIds
      /\ Kept' \intersect TrackIdsOf(tracks) \subseteq TrackIdsOf(tracks')
      /\ Kept' \intersect ClipIdsOf(tracks) \subseteq ClipIdsOf(tracks')
  BY <1>1 DEF Kept
<1>4. /\ AtHome(tracks') /\ InitialIds \intersect IdsOf(tracks') \subseteq IdsOf(tracks)
      /\ Created' \intersect InitialIds = {}
  BY <1>2, EditedKeeps
<1>5. AtHome(tracks) /\ AtHome(snapshot.tracks) /\ AtHome(flight.next.tracks) /\ Whole(tracks)
  BY DEF Keeps
<1>6. /\ InitialIds \intersect IdsOf(tracks') \subseteq IdsOf(snapshot.tracks)
      /\ Kept' \intersect IdsOf(snapshot.tracks) \subseteq IdsOf(tracks')
  BY <1>3, <1>4 DEF Keeps, IdsOf
\* The tracks of the clips that are kept are no clips.
<1>7. ASSUME NEW c \in FirstClips
      PROVE  Home(c) \notin ClipIdsOf(tracks) /\ Home(c) \in FirstTracks /\ Home(c) \in InitialIds
  BY <1>5, HomeIs, Firsts
<1>8. ASSUME NEW c \in Kept' \intersect FirstClips, Home(c) \in TrackIdsOf(tracks)
      PROVE  c \in ClipIdsOf(tracks') /\ Home(c) \in TrackIdsOf(tracks')
  <2>1. c \in ClipIdsOf(tracks)
    BY <1>3, <1>5, <1>8 DEF Whole
  <2>2. c \in ClipIdsOf(tracks')
    BY <1>3, <2>1
  <2> QED
    BY <1>3, <1>4, <2>2, HomeIs
<1>9. Whole(tracks)'
  <2>1. ASSUME NEW c \in Kept' \intersect FirstClips, Home(c) \in TrackIdsOf(tracks')
        PROVE  c \in ClipIdsOf(tracks')
    <3>1. Home(c) \in TrackIdsOf(tracks)
      BY <1>4, <1>7, <2>1 DEF IdsOf
    <3> QED
      BY <1>8, <3>1
  <2> QED
    BY <2>1 DEF Whole, TrackIdsOf, ClipIdsOf, ClipsOf
<1>10. RowsKeep(rows)'
  BY <1>1, <1>3 DEF Keeps, RowsKeep, RowsAtHome
<1>11. ASSUME NEW c \in Kept' \intersect FirstClips PROVE Home(c) \in Kept'
  <2>1. Home(c) \in Kept
    BY <1>3 DEF Keeps
  <2> QED
    BY <1>1, <1>7, <1>8, <2>1 DEF Kept
<1>12. flight'.busy => FlightKeeps'
  <2>1. SUFFICES ASSUME flight.busy PROVE FlightKeeps'
    BY <1>1
  <2>2. FlightKeeps
    BY <2>1 DEF Keeps
  <2>3. /\ InitialIds \intersect IdsOf(tracks') \subseteq IdsOf(flight.next.tracks)
        /\ Kept' \intersect IdsOf(flight.next.tracks) \subseteq IdsOf(tracks')
    BY <1>3, <1>4, <2>2 DEF FlightKeeps, IdsOf
  <2>4. \A q \in flight.todo :
          /\ q.op \in {"trackAdded", "clipCreated"} => q.id \notin InitialIds
          /\ q.op \in {"trackRemoved", "clipRemoved"} => q.id \notin Kept'
    BY <1>3, <2>2 DEF FlightKeeps
  <2>5. \A u \in flight.moves : u.id \in InitialIds => "track" \notin DOMAIN u.set
    BY <2>2 DEF FlightKeeps
  <2>6. flight' = flight
    BY <1>1
  <2> QED
    BY <2>3, <2>4, <2>5, <2>6 DEF FlightKeeps, IdsOf, TrackIdsOf, ClipIdsOf, ClipsOf
<1>13. (\A page \in rendered : AtHome(page.tracks) /\ Whole(page.tracks))'
  BY <1>1, <1>3 DEF Keeps, Whole
<1>14. snapshot' = snapshot /\ flight' = flight
  BY <1>1
<1> QED
  BY <1>4, <1>5, <1>6, <1>9, <1>10, <1>11, <1>12, <1>13, <1>14 DEF Keeps

LEMMA SameKeeps ==
    ASSUME Keeps, UNCHANGED <<tracks, snapshot, flight, rendered, rows, removed, past, future>>
    PROVE  Keeps'
<1>1. Kept' = Kept /\ Created' = Created
  BY DEF Kept, Created
<1>2. FlightKeeps => FlightKeeps'
  BY <1>1 DEF FlightKeeps
<1>3. RowsKeep(rows)' /\ Whole(tracks)'
  BY <1>1 DEF Keeps, RowsKeep, Whole
<1>4. \A page \in rendered : AtHome(page.tracks) /\ \A c \in Kept \cap FirstClips :
        Home(c) \in TrackIdsOf(page.tracks) => c \in ClipIdsOf(page.tracks)
  BY DEF Keeps, Whole
<1>5. (\A page \in rendered : AtHome(page.tracks) /\ Whole(page.tracks))'
  BY <1>1, <1>4 DEF Whole
<1> QED
  BY <1>1, <1>2, <1>3, <1>5 DEF Keeps

LEMMA LoadedKeeps ==
    ASSUME TypeInv, Keeps, NEW p
    PROVE  AtHome(Loaded(p)) /\ Whole(Loaded(p))
<1> DEFINE ts == Loaded(p)
<1>1. TypedRows(rows, fresh) /\ fresh \in Nat /\ Indexed(rows, owner)
  BY DEF TypeInv, RowsInv, StoreInv
<1>2. RowsKeep(rows) /\ RowsAtHome(rows)
  BY DEF Keeps, RowsKeep
<1>3. /\ TrackIdsOf(ts) = TracksOf(p)
      /\ ClipIdsOf(ts) = {c \in DOMAIN rows.clips : rows.clips[c].track \in TracksOf(p)}
      /\ \A k \in DOMAIN ts : \E t \in TracksOf(p) : ts[k] = Full(t)
      /\ \A k, m \in DOMAIN ts : ts[k].id = ts[m].id => k = m
  BY <1>1, LoadedTyped, LoadedIsRows
<1>4. TracksOf(p) \subseteq DOMAIN rows.tracks
  BY DEF TracksOf
<1> HIDE DEF ts
<1>5. ASSUME NEW k \in DOMAIN ts, ts[k].id \in InitialIds
      PROVE  /\ ts[k].id \in FirstTracks /\ ts[k].kind = FirstKind(ts[k].id)
             /\ \A m \in DOMAIN ts : ts[m].id = ts[k].id => m = k
  <2>1. PICK t \in TracksOf(p) : ts[k] = Full(t)
    BY <1>3
  <2>2. ts[k].id = t /\ Attributes(ts[k]) = rows.tracks[t]
    BY <1>1, <1>4, <2>1, FullTyped
  <2>3. ts[k].kind = rows.tracks[t].kind
    BY <2>2 DEF Attributes
  <2> QED
    BY <1>2, <1>3, <1>4, <1>5, <2>2, <2>3 DEF RowsAtHome
<1>6. ASSUME NEW t, NEW c \in ClipIdsOf(ts) \intersect InitialIds, Holds(ts, t, c)
      PROVE  c \in FirstClips /\ t = Home(c)
  <2>1. PICK k \in DOMAIN ts : ts[k].id = t /\ c \in OwnIds(ts[k])
    BY <1>6 DEF Holds
  <2>2. PICK u \in TracksOf(p) : ts[k] = Full(u)
    BY <1>3
  <2>3. PICK j \in DOMAIN Full(u).clips : Full(u).clips[j].id = c
    BY <2>1, <2>2 DEF OwnIds
  <2>4. PICK d \in DOMAIN rows.clips : rows.clips[d].track = u /\ Full(u).clips[j] = Plain(d)
    BY <1>1, <1>4, FullTyped
  <2>5. d = c /\ u = t
    BY <1>1, <1>4, <2>1, <2>2, <2>3, <2>4, FullTyped DEF Plain
  <2> QED
    BY <1>2, <1>6, <2>4, <2>5 DEF RowsAtHome
<1>7. AtHome(ts)
  BY <1>5, <1>6 DEF AtHome
<1>8. Whole(ts)
  <2>1. ASSUME NEW c \in Kept \cap FirstClips, Home(c) \in TrackIdsOf(ts) PROVE c \in ClipIdsOf(ts)
    <3>1. c \in DOMAIN rows.clips /\ rows.clips[c].track = Home(c)
      BY <1>2, Firsts DEF RowsKeep, RowsAtHome
    <3> QED
      BY <1>3, <2>1, <3>1
  <2> QED
    BY <2>1 DEF Whole
<1> QED
  BY <1>7, <1>8 DEF ts

LEMMA LoadKeeps ==
    ASSUME TypeInv, Keeps, NEW p \in Projects, Load(p)
    PROVE  Keeps'
<1>1. UNCHANGED <<tracks, snapshot, flight, rows, removed, past, future>>
  BY DEF Load
<1>2. \/ rendered' = {PageOf(p)}
      \/ rendered' = {[PageOf(p) EXCEPT !.tracks = Placeholders]}
  BY DEF Load
<1>3. AtHome(Loaded(p)) /\ Whole(Loaded(p))
  BY LoadedKeeps
<1>4. AtHome(Placeholders) /\ Whole(Placeholders)
  <2> DEFINE ts == Placeholders
  <2>1. /\ TrackIdsOf(ts) = {fresh, fresh + 1} /\ ClipIdsOf(ts) = {}
        /\ fresh \in Nat /\ \A id \in InitialIds : id < fresh
    BY PlaceholdersTyped DEF TypeInv, StoreInv
  <2> HIDE DEF ts
  <2>2. \A k \in DOMAIN ts : ts[k].id \notin InitialIds
    BY <2>1, Firsts DEF TrackIdsOf
  <2>3. \A t \in TrackIdsOf(ts) : t \notin InitialIds
    BY <2>1, Firsts
  <2>4. \A c \in FirstClips : Home(c) \in InitialIds
    BY Firsts
  <2>5. AtHome(ts) /\ Whole(ts)
    BY <2>1, <2>2, <2>3, <2>4 DEF AtHome, Whole
  <2> QED
    BY <2>5 DEF ts
<1>5. \A page \in rendered' : page.tracks \in {Loaded(p), Placeholders}
  BY <1>2 DEF PageOf
<1>6. \A page \in rendered' : AtHome(page.tracks) /\ Whole(page.tracks)
  BY <1>3, <1>4, <1>5
<1>7. Kept' = Kept /\ Created' = Created
  BY <1>1 DEF Kept, Created
<1>8. FlightKeeps => FlightKeeps'
  BY <1>1, <1>7 DEF FlightKeeps
<1>9. RowsKeep(rows)' /\ Whole(tracks)'
  BY <1>1, <1>7 DEF Keeps, RowsKeep, Whole
<1>10. (\A page \in rendered : AtHome(page.tracks) /\ Whole(page.tracks))'
  BY <1>6, <1>7 DEF Whole
<1> QED
  BY <1>1, <1>7, <1>8, <1>9, <1>10 DEF Keeps

LEMMA OpenKeeps ==
    ASSUME TypeInv, Keeps, Open, ~flight.busy
    PROVE  Keeps'
<1>1. PICK page \in rendered : tracks' = page.tracks /\ snapshot'.tracks = page.tracks
  BY DEF Open
<1>2. /\ past' = << >> /\ future' = << >> /\ rendered' = {}
      /\ flight' = flight /\ rows' = rows /\ removed' = removed
  BY DEF Open
<1>3. Kept' = Kept
  BY <1>2 DEF Kept
<1>4. AtHome(page.tracks) /\ Whole(page.tracks) /\ AtHome(flight.next.tracks)
  BY DEF Keeps
<1>5. RowsKeep(rows)' /\ Whole(tracks)'
  BY <1>1, <1>2, <1>3, <1>4 DEF Keeps, RowsKeep, Whole
<1>6. Created' = {}
  BY <1>2 DEF Created, Range
<1>7. \A c \in Kept' \intersect FirstClips : Home(c) \in Kept'
  BY <1>3 DEF Keeps
<1> QED
  BY <1>1, <1>2, <1>4, <1>5, <1>6, <1>7 DEF Keeps

LEMMA DiffKeeps ==
    ASSUME NEW prev \in Timeline, NEW next \in Timeline,
           AtHome(prev.tracks), AtHome(next.tracks),
           InitialIds \intersect IdsOf(next.tracks) \subseteq IdsOf(prev.tracks),
           Kept \intersect IdsOf(prev.tracks) \subseteq IdsOf(next.tracks)
    PROVE  /\ \A q \in Diff(prev, next) :
                 /\ q.op \in {"trackAdded", "clipCreated"} => q.id \notin InitialIds
                 /\ q.op \in {"trackRemoved", "clipRemoved"} => q.id \notin Kept
           /\ \A u \in Moves(prev, next) : u.id \in InitialIds => "track" \notin DOMAIN u.set
<1>1. prev.tracks \in Seq(Track) /\ next.tracks \in Seq(Track)
  BY DEF Timeline
<1>2. ASSUME NEW q \in Diff(prev, next)
      PROVE  /\ q.op \in {"trackAdded", "clipCreated"} => q.id \notin InitialIds
             /\ q.op \in {"trackRemoved", "clipRemoved"} => q.id \notin Kept
  <2>1. Needed(q, prev, next)
    BY DiffIsNeeded
  <2>2. ASSUME q.op = "trackAdded", q.id \in InitialIds PROVE FALSE
    <3>1. q.id \in TrackIdsOf(next.tracks) /\ q.id \notin TrackIdsOf(prev.tracks)
      BY <2>1, <2>2 DEF Needed, TrackIdsOf
    <3>2. q.id \in ClipIdsOf(prev.tracks)
      BY <2>2, <3>1 DEF IdsOf
    <3> QED
      BY <2>2, <3>1, <3>2, HomeIs, Firsts
  <2>3. ASSUME q.op = "clipCreated", q.id \in InitialIds PROVE FALSE
    <3>1. q.id \in ClipIdsOf(next.tracks) /\ q.id \notin ClipIdsOf(prev.tracks)
      BY <2>1, <2>3 DEF Needed
    <3>2. q.id \in TrackIdsOf(prev.tracks)
      BY <2>3, <3>1 DEF IdsOf
    <3> QED
      BY <2>3, <3>1, <3>2, HomeIs, Firsts
  <2>4. ASSUME q.op = "trackRemoved", q.id \in Kept PROVE FALSE
    <3>1. q.id \in TrackIdsOf(prev.tracks) /\ q.id \notin TrackIdsOf(next.tracks)
      BY <2>1, <2>4 DEF Needed
    <3>2. q.id \in FirstTracks /\ q.id \in ClipIdsOf(next.tracks) /\ q.id \in InitialIds
      BY <2>4, <3>1, HomeIs DEF IdsOf, Kept
    <3> QED
      BY <3>2, HomeIs, Firsts
  <2>5. ASSUME q.op = "clipRemoved", q.id \in Kept PROVE FALSE
    <3>1. q.id \in ClipIdsOf(prev.tracks) /\ q.id \notin ClipIdsOf(next.tracks)
      BY <2>1, <2>5 DEF Needed
    <3>2. q.id \in FirstClips /\ q.id \in TrackIdsOf(next.tracks) /\ q.id \in InitialIds
      BY <2>5, <3>1, HomeIs DEF IdsOf, Kept
    <3> QED
      BY <3>2, HomeIs, Firsts
  <2> QED
    BY <2>2, <2>3, <2>4, <2>5
<1>3. ASSUME NEW u \in Moves(prev, next), u.id \in InitialIds PROVE "track" \notin DOMAIN u.set
  <2> DEFINE p == RowsOf(prev.tracks).clips[u.id]
             n == RowsOf(next.tracks).clips[u.id]
  <2>1. /\ u.id \in ClipIdsOf(prev.tracks) \intersect ClipIdsOf(next.tracks)
        /\ u.set = Placement(p, n)
    BY MovesAreMoves
  <2>2. Holds(prev.tracks, p.track, u.id) /\ Holds(next.tracks, n.track, u.id)
    BY <1>1, <2>1, RowsTyped
  <2> HIDE DEF p, n
  <2>3. p.track = Home(u.id)
    BY <1>3, <2>1, <2>2, HomeIs
  <2>4. n.track = Home(u.id)
    BY <1>3, <2>1, <2>2, HomeIs
  <2> QED
    BY <2>1, <2>3, <2>4 DEF Placement
<1> QED
  BY <1>2, <1>3

LEMMA FlushKeeps ==
    ASSUME TypeInv, Keeps, Flush
    PROVE  Keeps'
<1> DEFINE next == [title |-> title, tracks |-> tracks]
           begun == [busy |-> TRUE, project |-> project, todo |-> Diff(snapshot, next),
                     next |-> next, moves |-> Moves(snapshot, next)]
<1>1. UNCHANGED <<tracks, past, future, rendered, rows, removed>>
  BY DEF Flush, netVars
<1>2. next \in Timeline /\ snapshot \in Timeline /\ next.tracks = tracks
  BY DEF TypeInv, StoreInv, SaveInv, Timeline
<1>3. \/ flight' = Grounded /\ snapshot' = next
      \/ /\ flight' = begun
         /\ snapshot' = snapshot
      \/ flight' = flight /\ snapshot' = snapshot
  BY DEF Flush, Saved
<1> HIDE DEF next
<1>4. Kept' = Kept /\ Created' = Created
  BY <1>1 DEF Kept, Created
<1>5. /\ RowsKeep(rows)' /\ Whole(tracks)'
      /\ (\A page \in rendered : AtHome(page.tracks) /\ Whole(page.tracks))'
  BY <1>1, <1>4 DEF Keeps, RowsKeep, Whole
<1>6. CASE flight' = Grounded /\ snapshot' = next
  <2>1. AtHome(flight'.next.tracks) /\ ~flight'.busy
    BY <1>6, NothingAtHome DEF Grounded
  <2>2. AtHome(snapshot'.tracks)
        /\ InitialIds \intersect IdsOf(tracks') \subseteq IdsOf(snapshot'.tracks)
        /\ Kept' \intersect IdsOf(snapshot'.tracks) \subseteq IdsOf(tracks')
    BY <1>1, <1>2, <1>4, <1>6 DEF Keeps
  <2> QED
    BY <1>1, <1>4, <1>5, <2>1, <2>2 DEF Keeps
<1>7. CASE /\ flight' = begun
           /\ snapshot' = snapshot
  <2>1. /\ \A q \in Diff(snapshot, next) :
              /\ q.op \in {"trackAdded", "clipCreated"} => q.id \notin InitialIds
              /\ q.op \in {"trackRemoved", "clipRemoved"} => q.id \notin Kept
        /\ \A u \in Moves(snapshot, next) : u.id \in InitialIds => "track" \notin DOMAIN u.set
    BY <1>2, DiffKeeps DEF Keeps
  <2>2. /\ flight'.todo = Diff(snapshot, next) /\ flight'.moves = Moves(snapshot, next)
        /\ flight'.next = next
    BY <1>7
  <2>3. FlightKeeps'
    <3>1. InitialIds \cap IdsOf(tracks') \subseteq IdsOf(next.tracks)
          /\ Kept \cap IdsOf(next.tracks) \subseteq IdsOf(tracks')
      BY <1>1, <1>2
    <3> QED
      BY <1>1, <1>4, <2>1, <2>2, <3>1 DEF FlightKeeps
  <2>4. AtHome(flight'.next.tracks)
    BY <1>2, <1>4, <2>2 DEF Keeps
  <2> QED
    BY <1>1, <1>4, <1>5, <1>7, <2>3, <2>4 DEF Keeps
<1>8. CASE flight' = flight /\ snapshot' = snapshot
  BY <1>1, <1>8, SameKeeps
<1> QED
  BY <1>3, <1>6, <1>7, <1>8

\* A new name goes only to a track the page was not loaded with.
LEMMA RenamedKeeps ==
    ASSUME TypeInv, Keeps, flight.busy, NEW q \in flight.todo, NEW id, id \notin InitialIds,
           NEW us, RenamedAs(us, tracks, q, id)
    PROVE  AtHome(us) /\ ClipIdsOf(us) = ClipIdsOf(tracks) /\ InitialIds \intersect IdsOf(us) = InitialIds \intersect IdsOf(tracks)
           /\ Whole(us)
<1>1. tracks \in Seq(Track) /\ FlightKeeps /\ AtHome(tracks) /\ Whole(tracks)
  BY DEF TypeInv, StoreInv, Keeps
<1>2. /\ us \in Seq(Track) /\ DOMAIN us = DOMAIN tracks
      /\ \A k \in DOMAIN tracks : us[k].kind = tracks[k].kind /\ OwnIds(us[k]) = OwnIds(tracks[k])
      /\ ClipIdsOf(us) = ClipIdsOf(tracks)
  BY <1>1, RenamedIds
<1>3. ASSUME NEW k \in DOMAIN tracks
      PROVE  (us[k].id \in InitialIds \/ tracks[k].id \in InitialIds) => us[k].id = tracks[k].id
  <2>1. us[k].id = IF q.op = "trackAdded" /\ tracks[k].id = q.id THEN id ELSE tracks[k].id
    BY <1>1, TracksTyped DEF RenamedAs
  <2>2. q.op = "trackAdded" => q.id \notin InitialIds
    BY <1>1 DEF FlightKeeps
  <2> QED
    BY <2>1, <2>2
<1>4. ASSUME NEW k \in DOMAIN us, us[k].id \in InitialIds
      PROVE  /\ us[k].id \in FirstTracks /\ us[k].kind = FirstKind(us[k].id)
             /\ \A m \in DOMAIN us : us[m].id = us[k].id => m = k
  <2>1. us[k].id = tracks[k].id /\ k \in DOMAIN tracks /\ us[k].kind = tracks[k].kind
    BY <1>2, <1>3, <1>4
  <2>2. ASSUME NEW m \in DOMAIN us, us[m].id = us[k].id PROVE m = k
    <3>1. tracks[m].id = us[m].id /\ m \in DOMAIN tracks
      BY <1>2, <1>3, <1>4, <2>2
    <3> QED
      BY <1>1, <1>4, <2>1, <2>2, <3>1 DEF AtHome
  <2> QED
    BY <1>1, <1>4, <2>1, <2>2 DEF AtHome
<1>5. ASSUME NEW t, NEW c \in ClipIdsOf(us) \intersect InitialIds, Holds(us, t, c)
      PROVE  c \in FirstClips /\ t = Home(c)
  <2>1. PICK k \in DOMAIN us : us[k].id = t /\ c \in OwnIds(us[k])
    BY <1>5 DEF Holds
  <2>2. k \in DOMAIN tracks /\ Holds(tracks, tracks[k].id, c)
    BY <1>2, <2>1 DEF Holds
  <2>3. c \in FirstClips /\ tracks[k].id = Home(c)
    BY <1>1, <1>2, <1>5, <2>2, HomeIs
  <2>4. tracks[k].id \in InitialIds
    BY <2>3, Firsts
  <2> QED
    BY <1>3, <2>1, <2>2, <2>3, <2>4
<1>6. AtHome(us)
  BY <1>4, <1>5 DEF AtHome
<1>7. \A t \in InitialIds : t \in TrackIdsOf(us) <=> t \in TrackIdsOf(tracks)
  <2>1. ASSUME NEW t \in InitialIds, t \in TrackIdsOf(tracks) PROVE t \in TrackIdsOf(us)
    <3>1. PICK k \in DOMAIN tracks : tracks[k].id = t
      BY <2>1 DEF TrackIdsOf
    <3>2. us[k].id = t
      BY <1>3, <3>1
    <3> QED
      BY <1>2, <3>2 DEF TrackIdsOf
  <2>2. ASSUME NEW t \in InitialIds, t \in TrackIdsOf(us) PROVE t \in TrackIdsOf(tracks)
    <3>1. PICK k \in DOMAIN us : us[k].id = t
      BY <2>2 DEF TrackIdsOf
    <3> QED
      BY <1>2, <1>3, <2>2, <3>1 DEF TrackIdsOf
  <2> QED
    BY <2>1, <2>2
<1>8. InitialIds \intersect IdsOf(us) = InitialIds \intersect IdsOf(tracks)
  BY <1>2, <1>7 DEF IdsOf
<1>9. Whole(us)
  BY <1>1, <1>2, <1>7, Firsts DEF Whole
<1> QED
  BY <1>2, <1>6, <1>8, <1>9

\* What a request that was done leaves.
LEMMA ServedKeeps ==
    ASSUME TypeInv, Keeps, flight.busy, NEW q \in flight.todo, NEW r,
           TypedRows(r, fresh'), ServedAs(q, r)
    PROVE  RowsKeep(r)
<1>1. /\ RowsAtHome(rows) /\ FlightKeeps
      /\ Kept \intersect FirstTracks \subseteq DOMAIN rows.tracks
      /\ Kept \intersect FirstClips \subseteq DOMAIN rows.clips
      /\ \A c \in Kept \intersect FirstClips : Home(c) \in Kept
  BY DEF Keeps, RowsKeep
<1>2. fresh \notin InitialIds /\ fresh \notin Kept
  BY DEF TypeInv, StoreInv, Kept
<1>3. q.op \in Range(Operations) /\ SaveInv /\ TypedRows(rows, fresh)
  BY OperationsAre DEF TypeInv, SaveInv, Flight, RowsInv
<1> USE DEF RowsAtHome, Apart
<1>4. CASE q.op = "title"
  BY <1>4 DEF ServedAs, Keeps
<1>5. CASE q.op = "trackAdded"
  <2>1. /\ r.clips = rows.clips /\ DOMAIN r.tracks = DOMAIN rows.tracks \union {fresh}
        /\ Apart(r.tracks, rows.tracks, {fresh})
    BY <1>5 DEF ServedAs
  <2> QED
    BY <1>1, <1>2, <2>1 DEF RowsKeep
<1>6. CASE q.op = "trackUpdated"
  <2>1. /\ r.clips = rows.clips /\ DOMAIN r.tracks = DOMAIN rows.tracks
        /\ r.tracks[q.id].kind = rows.tracks[q.id].kind
        /\ Apart(r.tracks, rows.tracks, {q.id})
    BY <1>6 DEF ServedAs
  <2> QED
    BY <1>1, <2>1 DEF RowsKeep
<1>7. CASE q.op = "trackRemoved"
  <2>1. /\ DOMAIN r.tracks = DOMAIN rows.tracks \ {q.id}
        /\ DOMAIN r.clips = {c \in DOMAIN rows.clips : rows.clips[c].track # q.id}
        /\ Apart(r.tracks, rows.tracks, {q.id})
        /\ \A c \in DOMAIN r.clips : r.clips[c] = rows.clips[c]
    BY <1>7 DEF ServedAs
  <2>2. q.id \notin Kept
    BY <1>1, <1>7 DEF FlightKeeps
  <2>3. RowsAtHome(r)
    BY <1>1, <2>1
  <2>4. Kept \intersect FirstTracks \subseteq DOMAIN r.tracks
    BY <1>1, <2>1, <2>2
  <2>5. ASSUME NEW c \in Kept \intersect FirstClips PROVE c \in DOMAIN r.clips
    <3>1. c \in DOMAIN rows.clips /\ c \in InitialIds /\ Home(c) \in Kept
      BY <1>1 DEF Kept
    <3>2. rows.clips[c].track = Home(c)
      BY <1>1, <3>1
    <3> QED
      BY <2>1, <2>2, <3>1, <3>2
  <2> QED
    BY <2>3, <2>4, <2>5 DEF RowsKeep
<1>8. CASE q.op = "clipCreated"
  <2>1. /\ r.tracks = rows.tracks /\ DOMAIN r.clips = DOMAIN rows.clips \union {fresh}
        /\ Apart(r.clips, rows.clips, {fresh})
    BY <1>8 DEF ServedAs
  <2> QED
    BY <1>1, <1>2, <2>1 DEF RowsKeep
<1>9. CASE q.op = "clipUpdated"
  <2>1. /\ r.tracks = rows.tracks /\ DOMAIN r.clips = DOMAIN rows.clips
        /\ r.clips[q.id].track = rows.clips[q.id].track
        /\ Apart(r.clips, rows.clips, {q.id})
    BY <1>9 DEF ServedAs
  <2> QED
    BY <1>1, <2>1 DEF RowsKeep
<1>10. CASE q.op = "clipRemoved"
  <2>1. /\ r.tracks = rows.tracks /\ DOMAIN r.clips = DOMAIN rows.clips \ {q.id}
        /\ Apart(r.clips, rows.clips, {q.id})
    BY <1>10 DEF ServedAs
  <2>2. q.id \notin Kept
    BY <1>1, <1>10 DEF FlightKeeps
  <2> QED
    BY <1>1, <2>1, <2>2 DEF RowsKeep
<1>11. CASE q.op = "reorder"
  <2>1. /\ r.tracks = rows.tracks /\ DOMAIN r.clips = DOMAIN rows.clips
        /\ Apart(r.clips, rows.clips, {u.id : u \in flight.moves})
        /\ \A c \in {u.id : u \in flight.moves} :
              /\ c \in DOMAIN rows.clips
              /\ \E u \in flight.moves : u.id = c /\ r.clips[c] = Placed(rows.clips[c], u.set)
    BY <1>11 DEF ServedAs
  <2>2. ASSUME NEW c \in DOMAIN r.clips \intersect InitialIds
        PROVE  r.clips[c].track = rows.clips[c].track
    <3>1. CASE c \in {u.id : u \in flight.moves}
      <4>1. PICK u \in flight.moves : u.id = c /\ r.clips[c] = Placed(rows.clips[c], u.set)
        BY <2>1, <3>1
      <4>2. u \in Move /\ rows.clips[c] \in ClipRow /\ "track" \notin DOMAIN u.set
        BY <1>1, <1>3, <2>1, <2>2, <4>1 DEF SaveInv, Flight, TypedRows, FlightKeeps
      <4> QED
        BY <4>1, <4>2, RowPlaced
    <3>2. CASE c \notin {u.id : u \in flight.moves}
      BY <2>1, <3>2
    <3> QED
      BY <3>1, <3>2
  <2> QED
    BY <1>1, <2>1, <2>2 DEF RowsKeep
<1> QED
  BY <1>3, <1>4, <1>5, <1>6, <1>7, <1>8, <1>9, <1>10, <1>11, OperationsAre

LEMMA DoneKeeps ==
    ASSUME TypeInv, BoundInv, Keeps, flight.busy, NEW q \in flight.todo, Done(q) \/ NotDone
    PROVE  RowsKeep(rows')
<1>1. CASE Done(q)
  <2>1. Accepted(q) /\ rows' = Served(q)
    BY <1>1 DEF Done
  <2>2. SaveInv /\ TypedRows(rows, fresh) /\ fresh \in Nat \ {0} /\ RowsInv /\ OriginBound
        /\ q.id < fresh
    BY DEF TypeInv, RowsInv, StoreInv, BoundInv
  <2>3. ServedAs(q, rows')
    BY <2>1, <2>2, ServedTyped
  <2>4. TypedRows(rows', fresh')
    BY <1>1, <2>2, DoneTyped DEF RowsInv
  <2> QED
    BY <2>3, <2>4, ServedKeeps
<1>2. CASE NotDone
  BY <1>2 DEF NotDone, Keeps
<1> QED
  BY <1>1, <1>2

\* The end of a step that answers a request, or fails it.
LEMMA RestKeeps ==
    ASSUME TypeInv, Keeps, Unmoved, flight.busy, RowsKeep(rows'),
           AtHome(tracks'), Whole(tracks'),
           InitialIds \intersect IdsOf(tracks') = InitialIds \intersect IdsOf(tracks),
           \/ flight' = Grounded /\ snapshot' \in {snapshot, flight.next}
           \/ /\ flight'.todo \subseteq flight.todo /\ flight'.moves = flight.moves
              /\ flight'.next = flight.next /\ snapshot' = snapshot
    PROVE  Keeps'
<1>1. UNCHANGED <<past, future, removed, rendered>>
  BY DEF Unmoved
<1>2. Kept' = Kept /\ Created' = Created /\ Kept \subseteq InitialIds
  BY <1>1 DEF Kept, Created
<1>3. FlightKeeps
  BY DEF Keeps
<1>4. /\ AtHome(snapshot'.tracks)
      /\ InitialIds \intersect IdsOf(tracks') \subseteq IdsOf(snapshot'.tracks)
      /\ Kept \intersect IdsOf(snapshot'.tracks) \subseteq IdsOf(tracks')
  <2>1. snapshot' \in {snapshot, flight.next}
    OBVIOUS
  <2> QED
    BY <1>2, <1>3, <2>1 DEF Keeps, FlightKeeps
<1>5. RowsKeep(rows)' /\ Whole(tracks)'
      /\ (\A page \in rendered : AtHome(page.tracks) /\ Whole(page.tracks))'
  BY <1>1, <1>2 DEF RowsKeep, Whole, Keeps
<1>6. \A c \in Kept' \intersect FirstClips : Home(c) \in Kept'
  BY <1>2 DEF Keeps
<1>7. Created' \intersect InitialIds = {}
  BY <1>2 DEF Keeps
<1>8. CASE flight' = Grounded
  <2>1. AtHome(flight'.next.tracks) /\ ~flight'.busy
    BY <1>8, NothingAtHome DEF Grounded
  <2> QED
    BY <1>2, <1>4, <1>5, <1>6, <1>7, <2>1 DEF Keeps
<1>9. CASE /\ flight'.todo \subseteq flight.todo /\ flight'.moves = flight.moves
           /\ flight'.next = flight.next
  <2>1. FlightKeeps'
    <3>1. /\ InitialIds \cap IdsOf(tracks') \subseteq IdsOf(flight.next.tracks)
          /\ Kept \cap IdsOf(flight.next.tracks) \subseteq IdsOf(tracks')
      BY <1>2, <1>3 DEF FlightKeeps
    <3> QED
      BY <1>2, <1>3, <1>9, <3>1 DEF FlightKeeps
  <2>2. AtHome(flight'.next.tracks)
    BY <1>9 DEF Keeps
  <2> QED
    BY <1>2, <1>4, <1>5, <1>6, <1>7, <2>1, <2>2 DEF Keeps
<1> QED
  BY <1>8, <1>9

LEMMA ContinuesKeeps ==
    ASSUME SaveInv, NEW q \in flight.todo, Continues(q)
    PROVE  \/ flight' = Grounded /\ snapshot' = flight.next
           \/ /\ flight'.todo \subseteq flight.todo /\ flight'.moves = flight.moves
              /\ flight'.next = flight.next /\ snapshot' = snapshot
BY DEF Continues, Saved, SaveInv, Flight

LEMMA AnswersKeep ==
    ASSUME TypeInv, BoundInv, Keeps, Answered \/ AnsweredWithError \/ Lost
    PROVE  Keeps'
<1> USE DEF TypeInv
<1>1. PICK q \in flight.todo :
             /\ Done(q) \/ NotDone
             /\ \/ Fails
                \/ Continues(q) /\ \E id \in {fresh, Undefined} : tracks' = Rewritten(q, id)
  BY DEF Answered, AnsweredWithError, Lost, InTurn, Refused
<1>2. Unmoved /\ flight.busy
  BY DEF Answered, AnsweredWithError, Lost, Faulty
<1>3. RowsKeep(rows')
  BY <1>1, <1>2, DoneKeeps
<1>4. CASE Fails
  <2>1. flight' = Grounded /\ snapshot' = snapshot /\ tracks' = tracks
    BY <1>4 DEF Fails
  <2>2. AtHome(tracks) /\ Whole(tracks) /\ Whole(tracks')
    BY <2>1 DEF Keeps
  <2> QED
    BY <1>2, <1>3, <2>1, <2>2, RestKeeps
<1>5. ASSUME Continues(q), NEW id \in {fresh, Undefined}, tracks' = Rewritten(q, id)
      PROVE  Keeps'
  <2>1. id \in Nat /\ id \notin InitialIds
    BY Firsts DEF StoreInv, Undefined
  <2>2. RenamedAs(tracks', tracks, q, id)
    BY <1>5, <2>1, RewrittenRenames DEF StoreInv
  <2>3. /\ AtHome(tracks') /\ Whole(tracks')
        /\ InitialIds \intersect IdsOf(tracks') = InitialIds \intersect IdsOf(tracks)
    BY <1>2, <2>1, <2>2, RenamedKeeps
  <2>4. \/ flight' = Grounded /\ snapshot' = flight.next
        \/ /\ flight'.todo \subseteq flight.todo /\ flight'.moves = flight.moves
           /\ flight'.next = flight.next /\ snapshot' = snapshot
    BY <1>5, ContinuesKeeps
  <2> QED
    BY <1>2, <1>3, <2>3, <2>4, RestKeeps
<1> QED
  BY <1>1, <1>4, <1>5

LEMMA NextKeeps ==
    ASSUME TypeInv, BoundInv, KeptInv, [AutosaveNext]_editorVars
    PROVE  KeptInv'
<1> SUFFICES ASSUME ~crossed' PROVE Keeps'
  BY DEF KeptInv
<1>1. ~crossed /\ (Open => ~flight.busy)
  <2>1. CASE Open
    <3>1. crossed' = (crossed \/ flight.busy)
      BY <2>1 DEF Open
    <3> QED
      BY <3>1
  <2>2. CASE ~Open
    <3>1. CASE UserEdits \/ SaveNow \/ Leave \/ Flush \/ UNCHANGED editorVars
      BY <2>2, <3>1 DEF UserEdits, SaveNow, Leave, Flush, editorVars, saveVars
    <3>2. CASE Answered \/ AnsweredWithError \/ Lost
      BY <2>2, <3>2 DEF Answered, AnsweredWithError, Lost, Faulty, Unmoved
    <3>3. ASSUME NEW p \in Projects, Load(p) PROVE ~crossed /\ ~Open
      BY <2>2, <3>3 DEF Load
    <3> QED
      BY <2>2, <3>1, <3>2, <3>3 DEF AutosaveNext
  <2> QED
    BY <2>1, <2>2
<1>2. Keeps
  BY <1>1 DEF KeptInv
<1>3. CASE UNCHANGED editorVars \/ SaveNow \/ Leave
  BY <1>2, <1>3, SameKeeps DEF SaveNow, Leave, editorVars, storeVars, netVars, saveVars
<1> QED
  BY <1>1, <1>2, <1>3, UserEditsKeep, OpenKeeps, LoadKeeps, FlushKeeps, AnswersKeep DEF AutosaveNext

LEMMA AutosaveKeeps == AutosaveSpec => [](TypeInv /\ BoundInv /\ KeptInv)
<1>1. AutosaveInit => KeptInv
  BY InitKeeps DEF AutosaveInit
<1>2. TypeInv /\ BoundInv /\ KeptInv /\ [AutosaveNext]_editorVars => KeptInv'
  BY NextKeeps
<1> QED
  BY <1>1, <1>2, AutosaveTyped, PTL DEF AutosaveSpec

\* Whatever is refused, lost, repeated or renamed, and whichever pages are left
\* and opened, a row a project began with is gone only when the user took its
\* track or clip out of a timeline, or when a page was once opened during a flush
\* (timeline-sync.ts, diffTracks, markInitialSnapshot and the id rewriting).
THEOREM AutosaveDeletesNothingKept == AutosaveSpec => []OnlyTheUserDeletes
<1>1. ASSUME KeptInv PROVE OnlyTheUserDeletes
  <2>1. ASSUME NEW id \in InitialIds, id \notin DOMAIN rows.clips, id \notin DOMAIN rows.tracks,
               id \notin removed, ~crossed
        PROVE  FALSE
    <3>1. id \in Kept
      BY <2>1 DEF Kept
    <3> QED
      BY <1>1, <2>1, <3>1, Firsts DEF KeptInv, Keeps, RowsKeep
  <2> QED
    BY <2>1 DEF OnlyTheUserDeletes
<1> QED
  BY <1>1, AutosaveKeeps, PTL

-----------------------------------------------------------------------------
(* One row per clip, for every step.                                       *)

LEMMA InitOrigin ==
    ASSUME AutosaveInit
    PROVE  OneOrigin
<1>1. /\ tracks = InitialTracks /\ snapshot.tracks = InitialTracks /\ flight = Grounded
      /\ origin = [i \in {} |-> 0]
  BY DEF AutosaveInit, StoreInit
<1>2. past = << >> /\ future = << >>
  BY DEF AutosaveInit, StoreInit
<1>3. Created = {} /\ RowsMade = {} /\ ~flight.busy /\ flight.todo = {}
  BY <1>1, <1>2 DEF Created, Range, RowsMade, Grounded
<1> QED
  BY <1>1, <1>3 DEF OneOrigin, Saving

LEMMA KnownBelow ==
    ASSUME TypeInv, BoundInv
    PROVE  \A x \in Known : x \in Nat /\ x < fresh
<1>1. \A x \in DOMAIN rows.clips : x \in Nat /\ x < fresh
  BY DEF TypeInv, StoreInv, RowsInv, TypedRows
<1>2. ASSUME NEW page \in rendered, NEW x \in ClipIdsOf(page.tracks) PROVE x \in Nat /\ x < fresh
  <2>1. page.tracks \in Seq(Track)
    BY DEF TypeInv, SaveInv, Page
  <2>2. x \in Nat
    BY <2>1, IdsAreNumbers
  <2> QED
    BY <2>2 DEF BoundInv, IdsOf
<1> QED
  BY <1>1, <1>2 DEF Known

\* A clip of the store after an edit was there before, or it is new.
LEMMA EditedClips ==
    ASSUME StoreEdited
    PROVE  ClipIdsOf(tracks') \subseteq ClipIdsOf(tracks) \union Created \union NewIds
<1>1. ASSUME NEW c \in ClipIdsOf(tracks'), c \notin Created \union NewIds
      PROVE  c \in ClipIdsOf(tracks)
  <2>1. PICK k \in DOMAIN tracks' : c \in OwnIds(tracks'[k])
    BY WhoHasWhat
  <2>2. PICK a \in DOMAIN tracks : OwnIds(tracks'[k]) \subseteq OwnIds(tracks[a]) \union (Created \union NewIds)
    BY <2>1 DEF StoreEdited, ComesOf
  <2> QED
    BY <1>1, <2>1, <2>2, WhoHasWhat
<1> QED
  BY <1>1

LEMMA UserEditsOrigin ==
    ASSUME TypeInv, BoundInv, OneOrigin, UserEdits
    PROVE  OneOrigin'
<1>1. /\ Edit /\ UNCHANGED <<snapshot, flight, rendered, rows, origin>>
      /\ removed' = removed \union (TrackIdsOf(tracks) \ TrackIdsOf(tracks'))
                            \union (ClipIdsOf(tracks) \ ClipIdsOf(tracks'))
  BY DEF UserEdits, netVars
<1>2. StoreEdited /\ StoreInv
  BY <1>1, EditDoes DEF TypeInv, BoundInv, IdsOf, Sound
<1>3. /\ ClipIdsOf(tracks') \subseteq ClipIdsOf(tracks) \union Created \union NewIds
      /\ Created' \subseteq Created \union NewIds
      /\ fresh \in Nat /\ fresh' \in Nat /\ fresh <= fresh'
      /\ \A x : x \in NewIds => ~(x < fresh)
  BY <1>2, EditedClips DEF StoreEdited, StoreInv, NewIds
<1>4. /\ \A x \in Known : x \in Nat /\ x < fresh
      /\ \A i \in DOMAIN origin : origin[i] \in Nat /\ origin[i] < fresh
  BY KnownBelow DEF BoundInv, OriginBound
<1>5. removed \subseteq removed' /\ ClipIdsOf(tracks) \ removed' \subseteq ClipIdsOf(tracks')
  BY <1>1
<1>6. RowsMade' = RowsMade /\ Known' = Known /\ \A o : Saving(o)' <=> Saving(o)
  BY <1>1 DEF RowsMade, Known, Saving
<1>7. ASSUME NEW i \in RowsMade, origin[i] \notin removed'
      PROVE  /\ origin[i] \notin Known
             /\ Gone(origin[i])' \/ (origin[i] \in ClipIdsOf(tracks') /\ Saving(origin[i]))
  <2>1. /\ origin[i] \notin Known
        /\ Gone(origin[i]) \/ (origin[i] \in ClipIdsOf(tracks) /\ Saving(origin[i]))
    BY <1>5, <1>7 DEF OneOrigin
  <2>2. CASE Gone(origin[i])
    <3>1. origin[i] \notin ClipIdsOf(tracks') /\ origin[i] \notin Created' /\ origin[i] < fresh'
      BY <1>3, <1>4, <2>2 DEF Gone, RowsMade
    <3> QED
      BY <1>1, <2>1, <3>1 DEF Gone
  <2>3. CASE origin[i] \in ClipIdsOf(tracks) /\ Saving(origin[i])
    BY <1>5, <1>7, <2>1, <2>3
  <2> QED
    BY <2>1, <2>2, <2>3
<1>8. ASSUME NEW x \in Known, x \in ClipIdsOf(tracks'), x \notin removed'
      PROVE  Saving(x)
  <2>1. x \notin Created /\ x \notin NewIds
    BY <1>3, <1>4 DEF OneOrigin
  <2> QED
    BY <1>3, <1>5, <1>8, <2>1 DEF OneOrigin
<1>9. Created' \intersect Known = {}
  BY <1>3, <1>4 DEF OneOrigin
<1>10. flight.busy => ClipIdsOf(flight.next.tracks) \subseteq ClipIdsOf(tracks') \union removed'
  BY <1>5 DEF OneOrigin
<1>11. \A i, j \in RowsMade : origin[i] = origin[j] /\ origin[i] \notin removed' => i = j
  BY <1>5 DEF OneOrigin
<1>12. \A q \in flight.todo : q.op = "clipCreated" /\ q.id \notin removed' =>
          q.id \notin Known /\ \A i \in RowsMade : origin[i] # q.id
  BY <1>5 DEF OneOrigin
<1>13. rows' = rows /\ origin' = origin /\ flight' = flight
  BY <1>1
<1> QED
  BY <1>6, <1>7, <1>8, <1>9, <1>10, <1>11, <1>12, <1>13 DEF OneOrigin

LEMMA SameOrigin ==
    ASSUME OneOrigin,
           UNCHANGED <<tracks, snapshot, flight, rendered, rows, removed, origin, past, future, fresh>>
    PROVE  OneOrigin'
<1>1. /\ RowsMade' = RowsMade /\ Known' = Known /\ Created' = Created /\ \A o : Saving(o)' <=> Saving(o)
      /\ \A o : Gone(o)' <=> Gone(o)
  BY DEF RowsMade, Known, Created, Saving, Gone
<1> QED
  BY <1>1 DEF OneOrigin

LEMMA LoadOrigin ==
    ASSUME TypeInv, OneOrigin, NEW p \in Projects, Load(p), UNCHANGED fresh, rendered' = {PageOf(p)}
    PROVE  OneOrigin'
<1>1. UNCHANGED <<tracks, snapshot, flight, rows, removed, origin, past, future>> /\ rendered = {}
  BY DEF Load
<1>2. TypedRows(rows, fresh) /\ fresh \in Nat /\ Indexed(rows, owner)
  BY DEF TypeInv, RowsInv, StoreInv
<1>3. ClipIdsOf(Loaded(p)) \subseteq DOMAIN rows.clips
  BY <1>2, LoadedIsRows
<1>4. Known' = DOMAIN rows.clips /\ Known = DOMAIN rows.clips
  <2>1. \A page \in rendered' : page.tracks = Loaded(p)
    BY DEF PageOf
  <2>2. UNION {ClipIdsOf(page.tracks) : page \in rendered'} \subseteq DOMAIN rows.clips
    BY <1>3, <2>1
  <2> QED
    BY <1>1, <2>2 DEF Known
<1>5. /\ RowsMade' = RowsMade /\ Created' = Created /\ \A o : Saving(o)' <=> Saving(o)
      /\ \A o : Gone(o)' <=> Gone(o)
  BY <1>1 DEF RowsMade, Created, Saving, Gone
<1> QED
  BY <1>1, <1>4, <1>5 DEF OneOrigin

LEMMA OpenOrigin ==
    ASSUME TypeInv, BoundInv, OneOrigin, Open, ~flight.busy
    PROVE  OneOrigin'
<1>1. PICK page \in rendered : tracks' = page.tracks /\ snapshot'.tracks = page.tracks
  BY DEF Open
<1>2. /\ past' = << >> /\ future' = << >> /\ rendered' = {}
      /\ flight' = flight /\ rows' = rows /\ removed' = removed /\ origin' = origin /\ fresh' = fresh
  BY DEF Open
<1>3. ClipIdsOf(page.tracks) \subseteq Known /\ Known' \subseteq Known
  BY <1>2 DEF Known
<1>4. flight.todo = {}
  BY DEF TypeInv, SaveInv, Grounded
<1>5. Created' = {} /\ RowsMade' = RowsMade
  BY <1>2 DEF Created, Range, RowsMade
<1>6. \A x \in ClipIdsOf(page.tracks) : Saving(x)'
  BY <1>1, <1>2 DEF Saving
<1>7. ASSUME NEW i \in RowsMade, origin[i] \notin removed
      PROVE  origin[i] \notin Known /\ Gone(origin[i])'
  <2>1. origin[i] \notin Known /\ origin[i] < fresh
    BY <1>7 DEF OneOrigin, BoundInv, OriginBound, RowsMade
  <2> QED
    BY <1>1, <1>2, <1>3, <1>5, <2>1 DEF Gone
<1>8. \A i, j \in RowsMade : origin[i] = origin[j] /\ origin[i] \notin removed => i = j
  BY DEF OneOrigin
<1> QED
  BY <1>1, <1>2, <1>3, <1>4, <1>5, <1>6, <1>7, <1>8 DEF OneOrigin

LEMMA FlushOrigin ==
    ASSUME TypeInv, BoundInv, OneOrigin, Flush
    PROVE  OneOrigin'
<1> DEFINE next == [title |-> title, tracks |-> tracks]
           begun == [busy |-> TRUE, project |-> project, todo |-> Diff(snapshot, next),
                     next |-> next, moves |-> Moves(snapshot, next)]
<1>1. UNCHANGED <<tracks, past, future, fresh, rendered, rows, removed, origin>> /\ ~flight.busy
  BY DEF Flush, netVars
<1>2. next \in Timeline /\ snapshot \in Timeline /\ next.tracks = tracks
  BY DEF TypeInv, StoreInv, SaveInv, Timeline
<1>3. \/ flight' = Grounded /\ snapshot' = next
      \/ /\ flight' = begun
         /\ snapshot' = snapshot
      \/ flight' = flight /\ snapshot' = snapshot
  BY DEF Flush, Saved
<1> HIDE DEF next
<1>4. CASE flight' = flight /\ snapshot' = snapshot
  BY <1>1, <1>4, SameOrigin
<1>5. CASE \/ flight' = Grounded /\ snapshot' = next
           \/ /\ flight' = begun
              /\ snapshot' = snapshot
  <2>1. \A o : Saving(o)' <=> o \in ClipIdsOf(tracks)
    BY <1>2, <1>5 DEF Saving, Grounded
  <2>2. Created' = Created /\ RowsMade' = RowsMade /\ Known' = Known /\ \A o : Gone(o)' <=> Gone(o)
    BY <1>1 DEF Created, RowsMade, Known, Gone
  <2>3. ASSUME NEW q \in flight'.todo, q.op = "clipCreated", q.id \notin removed
        PROVE  q.id \notin Known /\ \A i \in RowsMade : origin[i] # q.id
    <3>1. q \in Diff(snapshot, next)
      BY <1>5 DEF Grounded
    <3>2. q.id \in ClipIdsOf(tracks) /\ q.id \notin ClipIdsOf(snapshot.tracks)
      BY <1>2, <2>3, <3>1, DiffIsNeeded DEF Needed
    <3>3. ~Saving(q.id)
      BY <1>1, <3>2 DEF Saving
    <3>4. q.id \notin Known
      BY <2>3, <3>2, <3>3 DEF OneOrigin
    <3>5. ASSUME NEW i \in RowsMade, origin[i] = q.id PROVE FALSE
      BY <2>3, <3>2, <3>3, <3>5 DEF OneOrigin, Gone
    <3> QED
      BY <3>4, <3>5
  <2>4. flight'.busy => ClipIdsOf(flight'.next.tracks) \subseteq ClipIdsOf(tracks)
    BY <1>2, <1>5 DEF Grounded
  <2>5. \A i \in RowsMade : origin[i] \notin removed =>
            /\ origin[i] \notin Known
            /\ Gone(origin[i]) \/ origin[i] \in ClipIdsOf(tracks)
    BY DEF OneOrigin
  <2>6. /\ \A i, j \in RowsMade : origin[i] = origin[j] /\ origin[i] \notin removed => i = j
        /\ Created \intersect Known = {}
    BY DEF OneOrigin
  <2> QED
    BY <1>1, <2>1, <2>2, <2>3, <2>4, <2>5, <2>6 DEF OneOrigin
<1> QED
  BY <1>3, <1>4, <1>5

\* What a request does to the ids of rows, and to what is known of them.
LEMMA DoneMakes ==
    ASSUME TypeInv, BoundInv, NEW q \in flight.todo, Done(q)
    PROVE  /\ q.op = "clipCreated" =>
                /\ DOMAIN rows'.clips \subseteq DOMAIN rows.clips \union {fresh}
                /\ RowsMade' \subseteq RowsMade \union {fresh} /\ origin'[fresh] = q.id
           /\ q.op # "clipCreated" =>
                DOMAIN rows'.clips \subseteq DOMAIN rows.clips /\ RowsMade' \subseteq RowsMade
           /\ \A i \in RowsMade : origin'[i] = origin[i]
<1>1. SaveInv /\ TypedRows(rows, fresh) /\ fresh \in Nat \ {0} /\ Accepted(q) /\ rows' = Served(q)
  BY DEF TypeInv, StoreInv, RowsInv, Done
<1>2. ServedAs(q, rows')
  BY <1>1, ServedTyped
<1>3. q.op \in Range(Operations)
  BY <1>1, OperationsAre DEF SaveInv, Flight
<1>4. DOMAIN rows'.clips \subseteq DOMAIN rows.clips
      \/ (q.op = "clipCreated" /\ DOMAIN rows'.clips \subseteq DOMAIN rows.clips \union {fresh})
  BY <1>2, <1>3, OperationsAre DEF ServedAs
<1>5. fresh \notin DOMAIN origin /\ fresh \notin DOMAIN rows.clips
  <2>1. \A i \in DOMAIN origin : i \in Nat /\ i < fresh
    BY DEF BoundInv, OriginBound
  <2>2. \A c \in DOMAIN rows.clips : c \in Nat /\ c < fresh
    BY <1>1 DEF TypedRows
  <2> QED
    BY <1>1, <2>1, <2>2
<1>6. CASE Creates(q)
  <2>1. origin' = With(origin, fresh, q.id)
    BY <1>6 DEF Done
  <2>2. /\ DOMAIN origin' = DOMAIN origin \union {fresh} /\ origin'[fresh] = q.id
        /\ \A i \in DOMAIN origin : origin'[i] = origin[i]
    BY <1>5, <2>1 DEF With
  <2> QED
    BY <1>4, <1>5, <2>2 DEF RowsMade
<1>7. CASE ~Creates(q)
  <2>1. origin' = origin /\ q.op # "clipCreated"
    BY <1>7 DEF Done, Creates
  <2> QED
    BY <1>4, <2>1 DEF RowsMade
<1> QED
  BY <1>6, <1>7

LEMMA AnsweredOrigin ==
    ASSUME TypeInv, BoundInv, OneOrigin, Answered
    PROVE  OneOrigin'
<1> USE DEF TypeInv
<1>1. PICK q \in flight.todo :
             /\ Done(q) \/ NotDone
             /\ Continues(q) /\ \E id \in {fresh, Undefined} : tracks' = Rewritten(q, id)
  BY DEF Answered, InTurn, Refused
<1>2. Unmoved /\ flight.busy
  BY DEF Answered
<1>3. Created' = Created /\ removed' = removed
  BY <1>2 DEF Unmoved, Created
<1>4. ClipIdsOf(tracks') = ClipIdsOf(tracks)
  <2>1. PICK id \in {fresh, Undefined} : tracks' = Rewritten(q, id)
    BY <1>1
  <2>2. id \in Nat /\ tracks \in Seq(Track)
    BY DEF StoreInv, Undefined
  <2>3. RenamedAs(tracks', tracks, q, id)
    BY <2>1, <2>2, RewrittenRenames
  <2> QED
    BY <2>2, <2>3, RenamedIds
<1>5. fresh \in Nat /\ fresh' \in Nat /\ fresh <= fresh'
  BY <1>1, DoneTyped, NotDoneTyped DEF BoundInv, StoreInv
<1>6. \/ flight' = Grounded /\ snapshot' = flight.next
      \/ /\ flight'.todo = flight.todo \ {q} /\ flight'.next = flight.next /\ flight'.busy
         /\ snapshot' = snapshot
  BY <1>1, <1>2 DEF Continues, Saved, SaveInv, Flight
<1>7. /\ \A o : Saving(o)' <=> o \in ClipIdsOf(flight.next.tracks)
      /\ \A o : Saving(o) <=> o \in ClipIdsOf(flight.next.tracks)
      /\ flight'.todo \subseteq flight.todo \ {q}
      /\ flight'.busy => flight'.next = flight.next
  BY <1>2, <1>6 DEF Saving, Grounded
<1>8. ClipIdsOf(flight.next.tracks) \subseteq ClipIdsOf(tracks) \union removed
  BY <1>2 DEF OneOrigin
<1> DEFINE Made == q.op = "clipCreated" /\ Done(q)
<1>9. /\ Made => /\ Known' \subseteq Known \union {fresh}
                 /\ RowsMade' \subseteq RowsMade \union {fresh} /\ origin'[fresh] = q.id
      /\ ~Made => Known' \subseteq Known /\ RowsMade' \subseteq RowsMade
      /\ \A i \in RowsMade : origin'[i] = origin[i]
  <2>0. rendered' = rendered
    BY <1>2 DEF Unmoved
  <2>1. CASE Done(q)
    BY <2>0, <2>1, DoneMakes DEF Known
  <2>2. CASE NotDone /\ ~Done(q)
    BY <2>0, <2>2 DEF NotDone, RowsMade, Known
  <2> QED
    BY <1>1, <2>1, <2>2
<1> HIDE DEF Made
<1>10. /\ \A x \in Known : x # fresh
       /\ \A i \in RowsMade : i # fresh /\ origin[i] # fresh /\ origin[i] < fresh
       /\ fresh \notin ClipIdsOf(tracks) /\ fresh \notin Created
       /\ \A r \in flight.todo : r.id # fresh
  <2>1. \A x \in Known : x \in Nat /\ x < fresh
    BY KnownBelow
  <2>2. \A i \in DOMAIN origin : i \in Nat /\ i < fresh /\ origin[i] \in Nat /\ origin[i] < fresh
    BY DEF BoundInv, OriginBound
  <2>3. \A x \in ClipIdsOf(tracks) : x < fresh
    BY DEF BoundInv, IdsOf
  <2>4. \A x \in Created : x < fresh
    BY DEF BoundInv
  <2>5. \A r \in flight.todo : r.id < fresh
    BY DEF BoundInv
  <2>6. ~(fresh < fresh)
    BY <1>5
  <2> QED
    BY <2>1, <2>2, <2>3, <2>4, <2>5, <2>6 DEF RowsMade
<1>11. Made => /\ q.id \in ClipIdsOf(flight.next.tracks) /\ q.op = "clipCreated" /\ q.at = 0
               /\ q.id \notin removed => /\ q.id \notin Known
                                         /\ \A i \in RowsMade : origin[i] # q.id
                                         /\ q.id \in ClipIdsOf(tracks)
  BY <1>8 DEF Made, OneOrigin, SaveInv, Sendable
<1>12. ASSUME NEW i \in RowsMade', NEW j \in RowsMade', origin'[i] = origin'[j],
              origin'[i] \notin removed
       PROVE  i = j
  <2>1. CASE i \in RowsMade /\ j \in RowsMade
    BY <1>9, <1>12, <2>1 DEF OneOrigin
  <2>2. CASE Made /\ i = fresh /\ j \in RowsMade
    BY <1>9, <1>11, <1>12, <2>2
  <2>3. CASE Made /\ j = fresh /\ i \in RowsMade
    BY <1>9, <1>11, <1>12, <2>3
  <2> QED
    BY <1>9, <2>1, <2>2, <2>3
<1>13. ASSUME NEW i \in RowsMade', origin'[i] \notin removed
       PROVE  /\ origin'[i] \notin Known'
              /\ \/ /\ origin'[i] \notin ClipIdsOf(tracks') /\ origin'[i] \notin Created'
                    /\ origin'[i] < fresh'
                 \/ origin'[i] \in ClipIdsOf(tracks') /\ origin'[i] \in ClipIdsOf(flight.next.tracks)
  <2>1. CASE i \in RowsMade
    <3> DEFINE o == origin[i]
    <3>1. origin'[i] = o /\ o # fresh /\ o < fresh /\ o \notin removed
      BY <1>9, <1>10, <1>13, <2>1
    <3>2. /\ o \notin Known
          /\ Gone(o) \/ (o \in ClipIdsOf(tracks) /\ Saving(o))
      BY <2>1, <3>1 DEF OneOrigin
    <3>3. o < fresh'
      BY <1>5, <2>1, <3>1 DEF BoundInv, OriginBound, RowsMade
    <3> HIDE DEF o
    <3>4. o \notin Known'
      BY <1>9, <3>1, <3>2
    <3>5. Gone(o) => o \notin ClipIdsOf(tracks') /\ o \notin Created' /\ o < fresh'
      BY <1>3, <1>4, <3>3 DEF Gone
    <3> QED
      BY <1>4, <1>7, <3>1, <3>2, <3>4, <3>5
  <2>2. CASE Made /\ i = fresh
    <3>1. origin'[i] = q.id /\ q.id # fresh
      BY <1>9, <1>10, <2>2
    <3> QED
      BY <1>4, <1>7, <1>9, <1>11, <1>13, <2>2, <3>1
  <2> QED
    BY <1>9, <2>1, <2>2
<1>14. ASSUME NEW r \in flight'.todo, r.op = "clipCreated", r.id \notin removed
       PROVE  r.id \notin Known' /\ \A i \in RowsMade' : origin'[i] # r.id
  <2>1. r \in flight.todo /\ r # q
    BY <1>7
  <2>2. r.id \notin Known /\ \A i \in RowsMade : origin[i] # r.id
    BY <1>14, <2>1 DEF OneOrigin
  <2>3. Made => r.id # q.id
    <3>1. r \in Request /\ q \in Request /\ r.at = 0
      BY <1>14, <2>1 DEF SaveInv, Flight, Sendable
    <3> QED
      BY <1>11, <1>14, <2>1, <3>1 DEF Request
  <2> QED
    BY <1>9, <1>10, <2>1, <2>2, <2>3
<1>15. ASSUME NEW x \in Known', x \in ClipIdsOf(tracks'), x \notin removed
       PROVE  Saving(x)'
  <2>1. x \in Known
    BY <1>4, <1>9, <1>10, <1>15
  <2> QED
    BY <1>4, <1>7, <1>15, <2>1 DEF OneOrigin
<1>16. Created' \intersect Known' = {}
  BY <1>3, <1>9, <1>10 DEF OneOrigin
<1>17. flight'.busy => ClipIdsOf(flight'.next.tracks) \subseteq ClipIdsOf(tracks') \union removed'
  BY <1>3, <1>4, <1>7, <1>8
<1>18. \A i \in RowsMade' : origin'[i] \notin removed' =>
          /\ origin'[i] \notin Known'
          /\ Gone(origin[i])' \/ (origin'[i] \in ClipIdsOf(tracks') /\ Saving(origin[i])')
  BY <1>3, <1>6, <1>13 DEF Gone, Saving, Grounded
<1> QED
  BY <1>3, <1>12, <1>14, <1>15, <1>16, <1>17, <1>18 DEF OneOrigin

LEMMA NextOrigin ==
    ASSUME TypeInv, BoundInv, OriginInv, [AutosaveNext]_editorVars
    PROVE  OriginInv'
<1>1. SUFFICES ASSUME faults' = 0, ~crossed' PROVE OneOrigin'
  BY DEF OriginInv
<1>2. CASE UNCHANGED editorVars \/ SaveNow \/ Leave
  <2>1. UNCHANGED <<faults, crossed>> /\ OneOrigin
    BY <1>1, <1>2 DEF OriginInv, SaveNow, Leave, editorVars, netVars, saveVars
  <2> QED
    BY <1>2, <2>1, SameOrigin DEF SaveNow, Leave, editorVars, storeVars, netVars, saveVars
<1>3. CASE UserEdits
  <2>1. OneOrigin
    BY <1>1, <1>3 DEF OriginInv, UserEdits, netVars
  <2> QED
    BY <1>3, <2>1, UserEditsOrigin
<1>4. CASE Open
  <2>1. OneOrigin /\ ~flight.busy
    BY <1>1, <1>4 DEF OriginInv, Open
  <2> QED
    BY <1>4, <2>1, OpenOrigin
<1>8. ASSUME NEW p \in Projects, Load(p) PROVE OneOrigin'
  <2>1. faults = 0 \/ faults' = faults + 1
    BY <1>1, <1>8 DEF Load
  <2>2. faults = 0
    BY <1>1, <2>1 DEF TypeInv, SaveInv
  <2>3. OneOrigin /\ UNCHANGED fresh /\ rendered' = {PageOf(p)}
    BY <1>1, <1>8, <2>2 DEF OriginInv, Load
  <2> QED
    BY <1>8, <2>3, LoadOrigin
<1>5. CASE Flush
  <2>1. OneOrigin
    BY <1>1, <1>5 DEF OriginInv, Flush, netVars
  <2> QED
    BY <1>5, <2>1, FlushOrigin
<1>6. CASE Answered
  <2>1. OneOrigin
    BY <1>1, <1>6 DEF OriginInv, Answered, Unmoved
  <2> QED
    BY <1>6, <2>1, AnsweredOrigin
<1>7. CASE AnsweredWithError \/ Lost
  BY <1>1, <1>7 DEF AnsweredWithError, Lost, Faulty, TypeInv, SaveInv
<1> QED
  BY <1>2, <1>3, <1>4, <1>5, <1>6, <1>7, <1>8 DEF AutosaveNext

\* As long as no request fails, the page is not opened again during a flush
\* and nothing is put back by undo, a clip of the store has one row, though the
\* store never learns the id of the row (timeline-sync.ts, the clips that are
\* added).
THEOREM AutosaveOneRowPerClip == AutosaveSpec => []OneRowPerClip
<1>1. AutosaveInit => OriginInv
  BY InitOrigin DEF OriginInv
<1>2. TypeInv /\ BoundInv /\ OriginInv /\ [AutosaveNext]_editorVars => OriginInv'
  BY NextOrigin
<1>3. ASSUME TypeInv, OriginInv PROVE OneRowPerClip
  BY <1>3 DEF OneRowPerClip, OriginInv, OneOrigin, RowsMade, TypeInv, SaveInv
<1> QED
  BY <1>1, <1>2, <1>3, AutosaveTyped, PTL DEF AutosaveSpec
-----------------------------------------------------------------------------
(* What is stored, for every step.                                         *)

LEMMA DiffersIn ==
    ASSUME NEW s, NEW n
    PROVE  /\ Differing(s, n) = {a \in Parts : PartOf(s, a) # PartOf(n, a)}
           /\ \A a \in Parts : a \notin Differing(s, n) => PartOf(s, a) = PartOf(n, a)
BY DEF Differing

\* What a project began with: the ids are its tracks' and their clips'.
LEMMA OfProject ==
    ASSUME NEW p
    PROVE  /\ PartsOf(p) \subseteq Parts
           /\ \A id \in InitialIdsOf(p) :
                 /\ id \in InitialIds
                 /\ id \in FirstTracks => ProjectOf[id] = p
                 /\ id \in FirstClips => Home(id) \in FirstTracks /\ ProjectOf[Home(id)] = p
<1>1. ASSUME NEW id \in InitialIdsOf(p)
      PROVE  /\ id \in InitialIds
             /\ id \in FirstTracks => ProjectOf[id] = p
             /\ id \in FirstClips => Home(id) \in FirstTracks /\ ProjectOf[Home(id)] = p
  <2>1. PICK t \in Range(AllTracks) :
               ProjectOf[t.id] = p /\ id \in {t.id} \union {c.id : c \in Range(t.clips)}
    BY DEF InitialIdsOf
  <2>2. PICK k \in DOMAIN AllTracks : AllTracks[k] = t
    BY <2>1 DEF Range
  <2>3. CASE id = t.id
    <3>1. id \in FirstTracks
      BY <2>2, <2>3 DEF FirstTracks, TrackIdsOf
    <3> QED
      BY <2>1, <2>3, <3>1, Firsts
  <2>4. CASE id \in {c.id : c \in Range(t.clips)}
    <3>1. id \in OwnIds(AllTracks[k])
      BY <2>2, <2>4 DEF OwnIds, Range
    <3>2. id \in ClipIdsOf(AllTracks) /\ Holds(AllTracks, t.id, id)
      BY <2>2, <3>1, WhoHasWhat DEF Holds
    <3>3. id \in FirstClips
      BY <3>2 DEF FirstClips
    <3>4. Home(id) = t.id
      BY <3>2, <3>3, AllAtHome, HomeIs, Firsts
    <3> QED
      BY <2>1, <3>3, <3>4, Firsts
  <2> QED
    BY <2>1, <2>3, <2>4
<1>2. PartsOf(p) \subseteq Parts
  BY <1>1 DEF PartsOf, Parts
<1> QED
  BY <1>1, <1>2

LEMMA PartsAtHome ==
    ASSUME NEW r, NEW t, RowsAtHome(r), NEW a \in Parts
    PROVE  /\ a[2] \in {1, 2}
           /\ a[1] = Undefined \/ a[1] \in FirstTracks \/ a[1] \in FirstClips
           /\ a[1] = Undefined => PartIn(r, t, a) = t
           /\ a[1] \in FirstTracks =>
                /\ a[1] # Undefined /\ a[1] \in InitialIds /\ a[1] \notin DOMAIN r.clips
                /\ a[1] \in DOMAIN r.tracks =>
                      PartIn(r, t, a) = <<r.tracks[a[1]]>> /\ r.tracks[a[1]].kind = FirstKind(a[1])
                /\ a[1] \notin DOMAIN r.tracks => PartIn(r, t, a) = << >>
           /\ a[1] \in FirstClips =>
                /\ a[1] # Undefined /\ a[1] \in InitialIds /\ a[1] \notin DOMAIN r.tracks
                /\ a[1] \in DOMAIN r.clips =>
                      /\ PartIn(r, t, a) = IF a[2] = 1 THEN Body(r.clips[a[1]])
                                           ELSE <<r.clips[a[1]].start>>
                      /\ r.clips[a[1]].track = Home(a[1])
                /\ a[1] \notin DOMAIN r.clips => PartIn(r, t, a) = << >>
<1>1. a[1] \in InitialIds \union {Undefined} /\ a[2] \in {1, 2}
  BY DEF Parts
<1>2. a[1] = Undefined \/ a[1] \in FirstTracks \/ a[1] \in FirstClips
  BY <1>1, Firsts
<1>3. a[1] = Undefined => PartIn(r, t, a) = t
  BY DEF PartIn
<1>4. ASSUME a[1] \in FirstTracks
      PROVE  a[1] # Undefined /\ a[1] \in InitialIds /\ a[1] \notin DOMAIN r.clips
             /\ (a[1] \in DOMAIN r.tracks => r.tracks[a[1]].kind = FirstKind(a[1]))
  BY <1>4, Firsts DEF RowsAtHome, Undefined
<1>5. ASSUME a[1] \in FirstClips
      PROVE  a[1] # Undefined /\ a[1] \in InitialIds /\ a[1] \notin DOMAIN r.tracks
             /\ (a[1] \in DOMAIN r.clips => r.clips[a[1]].track = Home(a[1]))
  BY <1>5, Firsts DEF RowsAtHome, Undefined
<1> QED
  BY <1>1, <1>2, <1>3, <1>4, <1>5 DEF PartIn

\* What differs between two snapshots has its request.
LEMMA DiffCovers ==
    ASSUME NEW prev \in Timeline, NEW next \in Timeline,
           AtHome(prev.tracks), AtHome(next.tracks),
           NEW a \in Differing(prev, next)
    PROVE  \E q \in Diff(prev, next) : Regards(q, a, Moves(prev, next))
<1> DEFINE P == RowsOf(prev.tracks)
           N == RowsOf(next.tracks)
           id == a[1]
<1>1. prev.tracks \in Seq(Track) /\ next.tracks \in Seq(Track)
  BY DEF Timeline
<1>2. a \in Parts /\ PartOf(prev, a) # PartOf(next, a)
  BY DiffersIn
<1>3. /\ DOMAIN P.tracks = TrackIdsOf(prev.tracks) /\ DOMAIN P.clips = ClipIdsOf(prev.tracks)
      /\ DOMAIN N.tracks = TrackIdsOf(next.tracks) /\ DOMAIN N.clips = ClipIdsOf(next.tracks)
      /\ \A t \in TrackIdsOf(next.tracks) :
            \E k \in DOMAIN next.tracks : next.tracks[k].id = t /\ N.tracks[t] = Attributes(next.tracks[k])
  BY <1>1, RowsTyped
<1>4. RowsAtHome(P) /\ RowsAtHome(N)
  BY <1>1, RowsOfAtHome
<1>5. PartOf(prev, a) = PartIn(P, prev.title, a) /\ PartOf(next, a) = PartIn(N, next.title, a)
  BY DEF PartOf
<1>6. TrackIdsOf(next.tracks) \subseteq Nat /\ ClipIdsOf(next.tracks) \subseteq Nat
      /\ TrackIdsOf(prev.tracks) \subseteq Nat /\ ClipIdsOf(prev.tracks) \subseteq Nat
      /\ Undefined \in Nat
  BY <1>1, IdsAreNumbers DEF Undefined
<1>7. CASE id = Undefined
  <2> DEFINE q == [op |-> "title", id |-> Undefined, at |-> 0]
  <2>1. prev.title # next.title
    BY <1>2, <1>4, <1>5, <1>7, PartsAtHome
  <2>2. q \in Diff(prev, next)
    BY <2>1 DEF Diff, Requests
  <2>3. Regards(q, a, Moves(prev, next))
    BY <1>7 DEF Regards
  <2> QED
    BY <2>2, <2>3
<1>8. CASE id \in FirstTracks
  <2>1. id # Undefined
    BY <1>2, <1>4, <1>8, PartsAtHome
  <2>2. CASE id \in DOMAIN P.tracks /\ id \in DOMAIN N.tracks
    <3>1. P.tracks[id] # N.tracks[id]
      BY <1>2, <1>4, <1>5, <1>8, <2>2, PartsAtHome
    <3>2. PICK k \in DOMAIN next.tracks : next.tracks[k].id = id /\ N.tracks[id] = Attributes(next.tracks[k])
      BY <1>3, <2>2
    <3> DEFINE q == [op |-> "trackUpdated", id |-> next.tracks[k].id, at |-> k]
    <3>3. q \in Diff(prev, next)
      BY <2>2, <3>1, <3>2 DEF Diff, TrackRequests
    <3>4. Regards(q, a, Moves(prev, next))
      BY <2>1, <3>2 DEF Regards
    <3> QED
      BY <3>3, <3>4
  <2>3. CASE id \notin DOMAIN P.tracks /\ id \in DOMAIN N.tracks
    <3>1. PICK k \in DOMAIN next.tracks : next.tracks[k].id = id
      BY <1>3, <2>3
    <3> DEFINE q == [op |-> "trackAdded", id |-> next.tracks[k].id, at |-> k]
    <3>2. q \in Diff(prev, next)
      BY <2>3, <3>1 DEF Diff, TrackRequests
    <3>3. Regards(q, a, Moves(prev, next))
      BY <2>1, <3>1 DEF Regards
    <3> QED
      BY <3>2, <3>3
  <2>4. CASE id \in DOMAIN P.tracks /\ id \notin DOMAIN N.tracks
    <3>1. PICK k \in DOMAIN prev.tracks : prev.tracks[k].id = id
      BY <1>3, <2>4 DEF TrackIdsOf
    <3> DEFINE q == [op |-> "trackRemoved", id |-> prev.tracks[k].id, at |-> k]
    <3>2. q \in Diff(prev, next)
      BY <2>4, <3>1 DEF Diff, TrackRequests
    <3>3. Regards(q, a, Moves(prev, next))
      BY <2>1, <3>1 DEF Regards
    <3> QED
      BY <3>2, <3>3
  <2>5. CASE id \notin DOMAIN P.tracks /\ id \notin DOMAIN N.tracks
    BY <1>2, <1>4, <1>5, <1>8, <2>5, PartsAtHome
  <2> QED
    BY <2>2, <2>3, <2>4, <2>5
<1>9. CASE id \in FirstClips
  <2>1. id # Undefined
    BY <1>2, <1>4, <1>9, PartsAtHome
  <2>2. CASE id \in DOMAIN P.clips /\ id \in DOMAIN N.clips
    <3>1. CASE a[2] = 1
      <4> DEFINE q == [op |-> "clipUpdated", id |-> id, at |-> 0]
      <4>1. Body(P.clips[id]) # Body(N.clips[id])
        BY <1>2, <1>4, <1>5, <1>9, <2>2, <3>1, PartsAtHome
      <4>2. q \in Diff(prev, next)
        BY <2>2, <4>1 DEF Diff, Requests
      <4>3. Regards(q, a, Moves(prev, next))
        BY <2>1, <3>1 DEF Regards
      <4> QED
        BY <4>2, <4>3
    <3>2. CASE a[2] = 2
      <4> DEFINE q == [op |-> "reorder", id |-> Undefined, at |-> 0]
      <4>1. P.clips[id].start # N.clips[id].start
        BY <1>2, <1>4, <1>5, <1>9, <2>2, <3>2, PartsAtHome
      <4>2. \E u \in Moves(prev, next) : u.id = id
        BY <1>3, <2>2, <4>1, MovesAreMoves
      <4>3. q \in Diff(prev, next)
        BY <4>2 DEF Diff, Requests
      <4>4. Regards(q, a, Moves(prev, next))
        BY <2>1, <3>2, <4>2 DEF Regards
      <4> QED
        BY <4>3, <4>4
    <3> QED
      BY <1>2, <1>4, <3>1, <3>2, PartsAtHome
  <2>3. CASE id \notin DOMAIN P.clips /\ id \in DOMAIN N.clips
    <3> DEFINE q == [op |-> "clipCreated", id |-> id, at |-> 0]
    <3>1. q \in Diff(prev, next)
      BY <2>3 DEF Diff, Requests
    <3>2. Regards(q, a, Moves(prev, next))
      BY <2>1 DEF Regards
    <3> QED
      BY <3>1, <3>2
  <2>4. CASE id \in DOMAIN P.clips /\ id \notin DOMAIN N.clips
    <3> DEFINE q == [op |-> "clipRemoved", id |-> id, at |-> 0]
    <3>1. q \in Diff(prev, next)
      BY <2>4 DEF Diff, Requests
    <3>2. Regards(q, a, Moves(prev, next))
      BY <2>1 DEF Regards
    <3> QED
      BY <3>1, <3>2
  <2>5. CASE id \notin DOMAIN P.clips /\ id \notin DOMAIN N.clips
    BY <1>2, <1>4, <1>5, <1>9, <2>5, PartsAtHome
  <2> QED
    BY <2>2, <2>3, <2>4, <2>5
<1> QED
  BY <1>2, <1>4, <1>7, <1>8, <1>9, PartsAtHome
\* A new name changes no part of what the page was loaded with.
LEMMA RenamedParts ==
    ASSUME NEW ts \in Seq(Track), NEW us, NEW q, NEW id, RenamedAs(us, ts, q, id),
           AtHome(ts), AtHome(us), id \notin InitialIds,
           q.op = "trackAdded" => q.id \notin InitialIds,
           NEW t, NEW a \in Parts
    PROVE  PartIn(RowsOf(us), t, a) = PartIn(RowsOf(ts), t, a)
<1> DEFINE U == RowsOf(us)
           T == RowsOf(ts)
           x == a[1]
<1>1. /\ us \in Seq(Track) /\ DOMAIN us = DOMAIN ts /\ ClipIdsOf(us) = ClipIdsOf(ts)
      /\ \A k \in DOMAIN ts : OwnIds(us[k]) = OwnIds(ts[k])
  BY RenamedIds
<1>2. DOMAIN ts = 1..Len(ts) /\ Len(ts) \in Nat
  BY TracksTyped
<1>3. /\ DOMAIN U.tracks = TrackIdsOf(us) /\ DOMAIN U.clips = ClipIdsOf(us)
      /\ \A i \in TrackIdsOf(us) : \E k \in DOMAIN us : us[k].id = i /\ U.tracks[i] = Attributes(us[k])
  BY <1>1, RowsTyped
<1>4. /\ DOMAIN T.tracks = TrackIdsOf(ts) /\ DOMAIN T.clips = ClipIdsOf(ts)
      /\ \A i \in TrackIdsOf(ts) : \E k \in DOMAIN ts : ts[k].id = i /\ T.tracks[i] = Attributes(ts[k])
  BY RowsTyped
<1>5. RowsAtHome(U) /\ RowsAtHome(T)
  BY <1>1, RowsOfAtHome
<1>6. \A k \in DOMAIN ts : /\ Attributes(us[k]) = Attributes(ts[k])
                           /\ (us[k].id \in InitialIds \/ ts[k].id \in InitialIds) => us[k].id = ts[k].id
  BY <1>2 DEF RenamedAs, Attributes
<1> DEFINE Same == PartIn(U, t, a) = PartIn(T, t, a)
<1>7. CASE x = Undefined
  BY <1>5, <1>7, PartsAtHome
<1>8. x \in FirstTracks =>
         /\ x \in DOMAIN U.tracks => PartIn(U, t, a) = <<U.tracks[x]>>
         /\ x \in DOMAIN T.tracks => PartIn(T, t, a) = <<T.tracks[x]>>
         /\ x \notin DOMAIN U.tracks => PartIn(U, t, a) = << >>
         /\ x \notin DOMAIN T.tracks => PartIn(T, t, a) = << >>
  BY <1>5, PartsAtHome
<1>9. x \in FirstClips =>
         /\ x \in DOMAIN U.clips =>
               PartIn(U, t, a) = IF a[2] = 1 THEN Body(U.clips[x]) ELSE <<U.clips[x].start>>
         /\ x \in DOMAIN T.clips =>
               PartIn(T, t, a) = IF a[2] = 1 THEN Body(T.clips[x]) ELSE <<T.clips[x].start>>
         /\ x \notin DOMAIN U.clips => PartIn(U, t, a) = << >>
         /\ x \notin DOMAIN T.clips => PartIn(T, t, a) = << >>
  BY <1>5, PartsAtHome
<1>10. CASE x \in FirstTracks
  <2>1. x \in InitialIds
    BY <1>10, Firsts
  <2>2. x \in TrackIdsOf(us) <=> x \in TrackIdsOf(ts)
    BY <1>1, <1>6, <2>1 DEF TrackIdsOf
  <2>3. ASSUME x \in TrackIdsOf(us) PROVE U.tracks[x] = T.tracks[x]
    <3>1. PICK k \in DOMAIN us : us[k].id = x /\ U.tracks[x] = Attributes(us[k])
      BY <1>3, <2>3
    <3>2. PICK m \in DOMAIN ts : ts[m].id = x /\ T.tracks[x] = Attributes(ts[m])
      BY <1>4, <2>2, <2>3
    <3>3. ts[k].id = x /\ k \in DOMAIN ts
      BY <1>1, <1>6, <2>1, <3>1
    <3>4. k = m
      BY <2>1, <3>2, <3>3 DEF AtHome
    <3> QED
      BY <1>6, <3>1, <3>2, <3>4
  <2> HIDE DEF U, T, x
  <2>4. Same
    BY <1>3, <1>4, <1>10, <1>8, <2>2, <2>3
  <2> QED
    BY <2>4 DEF U, T
<1>11. CASE x \in FirstClips
  <2>1. x \in InitialIds /\ x # id
    BY <1>11, Firsts
  <2>2. ASSUME x \in ClipIdsOf(ts)
        PROVE  U.clips[x].start = T.clips[x].start /\ Body(U.clips[x]) = Body(T.clips[x])
    <3> DEFINE h == HolderAt(ts, x)
    <3>1. HolderAt(us, x) = h
      <4>1. \A k \in DOMAIN ts : (\E c \in Range(us[k].clips) : c.id = x)
                                    <=> (\E c \in Range(ts[k].clips) : c.id = x)
        <5>1. \A k \in DOMAIN ts : x \in OwnIds(us[k]) <=> x \in OwnIds(ts[k])
          BY <1>1
        <5> QED
          BY <5>1 DEF OwnIds, Range
      <4>2. {k \in DOMAIN us : \E c \in Range(us[k].clips) : c.id = x}
              = {k \in DOMAIN ts : \E c \in Range(ts[k].clips) : c.id = x}
        BY <1>1, <4>1
      <4> QED
        BY <4>2 DEF HolderAt
    <3>2. h \in DOMAIN ts /\ ts[h].clips \in Seq(Clip)
          /\ LastClip(ts[h].clips, x) \in Range(ts[h].clips) /\ LastClip(ts[h].clips, x).id = x
      BY <2>2, ClipIsFound
    <3> HIDE DEF h
    <3>3. /\ DOMAIN us[h].clips = DOMAIN ts[h].clips
          /\ \A j \in DOMAIN ts[h].clips :
                /\ us[h].clips[j].id = ts[h].clips[j].id
                /\ ts[h].clips[j].id # id => us[h].clips[j] = ts[h].clips[j]
      BY <1>2, <3>2 DEF RenamedAs
    <3> DEFINE S == {j \in DOMAIN ts[h].clips : ts[h].clips[j].id = x}
    <3>4. Max(S) \in S
      <4>1. DOMAIN ts[h].clips = 1..Len(ts[h].clips) /\ Len(ts[h].clips) \in Nat
        BY <3>2, ClipsTyped
      <4>2. S \in SUBSET (0..Len(ts[h].clips)) /\ S # {}
        BY <3>2, <4>1 DEF Range
      <4> HIDE DEF S
      <4> QED
        BY <4>1, <4>2, GreatestTurn
    <3>5. {j \in DOMAIN us[h].clips : us[h].clips[j].id = x} = S
      BY <3>3
    <3>6. LastClip(us[h].clips, x) = us[h].clips[Max(S)] /\ LastClip(ts[h].clips, x) = ts[h].clips[Max(S)]
      BY <3>5 DEF LastClip
    <3>7. LastClip(us[h].clips, x) = LastClip(ts[h].clips, x)
      BY <2>1, <3>3, <3>4, <3>6
    <3>8. U.clips[x] = RowOf(LastClip(us[h].clips, x), us[h].id)
      BY <1>1, <2>2, <3>1 DEF RowsOf
    <3>9. T.clips[x] = RowOf(LastClip(ts[h].clips, x), ts[h].id)
      BY <2>2 DEF RowsOf, h
    <3> QED
      BY <3>7, <3>8, <3>9 DEF RowOf, Body
  <2> HIDE DEF U, T, x
  <2>3. Same
    BY <1>1, <1>3, <1>4, <1>11, <1>9, <2>2
  <2> QED
    BY <2>3 DEF U, T
<1> QED
  BY <1>5, <1>7, <1>10, <1>11, PartsAtHome

\* A request that is done stores the parts it is about, and leaves the others
\* or stores them too.
LEMMA DoneStores ==
    ASSUME TypeInv, BoundInv, Keeps, ~crossed, flight.busy, Underway, NEW q \in flight.todo, Done(q),
           NEW a \in Parts
    PROVE  \/ PartIn(rows', rowTitle'[project], a) = PartOf(flight.next, a)
           \/ RowPart(a) = PartIn(rows', rowTitle'[project], a) /\ ~Regards(q, a, flight.moves)
<1> DEFINE N == RowsOf(flight.next.tracks)
           x == a[1]
           Now == PartIn(rows', rowTitle'[project], a)
<1>2. /\ AtHome(flight.next.tracks) /\ AtHome(snapshot.tracks)
      /\ FlightKeeps /\ RowsAtHome(rows)
  BY DEF Keeps, RowsKeep
<1>3. /\ SaveInv /\ TypedRows(rows, fresh) /\ fresh \in Nat \ {0} /\ RowsInv /\ OriginBound
      /\ q.id < fresh /\ Accepted(q) /\ rows' = Served(q)
  BY DEF TypeInv, RowsInv, StoreInv, BoundInv, Done
<1>4. ServedAs(q, rows') /\ TypedRows(rows', fresh')
  BY <1>3, ServedTyped, DoneTyped DEF RowsInv
<1>5. RowsAtHome(rows')
  BY DoneKeeps DEF RowsKeep
<1>6. /\ flight.next \in Timeline /\ snapshot \in Timeline /\ flight.next.tracks \in Seq(Track)
      /\ q \in Request /\ q.op \in Range(Operations) /\ flight.moves \in SUBSET Move
  BY <1>3, OperationsAre DEF SaveInv, Flight, Timeline
<1>7. RowsAtHome(N) /\ PartOf(flight.next, a) = PartIn(N, flight.next.title, a)
  BY <1>2, <1>6, RowsOfAtHome DEF PartOf
<1>8. DOMAIN N.tracks = TrackIdsOf(flight.next.tracks) /\ DOMAIN N.clips = ClipIdsOf(flight.next.tracks)
  BY <1>6, RowsTyped
<1>9. Needed(q, snapshot, flight.next) /\ flight.moves = Moves(snapshot, flight.next)
  BY <1>6, DiffIsNeeded DEF Underway
<1>10. fresh \notin InitialIds
  BY DEF TypeInv, StoreInv
<1>11. rowTitle'[project] = IF q.op = "title" THEN flight.next.title ELSE rowTitle[project]
  <2>1. flight.project = project /\ project \in Projects /\ rowTitle \in [Projects -> 0..1]
    BY <1>3 DEF SaveInv, RowsInv
  <2> QED
    BY <2>1 DEF Done
<1>12. x = Undefined \/ x \in FirstTracks \/ x \in FirstClips
  BY <1>2, PartsAtHome
<1>13. /\ x = Undefined => PartOf(flight.next, a) = flight.next.title /\ RowPart(a) = rowTitle[project]
                         /\ Now = rowTitle'[project]
       /\ x \in FirstTracks =>
             /\ x \in InitialIds /\ x # Undefined
             /\ x \notin DOMAIN rows.clips /\ x \notin DOMAIN rows'.clips /\ x \notin DOMAIN N.clips
             /\ x \in DOMAIN N.tracks => PartOf(flight.next, a) = <<N.tracks[x]>>
                                        /\ N.tracks[x].kind = FirstKind(x)
             /\ x \notin DOMAIN N.tracks => PartOf(flight.next, a) = << >>
             /\ x \in DOMAIN rows.tracks => RowPart(a) = <<rows.tracks[x]>>
                                           /\ rows.tracks[x].kind = FirstKind(x)
             /\ x \notin DOMAIN rows.tracks => RowPart(a) = << >>
             /\ x \in DOMAIN rows'.tracks => Now = <<rows'.tracks[x]>>
             /\ x \notin DOMAIN rows'.tracks => Now = << >>
  BY <1>2, <1>5, <1>7, PartsAtHome DEF RowPart
<1>14. x \in FirstClips =>
             /\ x \in InitialIds /\ x # Undefined /\ a[2] \in {1, 2}
             /\ x \notin DOMAIN rows.tracks /\ x \notin DOMAIN rows'.tracks /\ x \notin DOMAIN N.tracks
             /\ x \in DOMAIN N.clips =>
                   /\ PartOf(flight.next, a) = IF a[2] = 1 THEN Body(N.clips[x]) ELSE <<N.clips[x].start>>
                   /\ N.clips[x].track = Home(x)
             /\ x \notin DOMAIN N.clips => PartOf(flight.next, a) = << >>
             /\ x \in DOMAIN rows.clips =>
                   /\ RowPart(a) = IF a[2] = 1 THEN Body(rows.clips[x]) ELSE <<rows.clips[x].start>>
                   /\ rows.clips[x].track = Home(x)
             /\ x \notin DOMAIN rows.clips => RowPart(a) = << >>
             /\ x \in DOMAIN rows'.clips =>
                   Now = IF a[2] = 1 THEN Body(rows'.clips[x]) ELSE <<rows'.clips[x].start>>
             /\ x \notin DOMAIN rows'.clips => Now = << >>
  <2> SUFFICES ASSUME x \in FirstClips
               PROVE  /\ x \in InitialIds /\ x # Undefined /\ a[2] \in {1, 2}
                      /\ x \notin DOMAIN rows.tracks /\ x \notin DOMAIN rows'.tracks /\ x \notin DOMAIN N.tracks
                      /\ x \in DOMAIN N.clips =>
                            /\ PartOf(flight.next, a) = IF a[2] = 1 THEN Body(N.clips[x]) ELSE <<N.clips[x].start>>
                            /\ N.clips[x].track = Home(x)
                      /\ x \notin DOMAIN N.clips => PartOf(flight.next, a) = << >>
                      /\ x \in DOMAIN rows.clips =>
                            /\ RowPart(a) = IF a[2] = 1 THEN Body(rows.clips[x]) ELSE <<rows.clips[x].start>>
                            /\ rows.clips[x].track = Home(x)
                      /\ x \notin DOMAIN rows.clips => RowPart(a) = << >>
                      /\ x \in DOMAIN rows'.clips =>
                            Now = IF a[2] = 1 THEN Body(rows'.clips[x]) ELSE <<rows'.clips[x].start>>
                      /\ x \notin DOMAIN rows'.clips => Now = << >>
    OBVIOUS
  <2>1. /\ x \in InitialIds /\ x # Undefined /\ a[2] \in {1, 2} /\ x \notin DOMAIN N.tracks
        /\ x \in DOMAIN N.clips =>
              /\ PartIn(N, flight.next.title, a) = IF a[2] = 1 THEN Body(N.clips[x]) ELSE <<N.clips[x].start>>
              /\ N.clips[x].track = Home(x)
        /\ x \notin DOMAIN N.clips => PartIn(N, flight.next.title, a) = << >>
    BY <1>7, PartsAtHome
  <2>2. /\ x \notin DOMAIN rows.tracks
        /\ x \in DOMAIN rows.clips =>
              /\ RowPart(a) = IF a[2] = 1 THEN Body(rows.clips[x]) ELSE <<rows.clips[x].start>>
              /\ rows.clips[x].track = Home(x)
        /\ x \notin DOMAIN rows.clips => RowPart(a) = << >>
    BY <1>2, PartsAtHome DEF RowPart
  <2>3. /\ x \notin DOMAIN rows'.tracks
        /\ x \in DOMAIN rows'.clips =>
              Now = IF a[2] = 1 THEN Body(rows'.clips[x]) ELSE <<rows'.clips[x].start>>
        /\ x \notin DOMAIN rows'.clips => Now = << >>
    BY <1>5, PartsAtHome
  <2> QED
    BY <1>7, <2>1, <2>2, <2>3
<1>15. q.op \in {"trackAdded", "clipCreated"} => q.id \notin InitialIds
  BY <1>2 DEF FlightKeeps
<1>16. /\ x \in DOMAIN N.tracks => x \in TrackIdsOf(flight.next.tracks)
       /\ x \in DOMAIN N.clips => x \in ClipIdsOf(flight.next.tracks)
  BY <1>8
<1>17. SentClip(q) = N.clips[q.id]
  BY DEF SentClip
<1> DEFINE Then == PartOf(flight.next, a)
           Before == RowPart(a)
           About == Regards(q, a, flight.moves)
           Goal == Now = Then \/ (Before = Now /\ ~About)
<1>18. q.op \notin {"title", "reorder"} /\ q.id # x => ~About
  BY DEF Regards
<1> HIDE DEF N, x, Now, Then, Before, About
<1>19. CASE q.op = "title"
  <2>1. rows' = rows /\ rowTitle'[project] = flight.next.title
    BY <1>4, <1>11, <1>19 DEF ServedAs
  <2>2. x # Undefined => Before = Now /\ ~About
    BY <1>19, <2>1 DEF Now, x, RowPart, PartIn, Regards, Before, About
  <2>3. Goal
    BY <1>13, <2>1, <2>2 DEF Then, Before
  <2> QED
    BY <2>3 DEF Goal, Now, Then, Before, About
<1>20. CASE q.op = "trackAdded"
  <2>1. /\ rows'.clips = rows.clips
        /\ DOMAIN rows'.tracks = DOMAIN rows.tracks \union {fresh}
        /\ Apart(rows'.tracks, rows.tracks, {fresh})
    BY <1>4, <1>20 DEF ServedAs
  <2>2. ~About
    BY <1>12, <1>13, <1>14, <1>15, <1>20 DEF Regards, x, About
  <2>3. Before = Now
    BY <1>10, <1>11, <1>12, <1>13, <1>14, <1>20, <2>1 DEF Apart, Before
  <2>4. Goal
    BY <2>2, <2>3
  <2> QED
    BY <2>4 DEF Goal, Now, Then, Before, About
<1>21. CASE q.op = "clipCreated"
  <2>1. /\ rows'.tracks = rows.tracks
        /\ DOMAIN rows'.clips = DOMAIN rows.clips \union {fresh}
        /\ Apart(rows'.clips, rows.clips, {fresh})
    BY <1>4, <1>21 DEF ServedAs
  <2>2. ~About
    BY <1>12, <1>13, <1>14, <1>15, <1>21 DEF Regards, x, About
  <2>3. Before = Now
    BY <1>10, <1>11, <1>12, <1>13, <1>14, <1>21, <2>1 DEF Apart, Before
  <2>4. Goal
    BY <2>2, <2>3
  <2> QED
    BY <2>4 DEF Goal, Now, Then, Before, About
<1>22. CASE q.op = "trackUpdated"
  <2>1. /\ rows'.clips = rows.clips
        /\ q.id \in DOMAIN rows.tracks /\ DOMAIN rows'.tracks = DOMAIN rows.tracks
        /\ rows'.tracks[q.id].kind = rows.tracks[q.id].kind
        /\ rows'.tracks[q.id].index = SentTrack(q).index
        /\ rows'.tracks[q.id].muted = SentTrack(q).muted
        /\ Apart(rows'.tracks, rows.tracks, {q.id})
    BY <1>4, <1>22 DEF ServedAs
  <2>2. CASE x = q.id
    <3>1. x \in FirstTracks
      BY <1>6, <1>9, <1>12, <1>14, <1>22, <2>1, <2>2, Firsts DEF Undefined, TypedRows, TypeInv, RowsInv
    <3>2. q.at \in DOMAIN flight.next.tracks /\ flight.next.tracks[q.at].id = q.id
          /\ x \in TrackIdsOf(flight.next.tracks)
      BY <1>9, <1>22, <2>2 DEF Needed, TrackIdsOf
    <3>3. PICK k \in DOMAIN flight.next.tracks :
                 flight.next.tracks[k].id = x /\ N.tracks[x] = Attributes(flight.next.tracks[k])
      BY <1>6, <3>2, RowsTyped DEF N
    <3>4. k = q.at
      BY <1>2, <1>13, <2>2, <3>1, <3>2, <3>3 DEF AtHome
    <3>5. N.tracks[x] = SentTrack(q) /\ N.tracks[x] \in TrackRow
      <4>1. flight.next.tracks[k] \in Track
        BY <1>6, <3>3, TracksTyped
      <4> QED
        BY <3>3, <3>4, <4>1, TrackRowKept DEF SentTrack
    <3>6. rows'.tracks[x] \in TrackRow
      BY <1>4, <2>1, <2>2 DEF TypedRows
    <3>7. rows'.tracks[x].kind = N.tracks[x].kind
      BY <1>8, <1>13, <2>1, <2>2, <3>1, <3>2 DEF N
    <3>8. rows'.tracks[x] = N.tracks[x]
      BY <2>1, <2>2, <3>5, <3>6, <3>7 DEF TrackRow
    <3>9. Goal
      BY <1>8, <1>13, <2>1, <2>2, <3>1, <3>2, <3>8 DEF Then, N
    <3> QED
      BY <3>9 DEF Goal, Now, Then, Before, About
  <2>3. CASE x # q.id
    <3>1. ~About
      BY <1>18, <1>22, <2>3 DEF About
    <3>2. Before = Now
      BY <1>11, <1>12, <1>13, <1>14, <1>22, <2>1, <2>3 DEF Apart, Before
    <3>3. Goal
      BY <3>1, <3>2
    <3> QED
      BY <3>3 DEF Goal, Now, Then, Before, About
  <2> QED
    BY <2>2, <2>3
<1>23. CASE q.op = "trackRemoved"
  <2>1. /\ DOMAIN rows'.tracks = DOMAIN rows.tracks \ {q.id}
        /\ DOMAIN rows'.clips = {c \in DOMAIN rows.clips : rows.clips[c].track # q.id}
        /\ Apart(rows'.tracks, rows.tracks, {q.id})
        /\ \A c \in DOMAIN rows'.clips : rows'.clips[c] = rows.clips[c]
    BY <1>4, <1>23 DEF ServedAs
  <2>2. q.id \in DOMAIN rows.tracks /\ q.id \notin TrackIdsOf(flight.next.tracks)
    BY <1>3, <1>9, <1>23 DEF Accepted, Needed, Its, TracksOf
  <2>3. CASE x = q.id
    <3>1. x \in FirstTracks
      BY <1>12, <1>14, <2>2, <2>3 DEF Undefined, TypedRows, TypeInv, RowsInv
    <3>2. x \notin DOMAIN N.tracks /\ x \notin DOMAIN rows'.tracks
      BY <1>8, <2>1, <2>2, <2>3 DEF N
    <3>3. Goal
      BY <1>13, <3>1, <3>2 DEF Then
    <3> QED
      BY <3>3 DEF Goal, Now, Then, Before, About
  <2>4. CASE x # q.id /\ x \in FirstClips /\ x \in DOMAIN rows.clips \ DOMAIN rows'.clips
    <3>1. Home(x) = q.id
      BY <1>14, <2>1, <2>4
    <3>2. x \notin ClipIdsOf(flight.next.tracks)
      BY <1>2, <1>14, <2>2, <2>4, <3>1, HomeIs
    <3>3. x \notin DOMAIN N.clips
      BY <1>8, <3>2 DEF N
    <3>4. Goal
      BY <1>14, <2>4, <3>3 DEF Then
    <3> QED
      BY <3>4 DEF Goal, Now, Then, Before, About
  <2>5. CASE x # q.id /\ ~(x \in FirstClips /\ x \in DOMAIN rows.clips \ DOMAIN rows'.clips)
    <3>1. ~About
      BY <1>18, <1>23, <2>5 DEF About
    <3>2. x = Undefined \/ x \in FirstTracks => Before = Now
      BY <1>11, <1>13, <1>23, <2>1, <2>5 DEF Apart, Before
    <3>3. x \in FirstClips => Before = Now
      BY <1>14, <2>1, <2>5 DEF Before
    <3>4. Goal
      BY <1>12, <3>1, <3>2, <3>3 DEF x
    <3> QED
      BY <3>4 DEF Goal, Now, Then, Before, About
  <2> QED
    BY <2>3, <2>4, <2>5
<1>24. CASE q.op = "clipUpdated"
  <2>1. /\ rows'.tracks = rows.tracks
        /\ q.id \in DOMAIN rows.clips /\ DOMAIN rows'.clips = DOMAIN rows.clips
        /\ rows'.clips[q.id].start = SentClip(q).start /\ Body(rows'.clips[q.id]) = Body(SentClip(q))
        /\ Apart(rows'.clips, rows.clips, {q.id})
    BY <1>4, <1>24 DEF ServedAs
  <2>2. q.id \in ClipIdsOf(flight.next.tracks)
    BY <1>9, <1>24 DEF Needed
  <2>3. CASE x = q.id
    <3>1. x \in FirstClips
      BY <1>12, <1>13, <2>1, <2>3 DEF Undefined, TypedRows, TypeInv, RowsInv
    <3>2. x \in DOMAIN N.clips
      BY <1>8, <2>2, <2>3 DEF N
    <3>3. Goal
      BY <1>14, <1>17, <2>1, <2>3, <3>1, <3>2 DEF Then
    <3> QED
      BY <3>3 DEF Goal, Now, Then, Before, About
  <2>4. CASE x # q.id
    <3>1. ~About
      BY <1>18, <1>24, <2>4 DEF About
    <3>2. Before = Now
      BY <1>11, <1>12, <1>13, <1>14, <1>24, <2>1, <2>4 DEF Apart, Before
    <3>3. Goal
      BY <3>1, <3>2
    <3> QED
      BY <3>3 DEF Goal, Now, Then, Before, About
  <2> QED
    BY <2>3, <2>4
<1>25. CASE q.op = "clipRemoved"
  <2>1. /\ rows'.tracks = rows.tracks
        /\ DOMAIN rows'.clips = DOMAIN rows.clips \ {q.id}
        /\ Apart(rows'.clips, rows.clips, {q.id})
    BY <1>4, <1>25 DEF ServedAs
  <2>2. q.id \in DOMAIN rows.clips /\ q.id \notin ClipIdsOf(flight.next.tracks)
    BY <1>3, <1>9, <1>25 DEF Accepted, Needed
  <2>3. CASE x = q.id
    <3>1. x \in FirstClips
      BY <1>12, <1>13, <2>2, <2>3 DEF Undefined, TypedRows, TypeInv, RowsInv
    <3>2. x \notin DOMAIN N.clips /\ x \notin DOMAIN rows'.clips
      BY <1>8, <2>1, <2>2, <2>3 DEF N
    <3>3. Goal
      BY <1>14, <3>1, <3>2 DEF Then
    <3> QED
      BY <3>3 DEF Goal, Now, Then, Before, About
  <2>4. CASE x # q.id
    <3>1. ~About
      BY <1>18, <1>25, <2>4 DEF About
    <3>2. Before = Now
      BY <1>11, <1>12, <1>13, <1>14, <1>25, <2>1, <2>4 DEF Apart, Before
    <3>3. Goal
      BY <3>1, <3>2
    <3> QED
      BY <3>3 DEF Goal, Now, Then, Before, About
  <2> QED
    BY <2>3, <2>4
<1>26. CASE q.op = "reorder"
  <2> DEFINE moved == {u.id : u \in flight.moves}
  <2>1. /\ rows'.tracks = rows.tracks /\ DOMAIN rows'.clips = DOMAIN rows.clips
        /\ Apart(rows'.clips, rows.clips, moved)
        /\ \A c \in moved :
              /\ c \in DOMAIN rows.clips
              /\ \E u \in flight.moves : u.id = c /\ rows'.clips[c] = Placed(rows.clips[c], u.set)
    BY <1>4, <1>26 DEF ServedAs
  <2>2. About => x # Undefined /\ x \in moved /\ a[2] = 2
    BY <1>26 DEF About, Regards, x
  <2>3. CASE x \in FirstClips /\ x \in moved
    <3>1. PICK u \in flight.moves : u.id = x /\ rows'.clips[x] = Placed(rows.clips[x], u.set)
      BY <2>1, <2>3
    <3>2. u \in Move /\ x \in DOMAIN rows.clips /\ rows.clips[x] \in ClipRow
      BY <1>3, <1>6, <2>1, <2>3 DEF TypedRows
    <3>3. "track" \notin DOMAIN u.set
      BY <1>2, <1>14, <2>3, <3>1 DEF FlightKeeps
    <3>4. /\ rows'.clips[x].start = IF "start" \in DOMAIN u.set THEN u.set.start ELSE rows.clips[x].start
          /\ Body(rows'.clips[x]) = Body(rows.clips[x])
      BY <3>1, <3>2, RowPlaced
    <3>5. CASE a[2] = 1
      <4>1. Before = Now
        BY <1>14, <2>1, <2>3, <3>2, <3>4, <3>5 DEF Before
      <4>2. Goal
        BY <2>2, <3>5, <4>1
      <4> QED
        BY <4>2 DEF Goal, Now, Then, Before, About
    <3>6. CASE a[2] = 2
      <4> DEFINE p == RowsOf(snapshot.tracks).clips[x]
                 n == RowsOf(flight.next.tracks).clips[x]
      <4>1. /\ x \in ClipIdsOf(flight.next.tracks) /\ u.set = Placement(p, n)
            /\ <<p.track, p.start>> # <<n.track, n.start>>
        <5>1. u \in Moves(snapshot, flight.next)
          BY <1>9
        <5>2. x \in ClipIdsOf(flight.next.tracks) /\ u.set = Placement(p, n)
          BY <1>6, <3>1, <5>1, MovesAreMoves
        <5>3. <<p.track, p.start>> # <<n.track, n.start>>
          BY <3>1, <5>1 DEF Moves
        <5> QED
          BY <5>2, <5>3
      <4>2. n = N.clips[x] /\ x \in DOMAIN N.clips
        BY <1>8, <4>1 DEF N
      <4> HIDE DEF p, n
      <4>3. "start" \in DOMAIN u.set /\ u.set.start = n.start
        BY <3>3, <4>1 DEF Placement
      <4>4. rows'.clips[x].start = N.clips[x].start
        BY <3>4, <4>2, <4>3
      <4>5. Goal
        BY <1>14, <2>1, <2>3, <3>2, <3>6, <4>2, <4>4 DEF Then
      <4> QED
        BY <4>5 DEF Goal, Now, Then, Before, About
    <3> QED
      BY <1>14, <2>3, <3>5, <3>6
  <2>4. CASE ~(x \in FirstClips /\ x \in moved)
    <3>1. x \in FirstTracks => x \notin moved
      BY <1>13, <2>1
    <3>2. ~About
      BY <1>12, <2>2, <2>4, <3>1 DEF x
    <3>3. Before = Now
      BY <1>11, <1>12, <1>13, <1>14, <1>26, <2>1, <2>4 DEF Apart, Before, x
    <3>4. Goal
      BY <3>2, <3>3
    <3> QED
      BY <3>4 DEF Goal, Now, Then, Before, About
  <2> QED
    BY <2>3, <2>4
<1> QED
  BY <1>6, <1>19, <1>20, <1>21, <1>22, <1>23, <1>24, <1>25, <1>26, OperationsAre

LEMMA ApartFromNothing ==
    ASSUME NEW s, NEW n
    PROVE  /\ Differing(s, n) = {} => \A a \in Parts : PartOf(s, a) = PartOf(n, a)
           /\ (\A a \in Parts : PartOf(s, a) = PartOf(n, a)) => Differing(s, n) = {}
BY DiffersIn

LEMMA FirstParts ==
    ASSUME NEW a \in PartsOf(FirstProject), NEW t
    PROVE  PartIn(RowsOf(AllTracks), t, a) = PartIn(RowsOf(InitialTracks), t, a)
<1> DEFINE A == RowsOf(AllTracks)
           I == RowsOf(InitialTracks)
           x == a[1]
<1>1. AllTracks \in Seq(Track) /\ InitialTracks \in Seq(Track)
      /\ \A k \in DOMAIN InitialTracks : k \in DOMAIN AllTracks /\ AllTracks[k] = InitialTracks[k]
  BY AllTracksAre
<1>2. a \in Parts /\ (x = Undefined \/ x \in InitialIdsOf(FirstProject))
  BY OfProject DEF PartsOf
<1>3. RowsAtHome(A) /\ RowsAtHome(I)
  BY <1>1, AllAtHome, FirstAtHome, RowsOfAtHome
<1>4. /\ DOMAIN A.tracks = FirstTracks /\ DOMAIN I.tracks = TrackIdsOf(InitialTracks)
      /\ DOMAIN A.clips = FirstClips /\ DOMAIN I.clips = ClipIdsOf(InitialTracks)
      /\ \A i \in FirstTracks :
            \E k \in DOMAIN AllTracks : AllTracks[k].id = i /\ A.tracks[i] = Attributes(AllTracks[k])
      /\ \A i \in TrackIdsOf(InitialTracks) :
            \E k \in DOMAIN InitialTracks :
               InitialTracks[k].id = i /\ I.tracks[i] = Attributes(InitialTracks[k])
  BY <1>1, RowsTyped DEF FirstTracks, FirstClips
<1>5. CASE x = Undefined
  BY <1>2, <1>3, <1>5, PartsAtHome
<1>6. CASE x \in FirstTracks
  <2>1. ProjectOf[x] = FirstProject /\ x # Undefined
    BY <1>2, <1>6, OfProject, Firsts DEF Undefined
  <2>2. PICK k \in DOMAIN AllTracks : AllTracks[k].id = x /\ A.tracks[x] = Attributes(AllTracks[k])
    BY <1>4, <1>6
  <2>3. k \in DOMAIN InitialTracks /\ InitialTracks[k].id = x
    BY <1>1, <2>1, <2>2, ProjectsAssumption
  <2>4. x \in TrackIdsOf(InitialTracks)
    BY <2>3 DEF TrackIdsOf
  <2>5. PICK m \in DOMAIN InitialTracks : InitialTracks[m].id = x /\ I.tracks[x] = Attributes(InitialTracks[m])
    BY <1>4, <2>4
  <2>6. k = m
    BY <1>1, <2>2, <2>5, AllTracksAssumption
  <2>7. A.tracks[x] = I.tracks[x]
    BY <1>1, <2>2, <2>5, <2>6
  <2> HIDE DEF A, I, x
  <2>8. /\ x \in DOMAIN A.tracks /\ x \in DOMAIN I.tracks
        /\ x \notin DOMAIN A.clips /\ x \notin DOMAIN I.clips
    BY <1>3, <1>4, <1>6, <2>4, Firsts DEF RowsAtHome
  <2>9. PartIn(A, t, a) = PartIn(I, t, a)
    BY <2>1, <2>7, <2>8 DEF PartIn, x
  <2> QED
    BY <2>9 DEF A, I
<1>7. CASE x \in FirstClips
  <2> DEFINE h == HolderAt(AllTracks, x)
             m == HolderAt(InitialTracks, x)
  <2>1. /\ x # Undefined /\ x \notin FirstTracks /\ x \notin TrackIdsOf(InitialTracks)
        /\ ProjectOf[Home(x)] = FirstProject
    <3>1. TrackIdsOf(InitialTracks) \subseteq FirstTracks
      BY <1>1 DEF TrackIdsOf, FirstTracks
    <3> QED
      BY <1>2, <1>7, <3>1, OfProject, Firsts DEF Undefined
  <2>2. /\ h \in DOMAIN AllTracks /\ LastClip(AllTracks[h].clips, x) \in Range(AllTracks[h].clips)
        /\ LastClip(AllTracks[h].clips, x).id = x
    BY <1>1, <1>7, ClipIsFound DEF FirstClips
  <2>3. Home(x) = AllTracks[h].id
    BY DEF Home
  <2>4. h \in DOMAIN InitialTracks
    BY <2>1, <2>2, <2>3, ProjectsAssumption
  <2>5. Home(x) \in TrackIdsOf(InitialTracks)
    BY <1>1, <2>3, <2>4 DEF TrackIdsOf
  <2>6. x \in ClipIdsOf(InitialTracks)
    BY <1>7, <2>5, FirstAtHome
  <2>7. /\ m \in DOMAIN InitialTracks /\ LastClip(InitialTracks[m].clips, x) \in Range(InitialTracks[m].clips)
        /\ LastClip(InitialTracks[m].clips, x).id = x
    BY <1>1, <2>6, ClipIsFound
  <2>8. h = m
    <3>1. PICK i \in DOMAIN AllTracks[h].clips : AllTracks[h].clips[i].id = x
      BY <2>2 DEF Range
    <3>2. PICK j \in DOMAIN InitialTracks[m].clips : InitialTracks[m].clips[j].id = x
      BY <2>7 DEF Range
    <3> HIDE DEF h, m, x
    <3> QED
      BY <1>1, <2>2, <2>7, <3>1, <3>2, AllTracksAssumption
  <2>9. A.clips[x] = RowOf(LastClip(AllTracks[h].clips, x), AllTracks[h].id)
    BY <1>7 DEF RowsOf, FirstClips
  <2>10. I.clips[x] = RowOf(LastClip(InitialTracks[m].clips, x), InitialTracks[m].id)
    BY <2>6 DEF RowsOf
  <2>11. A.clips[x] = I.clips[x]
    BY <1>1, <2>4, <2>8, <2>9, <2>10
  <2> HIDE DEF A, I, x
  <2>12. /\ x \in DOMAIN A.clips /\ x \in DOMAIN I.clips
         /\ x \notin DOMAIN A.tracks /\ x \notin DOMAIN I.tracks
    BY <1>4, <1>7, <2>1, <2>6
  <2>13. PartIn(A, t, a) = PartIn(I, t, a)
    BY <2>1, <2>11, <2>12 DEF PartIn, x
  <2> QED
    BY <2>13 DEF A, I
<1> QED
  BY <1>2, <1>3, <1>5, <1>6, <1>7, PartsAtHome

LEMMA InitParts ==
    ASSUME AutosaveInit
    PROVE  PartsInv
<1>1. /\ tracks = InitialTracks /\ title = 0 /\ snapshot = [title |-> 0, tracks |-> InitialTracks]
      /\ flight = Grounded /\ rows = RowsOf(AllTracks) /\ rowTitle = [p \in Projects |-> 0]
      /\ status = "idle" /\ project = FirstProject
  BY DEF AutosaveInit, StoreInit
<1>2. ~flight.busy /\ Store = snapshot /\ rowTitle[project] = 0
  BY <1>1, ProjectsAssumption DEF Grounded, Store
<1>3. Differing(snapshot, Store) = {}
  BY <1>2, ApartFromNothing
<1>4. \A a \in PartsOf(project) : RowPart(a) = PartOf(snapshot, a)
  BY <1>1, <1>2, FirstParts DEF RowPart, PartOf
<1> QED
  BY <1>1, <1>2, <1>3, <1>4 DEF PartsInv, PartsStored, Accounted

\* What is stored of the snapshot changes with the snapshot and the rows only.
LEMMA SameParts ==
    ASSUME PartsStored, dirty' \/ dirty' = dirty,
           UNCHANGED <<project, snapshot, flight, status, rows, rowTitle, tried, reverted, dropped>>
    PROVE  /\ Accounted' /\ (flight.busy => Underway')
           /\ status' = "saved" => tried' = {}
<1>1. Accounted'
  BY DEF PartsStored, Accounted, Excused, RowPart
<1>2. flight.busy => Underway'
  BY DEF PartsStored, Underway, Excused, RowPart
<1> QED
  BY <1>1, <1>2 DEF PartsStored

LEMMA AsideParts ==
    ASSUME TypeInv, BoundInv, PartsInv,
           UserEdits \/ SaveNow \/ Leave \/ (\E p \in Projects : Load(p)) \/ UNCHANGED editorVars
    PROVE  PartsInv'
<1>1. /\ UNCHANGED <<project, snapshot, flight, status, rows, rowTitle, tried, reverted, dropped>>
      /\ crossed' = crossed /\ stale' = stale
  BY DEF UserEdits, SaveNow, Leave, Load, editorVars, netVars, saveVars
<1>2. CASE UserEdits
  <2>1. Sound(tracks)
    BY DEF BoundInv, IdsOf, Sound
  <2>2. dirty' /\ missed' = (missed \/ flight.busy)
    BY <1>2, <2>1, EditDoes DEF UserEdits, TypeInv, StoreEdited
  <2> QED
    BY <1>1, <2>2, SameParts DEF PartsInv, PartsStored
<1>3. CASE SaveNow \/ Leave \/ (\E p \in Projects : Load(p)) \/ UNCHANGED editorVars
  <2>1. /\ dirty' \/ dirty' = dirty
        /\ missed' = missed /\ Store' = Store
    BY <1>3 DEF SaveNow, Leave, Load, editorVars, saveVars, storeVars, Store
  <2> QED
    BY <1>1, <2>1, SameParts DEF PartsInv, PartsStored
<1> QED
  BY <1>2, <1>3

\* A page that is opened shows the rows.
LEMMA LoadedParts ==
    ASSUME TypeInv, RowsAtHome(rows), NEW p, NEW a \in PartsOf(p), NEW t
    PROVE  PartIn(rows, t, a) = PartIn(RowsOf(Loaded(p)), t, a)
<1> DEFINE L == RowsOf(Loaded(p))
           x == a[1]
<1>1. TypedRows(rows, fresh) /\ fresh \in Nat /\ Indexed(rows, owner) /\ Owned(owner, fresh)
  BY DEF TypeInv, RowsInv, StoreInv
<1>2. Loaded(p) \in Seq(Track)
  BY <1>1, LoadedTyped
<1>3. DOMAIN L.tracks = TrackIdsOf(Loaded(p)) /\ DOMAIN L.clips = ClipIdsOf(Loaded(p))
  BY <1>2, RowsTyped
<1>4. /\ DOMAIN L.tracks = TracksOf(p)
      /\ DOMAIN L.clips = {c \in DOMAIN rows.clips : rows.clips[c].track \in TracksOf(p)}
      /\ \A i \in DOMAIN L.tracks : L.tracks[i] = rows.tracks[i]
      /\ \A c \in DOMAIN L.clips : L.clips[c] = rows.clips[c]
  BY <1>1, <1>3, LoadedIsRows
<1>5. x = Undefined \/ x \in InitialIdsOf(p)
  BY DEF PartsOf
<1>6. x \in InitialIdsOf(p) => (x \in DOMAIN rows.tracks <=> x \in DOMAIN L.tracks)
  <2>1. ASSUME x \in InitialIdsOf(p), x \in DOMAIN rows.tracks PROVE x \in TracksOf(p)
    <3>1. x \in FirstTracks
      BY <2>1, OfProject DEF RowsAtHome
    <3>2. owner[x] = p
      BY <1>1, <2>1, <3>1, OfProject DEF Owned
    <3> QED
      BY <2>1, <3>2 DEF TracksOf
  <2> QED
    BY <1>4, <2>1 DEF TracksOf
<1>7. x \in InitialIdsOf(p) => (x \in DOMAIN rows.clips <=> x \in DOMAIN L.clips)
  <2>1. ASSUME x \in InitialIdsOf(p), x \in DOMAIN rows.clips PROVE rows.clips[x].track \in TracksOf(p)
    <3>1. x \in FirstClips /\ rows.clips[x].track = Home(x)
      BY <2>1, OfProject DEF RowsAtHome
    <3>2. Home(x) \in FirstTracks /\ ProjectOf[Home(x)] = p
      BY <2>1, <3>1, OfProject
    <3>3. owner[Home(x)] = p
      BY <1>1, <3>2 DEF Owned
    <3>4. rows.clips[x].track \in DOMAIN rows.tracks
      BY <1>1, <2>1 DEF TypedRows
    <3> QED
      BY <3>1, <3>3, <3>4 DEF TracksOf
  <2> QED
    BY <1>4, <2>1
<1> HIDE DEF L
<1>8. PartIn(rows, t, a) = PartIn(L, t, a)
  BY <1>4, <1>5, <1>6, <1>7 DEF PartIn
<1> QED
  BY <1>8 DEF L

\* A page that is opened on what is stored shows the rows.
LEMMA OpenParts ==
    ASSUME TypeInv, KeptInv, PartsInv, Open
    PROVE  PartsInv'
<1> SUFFICES ASSUME ~crossed', ~stale' PROVE PartsStored'
  BY DEF PartsInv
<1>1. PICK page \in rendered :
        /\ project' = page.project
        /\ tracks' = page.tracks /\ title' = page.title
        /\ snapshot' = [title |-> page.title, tracks |-> page.tracks]
        /\ stale' = (page # PageOf(page.project))
  BY DEF Open
<1>2. /\ status' = "idle" /\ UNCHANGED <<rows, rowTitle, flight>>
      /\ crossed' = (crossed \/ flight.busy)
  BY DEF Open
<1>3. ~crossed /\ ~flight.busy
  BY <1>2
<1>4. page = PageOf(page.project)
  BY <1>1
<1> DEFINE p == page.project
<1>5. tracks' = Loaded(p) /\ title' = rowTitle[p]
      /\ snapshot' = [title |-> rowTitle[p], tracks |-> Loaded(p)]
  BY <1>1, <1>4 DEF PageOf
<1>6. RowsAtHome(rows)
  BY <1>3 DEF KeptInv, Keeps, RowsKeep
<1>7. project' = p
  BY <1>1
<1> HIDE DEF p
<1>8. Accounted'
  <2>1. \A a \in PartsOf(p) : PartIn(rows, rowTitle[p], a) = PartIn(RowsOf(Loaded(p)), rowTitle[p], a)
    BY <1>6, LoadedParts
  <2>2. \A a \in PartsOf(project') : PartIn(rows', rowTitle'[project'], a) = PartOf(snapshot', a)
    BY <1>2, <1>5, <1>7, <2>1 DEF PartOf
  <2> QED
    BY <2>2 DEF Accounted, RowPart
<1>9. Store' = snapshot'
  BY <1>5 DEF Store
<1>10. Differing(snapshot', Store') = {}
  BY <1>9, ApartFromNothing
<1> QED
  BY <1>2, <1>3, <1>8, <1>10 DEF PartsStored

\* A flush sends what differs; what an earlier one had tried and no longer
\* differs was put back.
LEMMA FlushParts ==
    ASSUME TypeInv, KeptInv, PartsInv, Flush
    PROVE  PartsInv'
<1> SUFFICES ASSUME ~crossed, ~stale PROVE PartsStored'
  BY DEF PartsInv, Flush
<1> DEFINE next == Store
           D == Differing(snapshot, next)
<1>1. PartsStored /\ ~flight.busy /\ AtHome(tracks) /\ AtHome(snapshot.tracks)
  BY DEF PartsInv, Flush, KeptInv, Keeps
<1>2. next \in Timeline /\ snapshot \in Timeline /\ next.tracks = tracks
  BY DEF TypeInv, StoreInv, SaveInv, Timeline, Store
<1>3. UNCHANGED <<project, rows, rowTitle, dropped>> /\ Store' = Store
  BY DEF Flush, netVars, Store
<1>0. PICK p \in timer :
        IF dirty /\ project = p
        THEN /\ missed' = FALSE /\ reverted' = reverted \union (tried \ D)
             /\ IF Diff(snapshot, next) = {} THEN Saved(next)
                ELSE /\ flight' = [busy |-> TRUE, project |-> p, todo |-> Diff(snapshot, next),
                                   next |-> next, moves |-> Moves(snapshot, next)]
                     /\ status' = "saving"
                     /\ UNCHANGED <<snapshot, dirty, tried>>
        ELSE UNCHANGED <<flight, snapshot, dirty, status, missed, reverted, tried>>
  BY DEF Flush, Store
<1>4. CASE ~(dirty /\ project = p)
  <2>1. UNCHANGED <<snapshot, flight, status, dirty, tried, reverted, missed>>
    BY <1>0, <1>4
  <2> QED
    BY <1>1, <1>3, <2>1, SameParts DEF PartsStored
<1>5. CASE dirty /\ project = p
  <2>1. /\ missed' = FALSE /\ reverted' = reverted \union (tried \ D)
        /\ IF Diff(snapshot, next) = {} THEN Saved(next)
           ELSE /\ flight' = [busy |-> TRUE, project |-> p, todo |-> Diff(snapshot, next),
                              next |-> next, moves |-> Moves(snapshot, next)]
                /\ status' = "saving"
                /\ UNCHANGED <<snapshot, dirty, tried>>
    BY <1>0, <1>5
  <2>2. \A a \in Parts : a \in D => \E q \in Diff(snapshot, next) :
                                       Regards(q, a, Moves(snapshot, next))
    BY <1>1, <1>2, DiffCovers
  <2>3. \A a \in Parts : a \notin D => PartOf(snapshot, a) = PartOf(next, a)
    BY DiffersIn
  <2>4. Differing(next, next) = {}
    BY ApartFromNothing
  <2>5. \A a \in PartsOf(project) : PartIn(rows', rowTitle'[project'], a) = RowPart(a)
    BY <1>3 DEF RowPart
  <2> HIDE DEF D, next
  <2>6. \A a \in Parts : Excused(a) => Excused(a)'
    BY <1>3, <2>1 DEF Excused
  <2>7. \A a \in PartsOf(project) : \/ Excused(a)' \/ RowPart(a) = PartOf(next, a) \/ a \in D
    <3> SUFFICES ASSUME NEW a \in PartsOf(project), a \notin D
                 PROVE  Excused(a)' \/ RowPart(a) = PartOf(next, a)
      OBVIOUS
    <3>1. Excused(a) \/ RowPart(a) = PartOf(snapshot, a) \/ a \in tried
      BY <1>1 DEF PartsStored, Accounted
    <3>2. a \in tried => Excused(a)'
      BY <2>1 DEF Excused
    <3>3. a \in Parts
      BY OfProject
    <3> QED
      BY <2>3, <2>6, <3>1, <3>2, <3>3
  <2>8. CASE Diff(snapshot, next) = {}
    <3>1. /\ snapshot' = next /\ flight' = Grounded /\ tried' = {}
      BY <2>1, <2>8 DEF Saved
    <3>2. ~flight'.busy
      BY <3>1 DEF Grounded
    <3>3. Accounted'
      BY <1>3, <2>2, <2>5, <2>7, <2>8, <3>1, OfProject DEF Accounted, RowPart
    <3>4. Differing(snapshot', Store') = {}
      BY <1>3, <2>4, <3>1 DEF next
    <3> QED
      BY <3>1, <3>2, <3>3, <3>4 DEF PartsStored
  <2>9. CASE Diff(snapshot, next) # {}
    <3>1. /\ flight' = [busy |-> TRUE, project |-> p, todo |-> Diff(snapshot, next),
                        next |-> next, moves |-> Moves(snapshot, next)]
          /\ status' = "saving" /\ UNCHANGED <<snapshot, dirty, tried>>
      BY <2>1, <2>9
    <3>2. /\ flight'.todo = Diff(snapshot', flight'.next) /\ flight'.next = next /\ flight'.busy
          /\ flight'.moves = Moves(snapshot', flight'.next)
          /\ flight'.todo = Diff(snapshot, next) /\ flight'.moves = Moves(snapshot, next)
      BY <3>1
    <3>3. Accounted'
      <4>1. \A a \in PartsOf(project) : Excused(a)' \/ RowPart(a) = PartOf(snapshot', a) \/ a \in tried'
        BY <1>1, <2>6, <3>1, OfProject DEF PartsStored, Accounted
      <4> QED
        BY <1>3, <2>5, <4>1 DEF Accounted, RowPart
    <3>4. Underway'
      <4>1. \A a \in PartsOf(project) :
                \/ Excused(a)' \/ RowPart(a)' = PartOf(flight'.next, a)
                \/ \E q \in flight'.todo : Regards(q, a, flight'.moves)
        BY <2>2, <2>5, <2>7, <3>2, OfProject DEF RowPart
      <4> QED
        BY <1>3, <1>5, <3>1, <3>2, <4>1 DEF Underway
    <3>5. Differing(flight'.next, Store') = {}
      BY <1>3, <2>4, <3>2 DEF next
    <3> QED
      BY <3>1, <3>2, <3>3, <3>4, <3>5 DEF PartsStored
  <2> QED
    BY <2>8, <2>9
<1> QED
  BY <1>4, <1>5 DEF TypeInv, StoreInv

\* What a request leaves to be sent, done or not.
LEMMA OneLess ==
    ASSUME TypeInv, BoundInv, Keeps, ~crossed, flight.busy, Underway, reverted' = reverted,
           NEW q \in flight.todo, project' = project,
           \/ Done(q) /\ dropped' = dropped
           \/ Refused(q) /\ q.op # "title"
    PROVE  \A a \in PartsOf(project) :
              \/ Excused(a)' \/ RowPart(a)' = PartOf(flight.next, a)
              \/ \E r \in flight.todo \ {q} : Regards(r, a, flight.moves)
<1> SUFFICES ASSUME NEW a \in PartsOf(project), ~(\E r \in flight.todo \ {q} : Regards(r, a, flight.moves))
             PROVE  Excused(a)' \/ RowPart(a)' = PartOf(flight.next, a)
  OBVIOUS
<1>0. a \in Parts
  BY OfProject
<1>1. Excused(a) => Excused(a)'
  BY DEF Excused, Refused
<1>2. Excused(a) \/ RowPart(a) = PartOf(flight.next, a) \/ Regards(q, a, flight.moves)
  BY DEF Underway
<1>3. CASE Done(q)
  <2>1. \/ RowPart(a)' = PartOf(flight.next, a)
        \/ RowPart(a)' = RowPart(a) /\ ~Regards(q, a, flight.moves)
    <3>1. \/ PartIn(rows', rowTitle'[project], a) = PartOf(flight.next, a)
          \/ RowPart(a) = PartIn(rows', rowTitle'[project], a) /\ ~Regards(q, a, flight.moves)
      BY <1>0, <1>3, DoneStores
    <3> QED
      BY <3>1 DEF RowPart
  <2> QED
    BY <1>1, <1>2, <2>1
<1>4. CASE Refused(q) /\ q.op # "title"
  <2>1. RowPart(a)' = RowPart(a)
    BY <1>4 DEF Refused, NotDone, RowPart
  <2>2. Regards(q, a, flight.moves) => a[1] \in dropped' /\ a[1] # Undefined
    BY <1>4 DEF Regards, Refused
  <2> QED
    BY <1>1, <1>2, <2>1, <2>2 DEF Excused
<1> QED
  BY <1>3, <1>4

\* A part of the rows changes only to what is being saved.
LEMMA PartsMove ==
    ASSUME TypeInv, BoundInv, Keeps, ~crossed, flight.busy, Underway, project' = project,
           NEW q \in flight.todo, Done(q) \/ NotDone
    PROVE  \A a \in Parts : RowPart(a)' = RowPart(a) \/ RowPart(a)' = PartOf(flight.next, a)
<1> SUFFICES ASSUME NEW a \in Parts
             PROVE  RowPart(a)' = RowPart(a) \/ RowPart(a)' = PartOf(flight.next, a)
  OBVIOUS
<1>1. CASE Done(q)
  <2>1. \/ PartIn(rows', rowTitle'[project], a) = PartOf(flight.next, a)
        \/ RowPart(a) = PartIn(rows', rowTitle'[project], a)
    BY <1>1, DoneStores
  <2> QED
    BY <2>1 DEF RowPart
<1>2. CASE NotDone
  BY <1>2 DEF NotDone, RowPart
<1> QED
  BY <1>1, <1>2

LEMMA ContinuesParts ==
    ASSUME TypeInv, BoundInv, Keeps, PartsStored, ~crossed, Unmoved, flight.busy,
           NEW q \in flight.todo, Continues(q),
           \/ Done(q) /\ dropped' = dropped
           \/ Refused(q) /\ q.op # "title",
           NEW id \in {fresh, Undefined}, tracks' = Rewritten(q, id)
    PROVE  PartsStored'
<1>1. /\ Underway /\ Accounted /\ reverted' = reverted /\ missed' = missed /\ title' = title
      /\ project' = project
  BY DEF PartsStored, Unmoved
<1>2. \A a \in PartsOf(project) :
         \/ Excused(a)' \/ RowPart(a)' = PartOf(flight.next, a)
         \/ \E r \in flight.todo \ {q} : Regards(r, a, flight.moves)
  BY <1>1, OneLess
<1>3. \A a \in Parts : RowPart(a)' = RowPart(a) \/ RowPart(a)' = PartOf(flight.next, a)
  <2>1. Done(q) \/ NotDone
    BY DEF Refused
  <2> QED
    BY <1>1, <2>1, PartsMove
<1>4. ~missed => Differing(flight.next, Store') = {}
  <2>1. id \in Nat /\ id \notin InitialIds /\ tracks \in Seq(Track) /\ SaveInv
    BY Firsts DEF TypeInv, StoreInv, Undefined
  <2>2. RenamedAs(tracks', tracks, q, id)
    BY <2>1, RewrittenRenames
  <2>3. AtHome(tracks) /\ AtHome(tracks') /\ (q.op = "trackAdded" => q.id \notin InitialIds)
    BY <2>1, <2>2, RenamedKeeps DEF Keeps, FlightKeeps
  <2>4. ASSUME NEW a \in Parts PROVE PartOf(Store', a) = PartOf(Store, a)
    <3>1. PartIn(RowsOf(tracks'), title, a) = PartIn(RowsOf(tracks), title, a)
      BY <2>1, <2>2, <2>3, RenamedParts
    <3>2. Store'.tracks = tracks' /\ Store'.title = title /\ Store.tracks = tracks /\ Store.title = title
      BY <1>1 DEF Store
    <3> QED
      BY <3>1, <3>2 DEF PartOf
  <2>5. ~missed => \A a \in Parts : PartOf(flight.next, a) = PartOf(Store, a)
    BY ApartFromNothing DEF PartsStored
  <2>6. ~missed => \A a \in Parts : PartOf(flight.next, a) = PartOf(Store', a)
    BY <2>4, <2>5
  <2> QED
    BY <2>6, ApartFromNothing
<1>5. CASE flight.todo = {q}
  <2>1. snapshot' = flight.next /\ dirty' = FALSE /\ flight' = Grounded /\ tried' = {}
    BY <1>5 DEF Continues, Saved
  <2>2. ~flight'.busy
    BY <2>1 DEF Grounded
  <2>3. Accounted'
    <3>1. \A a \in PartsOf(project) : Excused(a)' \/ RowPart(a)' = PartOf(snapshot', a)
      BY <1>2, <1>5, <2>1
    <3> QED
      BY <1>1, <3>1 DEF Accounted
  <2>4. ~missed' => Differing(snapshot', Store') = {}
    BY <1>1, <1>4, <2>1
  <2> QED
    BY <2>1, <2>2, <2>3, <2>4 DEF PartsStored
<1>6. CASE flight.todo # {q}
  <2>1. flight' = [flight EXCEPT !.todo = @ \ {q}] /\ UNCHANGED <<snapshot, dirty, status, tried>>
    BY <1>6 DEF Continues
  <2>2. /\ flight'.todo = flight.todo \ {q} /\ flight'.moves = flight.moves
        /\ flight'.next = flight.next /\ flight'.busy
    BY <2>1 DEF TypeInv, SaveInv, Flight
  <2>3. \A a \in Parts : Excused(a) => Excused(a)'
    BY <1>1 DEF Excused, Refused
  <2>4. Accounted'
    <3>1. \A a \in PartsOf(project) :
             \/ Excused(a)' \/ RowPart(a)' = PartOf(snapshot', a) \/ a \in tried'
             \/ flight'.busy /\ a \in Differing(snapshot', flight'.next)
      <4> SUFFICES ASSUME NEW a \in PartsOf(project)
                   PROVE  \/ Excused(a)' \/ RowPart(a)' = PartOf(snapshot, a) \/ a \in tried
                          \/ a \in Differing(snapshot, flight.next)
        BY <2>1, <2>2
      <4>1. \/ Excused(a) \/ RowPart(a) = PartOf(snapshot, a) \/ a \in tried
            \/ a \in Differing(snapshot, flight.next)
        BY <1>1 DEF Accounted
      <4>2. a \in Differing(snapshot, flight.next) \/ PartOf(snapshot, a) = PartOf(flight.next, a)
        BY OfProject, DiffersIn
      <4> QED
        BY <1>3, OfProject, <2>3, <4>1, <4>2
    <3> QED
      BY <1>1, <3>1 DEF Accounted
  <2>5. Underway'
    <3>1. \A a \in PartsOf(project) :
             \/ Excused(a)' \/ RowPart(a)' = PartOf(flight'.next, a)
             \/ \E r \in flight'.todo : Regards(r, a, flight'.moves)
      BY <1>2, <2>2
    <3>2. /\ flight'.todo \subseteq Diff(snapshot', flight'.next)
          /\ flight'.moves = Moves(snapshot', flight'.next)
          /\ dirty' /\ status' = "saving"
      BY <1>1, <2>1, <2>2 DEF Underway
    <3> QED
      BY <1>1, <3>1, <3>2 DEF Underway
  <2>6. ~missed' => Differing(flight'.next, Store') = {}
    BY <1>1, <1>4, <2>2
  <2>7. status' = "saved" => tried' = {}
    BY <2>1 DEF PartsStored
  <2> QED
    BY <2>2, <2>4, <2>5, <2>6, <2>7 DEF PartsStored
<1> QED
  BY <1>5, <1>6

LEMMA FailsParts ==
    ASSUME TypeInv, BoundInv, Keeps, PartsStored, ~crossed, Unmoved, flight.busy, Fails,
           NEW q \in flight.todo, Done(q) \/ NotDone, dropped \subseteq dropped'
    PROVE  PartsStored'
<1>1. Underway /\ Accounted /\ reverted' = reverted /\ project' = project
  BY DEF PartsStored, Unmoved
<1>2. /\ flight' = Grounded /\ status' = "error" /\ UNCHANGED <<snapshot, dirty>>
      /\ tried' = tried \union Differing(snapshot, flight.next)
  BY DEF Fails
<1>3. ~flight'.busy /\ dirty'
  BY <1>1, <1>2 DEF Underway, Grounded
<1>4. \A a \in PartsOf(project) : Excused(a)' \/ RowPart(a)' = PartOf(snapshot', a) \/ a \in tried'
  <2> SUFFICES ASSUME NEW a \in PartsOf(project)
               PROVE  Excused(a)' \/ RowPart(a)' = PartOf(snapshot, a) \/ a \in tried'
    BY <1>2
  <2>1. \/ Excused(a) \/ RowPart(a) = PartOf(snapshot, a) \/ a \in tried
        \/ a \in Differing(snapshot, flight.next)
    BY <1>1 DEF Accounted
  <2>2. a \in Differing(snapshot, flight.next) \/ PartOf(snapshot, a) = PartOf(flight.next, a)
    BY OfProject, DiffersIn
  <2>3. RowPart(a)' = RowPart(a) \/ RowPart(a)' = PartOf(flight.next, a)
    BY <1>1, OfProject, PartsMove
  <2>4. Excused(a) => Excused(a)'
    BY <1>1 DEF Excused
  <2> QED
    BY <1>2, <2>1, <2>2, <2>3, <2>4
<1>5. Accounted'
  BY <1>1, <1>4 DEF Accounted
<1> QED
  BY <1>2, <1>3, <1>5 DEF PartsStored

LEMMA AnswersParts ==
    ASSUME TypeInv, BoundInv, KeptInv, PartsInv, Answered \/ AnsweredWithError \/ Lost
    PROVE  PartsInv'
<1>1. Unmoved /\ flight.busy
  BY DEF Answered, AnsweredWithError, Lost, Faulty
<1> SUFFICES ASSUME ~crossed, ~stale PROVE PartsStored'
  BY <1>1 DEF PartsInv, Unmoved
<1>2. PartsStored /\ Keeps
  BY DEF PartsInv, KeptInv
<1>3. CASE Answered
  <2>1. PICK q \in flight.todo :
               /\ \/ Done(q) /\ tracks' = Rewritten(q, fresh) /\ UNCHANGED dropped
                  \/ ~Accepted(q) /\ Refused(q) /\ tracks' = Rewritten(q, Undefined)
               /\ Continues(q)
    BY <1>3 DEF Answered, InTurn
  <2>2. ~Accepted(q) => q.op # "title"
    BY DEF Accepted
  <2> QED
    BY <1>1, <1>2, <2>1, <2>2, ContinuesParts
<1>4. CASE AnsweredWithError
  <2>1. PICK q \in flight.todo :
               /\ Refused(q)
               /\ IF q.op = "title" THEN Fails
                  ELSE tracks' = Rewritten(q, Undefined) /\ Continues(q)
    BY <1>4 DEF AnsweredWithError, InTurn
  <2>2. NotDone /\ dropped \subseteq dropped'
    BY <2>1 DEF Refused
  <2> QED
    BY <1>1, <1>2, <2>1, <2>2, ContinuesParts, FailsParts
<1>5. CASE Lost
  <2>1. PICK q \in flight.todo : Done(q) \/ NotDone
    BY <1>5 DEF Lost, InTurn
  <2>2. Fails /\ dropped \subseteq dropped'
    BY <1>5 DEF Lost
  <2> QED
    BY <1>1, <1>2, <2>1, <2>2, FailsParts
<1> QED
  BY <1>3, <1>4, <1>5

LEMMA NextParts ==
    ASSUME TypeInv, BoundInv, KeptInv, PartsInv, [AutosaveNext]_editorVars
    PROVE  PartsInv'
BY AsideParts, OpenParts, FlushParts, AnswersParts DEF AutosaveNext

LEMMA AutosaveStores == AutosaveSpec => [](TypeInv /\ KeptInv /\ PartsInv)
<1>1. AutosaveInit => PartsInv
  BY InitParts
<1>2. TypeInv /\ BoundInv /\ KeptInv /\ PartsInv /\ [AutosaveNext]_editorVars => PartsInv'
  BY NextParts
<1> QED
  BY <1>1, <1>2, AutosaveKeeps, PTL DEF AutosaveSpec

\* Rows whose parts are equal are equal.
LEMMA PartsAreRows ==
    ASSUME NEW r, NEW s, NEW t, NEW u, NEW id \in InitialIds,
           \A c \in DOMAIN r.clips : r.clips[c] \in ClipRow,
           \A c \in DOMAIN s.clips : s.clips[c] \in ClipRow,
           RowsAtHome(r), RowsAtHome(s),
           \A k \in {1, 2} : PartIn(r, t, <<id, k>>) = PartIn(s, u, <<id, k>>)
    PROVE  Agree(r.clips, s.clips, id) /\ Agree(r.tracks, s.tracks, id)
<1> DEFINE a == <<id, 1>>
           b == <<id, 2>>
<1>1. a \in Parts /\ b \in Parts /\ a[1] = id /\ b[1] = id /\ a[2] = 1 /\ b[2] = 2
  BY DEF Parts
<1>2. PartIn(r, t, a) = PartIn(s, u, a) /\ PartIn(r, t, b) = PartIn(s, u, b)
  OBVIOUS
<1>3. CASE id \in FirstTracks
  <2>1. /\ id \notin DOMAIN r.clips /\ id \notin DOMAIN s.clips
        /\ id \in DOMAIN r.tracks => PartIn(r, t, a) = <<r.tracks[id]>>
        /\ id \in DOMAIN s.tracks => PartIn(s, u, a) = <<s.tracks[id]>>
        /\ id \notin DOMAIN r.tracks => PartIn(r, t, a) = << >>
        /\ id \notin DOMAIN s.tracks => PartIn(s, u, a) = << >>
    BY <1>1, <1>3, PartsAtHome
  <2> HIDE DEF a, b
  <2> QED
    BY <1>2, <2>1 DEF Agree
<1>4. CASE id \in FirstClips
  <2>1. /\ id \notin DOMAIN r.tracks /\ id \notin DOMAIN s.tracks
        /\ id \in DOMAIN r.clips => /\ PartIn(r, t, a) = Body(r.clips[id])
                                    /\ PartIn(r, t, b) = <<r.clips[id].start>>
                                    /\ r.clips[id].track = Home(id)
        /\ id \in DOMAIN s.clips => /\ PartIn(s, u, a) = Body(s.clips[id])
                                    /\ PartIn(s, u, b) = <<s.clips[id].start>>
                                    /\ s.clips[id].track = Home(id)
        /\ id \notin DOMAIN r.clips => PartIn(r, t, b) = << >>
        /\ id \notin DOMAIN s.clips => PartIn(s, u, b) = << >>
    BY <1>1, <1>4, PartsAtHome
  <2> HIDE DEF a, b
  <2>2. (id \in DOMAIN r.clips) = (id \in DOMAIN s.clips)
    BY <1>2, <2>1
  <2>3. ASSUME id \in DOMAIN r.clips PROVE r.clips[id] = s.clips[id]
    <3>1. r.clips[id] \in ClipRow /\ s.clips[id] \in ClipRow
      BY <2>2, <2>3
    <3>2. r.clips[id].start = s.clips[id].start /\ Body(r.clips[id]) = Body(s.clips[id])
          /\ r.clips[id].track = s.clips[id].track
      BY <1>2, <2>1, <2>2, <2>3
    <3> QED
      BY <3>1, <3>2 DEF ClipRow, Body
  <2> QED
    BY <2>1, <2>2, <2>3 DEF Agree
<1> QED
  BY <1>3, <1>4, Firsts

\* When the editor says "saved", the rows its project was loaded with are stored as
\* it shows them, in any number of projects: unless edits were made during that
\* flush, a request about the row was answered with an error, what a failed flush
\* had sent was put back before the retry, the page was opened on what was no
\* longer stored, or a page was opened in the middle of a flush
\* (timeline-sync.ts, flush).
THEOREM AutosaveMeansStored == AutosaveSpec => []SavedMeansStored
<1>1. ASSUME TypeInv, KeptInv, PartsInv PROVE SavedMeansStored
  <2> SUFFICES ASSUME status = "saved", ~flight.busy, ~dirty, ~missed, ~crossed, ~stale
               PROVE  /\ <<Undefined, 1>> \in reverted \/ rowTitle[project] = title
                      /\ \A id \in InitialIdsOf(project) \ (dropped \union {a[1] : a \in reverted}) :
                            Agree(RowsOf(tracks).clips, rows.clips, id)
                            /\ Agree(RowsOf(tracks).tracks, rows.tracks, id)
    BY DEF SavedMeansStored
  <2> DEFINE r == RowsOf(tracks)
  <2>1. \A a \in PartsOf(project) : ~Excused(a) => RowPart(a) = PartOf(Store, a)
    <3>1. PartsStored
      BY <1>1 DEF PartsInv
    <3>2. \A a \in PartsOf(project) : Excused(a) \/ RowPart(a) = PartOf(snapshot, a)
      BY <3>1 DEF PartsStored, Accounted
    <3>3. \A a \in Parts : PartOf(snapshot, a) = PartOf(Store, a)
      BY <3>1, ApartFromNothing DEF PartsStored
    <3> QED
      BY <3>2, <3>3, OfProject
  <2>2. <<Undefined, 1>> \in reverted \/ rowTitle[project] = title
    <3> DEFINE a == <<Undefined, 1>>
    <3>1. a \in PartsOf(project) /\ a[1] = Undefined
      BY DEF PartsOf
    <3>2. RowPart(a) = rowTitle[project] /\ PartOf(Store, a) = title
      BY <3>1 DEF RowPart, PartOf, PartIn, Store
    <3> HIDE DEF a
    <3>3. a \in reverted \/ rowTitle[project] = title
      BY <2>1, <3>1, <3>2 DEF Excused
    <3> QED
      BY <3>3 DEF a
  <2>3. tracks \in Seq(Track) /\ TypedRows(rows, fresh)
    BY <1>1 DEF TypeInv, StoreInv, RowsInv
  <2>4. RowsAtHome(r) /\ RowsAtHome(rows)
    <3>1. AtHome(tracks) /\ RowsAtHome(rows)
      BY <1>1 DEF KeptInv, Keeps, RowsKeep
    <3> QED
      BY <2>3, <3>1, RowsOfAtHome
  <2>5. (\A c \in DOMAIN r.clips : r.clips[c] \in ClipRow)
        /\ \A c \in DOMAIN rows.clips : rows.clips[c] \in ClipRow
    <3>1. \A c \in DOMAIN r.clips : r.clips[c] \in ClipRow
      BY <2>3, RowsTyped
    <3> QED
      BY <2>3, <3>1 DEF TypedRows
  <2>6. ASSUME NEW id \in InitialIdsOf(project) \ (dropped \union {a[1] : a \in reverted})
        PROVE  Agree(r.clips, rows.clips, id) /\ Agree(r.tracks, rows.tracks, id)
    <3>1. ASSUME NEW k \in {1, 2}
          PROVE  PartIn(r, title, <<id, k>>) = PartIn(rows, rowTitle[project], <<id, k>>)
      <4> DEFINE a == <<id, k>>
      <4>1. a \in PartsOf(project) /\ a[1] = id
        BY DEF PartsOf
      <4> HIDE DEF a
      <4>2. ~Excused(a)
        BY <4>1 DEF Excused
      <4>3. RowPart(a) = PartOf(Store, a)
        BY <2>1, <4>1, <4>2
      <4> QED
        BY <4>3 DEF RowPart, PartOf, Store, a
    <3>2. id \in InitialIds
      BY OfProject
    <3> HIDE DEF r
    <3> QED
      BY <2>4, <2>5, <3>1, <3>2, PartsAreRows
  <2> QED
    BY <2>2, <2>6
<1> QED
  BY <1>1, AutosaveStores, PTL
=============================================================================
