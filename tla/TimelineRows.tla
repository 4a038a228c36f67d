---------------------------- MODULE TimelineRows ----------------------------
(***************************************************************************)
(* The rows of timelines and the statements the repositories run on them   *)
(* (clips.repo.ts, tracks.repo.ts, schema.prisma).  A timeline is a        *)
(* record: tracks maps the id of a track to its attributes, clips the id   *)
(* of a clip to its row.  Tracks have a project, clips only a track.       *)
(***************************************************************************)
EXTENDS Naturals, FiniteSets, FiniteSetsExt, Functions, TLC

Drop(f, S) == Restrict(f, DOMAIN f \ S)
With(f, id, row) == [i \in DOMAIN f \union {id} |-> IF i = id THEN row ELSE f[i]]

\* The tracks in S and what is on them: a project's share of the rows.
TracksWith(t, S) ==
    [tracks |-> Restrict(t.tracks, S),
     clips |-> Restrict(t.clips, {c \in DOMAIN t.clips : t.clips[c].track \in S})]

\* @@unique([projectId, kind, index]), of one project's share.
TrackFits(t, kind, index) ==
    \A i \in DOMAIN t.tracks : <<t.tracks[i].kind, t.tracks[i].index>> # <<kind, index>>

CountTracks(t, kind) == Cardinality({i \in DOMAIN t.tracks : t.tracks[i].kind = kind})

TrackCreated(t, id, attrs) == [t EXCEPT !.tracks = With(@, id, attrs)]

\* An update sets the fields it names.
TrackSet(row, set) ==
    [row EXCEPT !.muted = IF "muted" \in DOMAIN set THEN set.muted ELSE @,
                !.index = IF "index" \in DOMAIN set THEN set.index ELSE @]
TrackUpdated(t, id, set) == [t EXCEPT !.tracks[id] = TrackSet(@, set)]

\* Mutant: the clips stay.
TrackDeletedAlone(t, id) == [t EXCEPT !.tracks = Drop(@, {id})]

\* deleteMany; the clips of the track go with it (onDelete: Cascade).
TrackDeleted(t, id) ==
    [tracks |-> Drop(t.tracks, {id}),
     clips |-> Drop(t.clips, {c \in DOMAIN t.clips : t.clips[c].track = id})]

ClipCreated(t, id, row) == [t EXCEPT !.clips = With(@, id, row)]
ClipPatched(t, id, row) == [t EXCEPT !.clips[id] = row]
ClipDeleted(t, id) == [t EXCEPT !.clips = Drop(@, {id})]

\* One transaction: a clip or a track that does not exist fails it as a whole.
\* An update names a clip and the fields it sets.
CanReorder(t, updates) ==
    \A u \in updates :
        /\ u.id \in DOMAIN t.clips
        /\ "track" \in DOMAIN u.set => u.set.track \in DOMAIN t.tracks
Placed(row, set) ==
    [row EXCEPT !.track = IF "track" \in DOMAIN set THEN set.track ELSE @,
                !.start = IF "start" \in DOMAIN set THEN set.start ELSE @]
Reordered(t, updates) ==
    LET Set(c) == (CHOOSE u \in updates : u.id = c).set
    IN [t EXCEPT !.clips = [c \in DOMAIN @ |->
           IF c \in {u.id : u \in updates} THEN Placed(@[c], Set(c)) ELSE @[c]]]

\* recomputeProjectDuration: MAX(startMs + durationMs), 0 for no clips.
LastEnd(t) == Max({0} \union {t.clips[c].start + t.clips[c].len : c \in DOMAIN t.clips})
=============================================================================
