---------------------------- MODULE TimelineApi -----------------------------
(***************************************************************************)
(* The timeline endpoints (timeline.service.ts over the repositories),     *)
(* called concurrently: two tabs, or the editor's autosave and a caller of *)
(* the SDK.  Every handler is a sequence of statements: the ownership      *)
(* guard, a look at the row, the write, and, for whatever may change the   *)
(* end of the timeline, the two statements of recomputeProjectDuration.    *)
(* Any other request may run between two of them, and the process may die  *)
(* there.  A split is a transaction, but under READ COMMITTED its read     *)
(* takes no lock.  A request is made under a project, which is guarded and *)
(* whose duration is recomputed; track statements are restricted to it,    *)
(* clip statements name the clip's id and nothing else.                    *)
(***************************************************************************)
EXTENDS TimelineRows

CONSTANTS
    Projects,            \* the caller's projects
    TrackIds, ClipIds,   \* ids
    Editing,             \* concurrent requests
    TrackKinds,          \* track kinds
    Starts, Lengths, Indexes, \* values a request may carry
    MaxRequests          \* bound: requests made

ASSUME IdsAssumption == /\ TrackIds \subseteq Nat \ {0} /\ TrackIds # {}
                        /\ ClipIds \subseteq Nat \ {0} /\ ClipIds # {}
ASSUME LengthsAssumption ==
    Starts \subseteq Nat /\ Lengths \subseteq Nat \ {0} /\ Indexes \subseteq Nat

VARIABLES
    rows,       \* the tracks and clips
    durationMs, \* Project.durationMs, the cached end of each timeline
    owned,      \* the projects that exist and are the caller's
    stage,      \* how far each request is
    call,       \* what each request asks for, under which project, and has read
    measured,   \* the end each request measured
    made,       \* requests made
    behind,     \* history: requests that measured before another moved the end
    outrun,     \* history: projects whose duration may be an older measurement
    displaced   \* history: projects whose end a request of another one moved

tlVars == <<rows, durationMs, owned, stage, call, measured, made, behind, outrun, displaced>>

ClipRow == [track : TrackIds, start : Nat, len : Nat \ {0}]
TrackRow == [project : Projects, kind : TrackKinds, index : Nat, muted : BOOLEAN]
Stages == {"idle", "look", "write", "measure", "store"}
NoCall == [op |-> "none"]
Ops == {"createTrack", "updateTrack", "deleteTrack", "createClip", "updateClip",
        "moveClip", "splitClip", "deleteClip", "reorderClips"}
\* Those that look at a row before the write, and those that recompute.
Looking == {"createTrack", "createClip", "moveClip", "splitClip"}
\* Mutant: the removal of a track leaves the duration alone.
RecomputingClipsOnly == Ops \ {"createTrack", "updateTrack", "deleteTrack"}
Recomputing == Ops \ {"createTrack", "updateTrack"}

TimelineTypeOK ==
    /\ DOMAIN rows.tracks \subseteq TrackIds
    /\ \A t \in DOMAIN rows.tracks : rows.tracks[t] \in TrackRow
    /\ DOMAIN rows.clips \subseteq ClipIds
    /\ \A c \in DOMAIN rows.clips :
          rows.clips[c] \in ClipRow /\ rows.clips[c].track \in DOMAIN rows.tracks
    /\ durationMs \in [Projects -> Nat]
    /\ stage \in [Editing -> Stages] /\ measured \in [Editing -> Nat]
    /\ \A r \in Editing : stage[r] # "idle" => call[r].project \in Projects
    /\ behind \subseteq Editing
    /\ owned \subseteq Projects /\ outrun \subseteq Projects /\ displaced \subseteq Projects

\* One project has a track with a clip on it, the others are empty.
TimelineInit ==
    \E p \in Projects, t \in {Min(TrackIds)}, c \in {Min(ClipIds)}, k \in TrackKinds, len \in Lengths :
        /\ rows = [tracks |-> [i \in {t} |-> [project |-> p, kind |-> k, index |-> 0,
                                             muted |-> FALSE]],
                   clips |-> [i \in {c} |-> [track |-> t, start |-> 0, len |-> len]]]
        /\ durationMs = [q \in Projects |-> IF q = p THEN len ELSE 0]
        /\ owned = Projects
        /\ stage = [r \in Editing |-> "idle"]
        /\ call = [r \in Editing |-> NoCall]
        /\ measured = [r \in Editing |-> 0]
        /\ made = 0
        /\ behind = {} /\ outrun = {} /\ displaced = {}

\* A project's share of the timeline t, and where it ends.
TracksOf(t, p) == {i \in DOMAIN t.tracks : t.tracks[i].project = p}
EndOf(t, p) == LastEnd(TracksWith(t, TracksOf(t, p)))

At(r, op, at) == call[r].op = op /\ stage[r] = at
Goes(r, to) == stage' = [stage EXCEPT ![r] = to]
AnswerEdit(r) == Goes(r, "idle") /\ call' = [call EXCEPT ![r] = NoCall]

\* Ids are never given twice.  Here one is taken again when its row is gone and
\* no request at work names it, the lowest first.
Given(field) == {call[r][field] : r \in {q \in Editing : field \in DOMAIN call[q]}}
Sets == Given("set") \union {u.set : u \in UNION Given("updates")}
NamedTracks == Given("track") \union {row.track : row \in Given("row") \union Given("seen")}
                 \union {set.track : set \in {s \in Sets : "track" \in DOMAIN s}}
NamedClips == Given("clip") \union {u.id : u \in UNION Given("updates")}
Lowest(free) == IF free = {} THEN {} ELSE {Min(free)}
NewTrackId == Lowest(TrackIds \ (DOMAIN rows.tracks \union NamedTracks))
NewClipId == Lowest(ClipIds \ (DOMAIN rows.clips \union NamedClips))

-----------------------------------------------------------------------------
(* The request and its guard: another user's project, or a deleted one, is *)
(* answered with 404 and nothing is kept.                                  *)

AskedFor(r, args) ==
    /\ stage[r] = "idle" /\ made < MaxRequests /\ args.project \in owned
    /\ Goes(r, IF args.op \in Looking /\ "index" \notin DOMAIN args THEN "look" ELSE "write")
    /\ call' = [call EXCEPT ![r] = args]
    /\ made' = made + 1
    /\ UNCHANGED <<rows, durationMs, owned, measured, behind, outrun, displaced>>

\* Ids of any project's rows may be named: a page that was left, or a caller
\* with the wrong id.
RequestTrack(r) ==
    \E p \in Projects :
        \/ \E k \in TrackKinds :
            \/ AskedFor(r, [op |-> "createTrack", project |-> p, kind |-> k])
            \/ \E i \in Indexes :
                  AskedFor(r, [op |-> "createTrack", project |-> p, kind |-> k, index |-> i])
        \/ \E t \in DOMAIN rows.tracks :
            \/ \E set \in [{"muted"} -> BOOLEAN] \union [{"index"} -> Indexes] :
                  AskedFor(r, [op |-> "updateTrack", project |-> p, track |-> t, set |-> set])
            \/ AskedFor(r, [op |-> "deleteTrack", project |-> p, track |-> t])

\* Where a move or a reorder puts a clip: at a start, on a track, or both.
Places == [{"start"} -> Starts] \union
          {[track |-> t] : t \in DOMAIN rows.tracks} \union
          {[track |-> t, start |-> s] : t \in DOMAIN rows.tracks, s \in Starts}

RequestClip(r) ==
    \E p \in Projects :
        \/ \E t \in DOMAIN rows.tracks, s \in Starts, l \in Lengths :
              AskedFor(r, [op |-> "createClip", project |-> p,
                           row |-> [track |-> t, start |-> s, len |-> l]])
        \/ \E c \in DOMAIN rows.clips :
            \/ \E s \in Starts, l \in Lengths :
                  AskedFor(r, [op |-> "updateClip", project |-> p, clip |-> c, start |-> s, len |-> l])
            \/ \E set \in Places :
                \/ AskedFor(r, [op |-> "moveClip", project |-> p, clip |-> c, set |-> set])
                \/ AskedFor(r, [op |-> "reorderClips", project |-> p,
                                 updates |-> {[id |-> c, set |-> set]}])
            \/ \E s \in Starts :
                  AskedFor(r, [op |-> "splitClip", project |-> p, clip |-> c, at |-> s])
            \/ AskedFor(r, [op |-> "deleteClip", project |-> p, clip |-> c])

\* softDeleteProject, from elsewhere: what passed the guard runs on.
ProjectDeleted(p) ==
    /\ p \in owned
    /\ owned' = owned \ {p}
    /\ UNCHANGED <<rows, durationMs, stage, call, measured, made, behind, outrun, displaced>>

-----------------------------------------------------------------------------
(* The look before the write.                                              *)

InProject(r, t) == t \in TracksOf(rows, call[r].project)

\* The next index of the kind is a count of the project's rows, unless the
\* request names one.
LookCount(r) ==
    /\ At(r, "createTrack", "look")
    /\ Goes(r, "write")
    /\ call' = [call EXCEPT ![r] = [op |-> "createTrack", project |-> @.project, kind |-> @.kind,
           index |-> CountTracks(TracksWith(rows, TracksOf(rows, @.project)), @.kind)]]

\* trackBelongsToProject; a move that names no track skips it.
LookedUp(r, found) ==
    IF found THEN Goes(r, "write") /\ UNCHANGED call ELSE AnswerEdit(r)
LookTrack(r) ==
    \/ At(r, "createClip", "look") /\ LookedUp(r, InProject(r, call[r].row.track))
    \/ At(r, "moveClip", "look") /\ LookedUp(r,
           "track" \in DOMAIN call[r].set => InProject(r, call[r].set.track))

\* The split's transaction reads its row and wants the cut strictly inside.
LookClip(r) ==
    /\ At(r, "splitClip", "look")
    /\ LET c == call[r].clip
       IN IF /\ c \in DOMAIN rows.clips
             /\ call[r].at > rows.clips[c].start
             /\ call[r].at < rows.clips[c].start + rows.clips[c].len
          THEN /\ Goes(r, "write")
               /\ call' = [call EXCEPT ![r] = [op |-> "splitClip", project |-> @.project,
                                                clip |-> c, at |-> @.at, seen |-> rows.clips[c]]]
          ELSE AnswerEdit(r)

Look(r) ==
    /\ LookCount(r) \/ LookTrack(r) \/ LookClip(r)
    /\ UNCHANGED <<rows, durationMs, owned, measured, made, behind, outrun, displaced>>

-----------------------------------------------------------------------------
(* The write.  A row that is gone, a taken index and a foreign key without *)
(* its row raise: the handler ends there, with nothing written.            *)

\* The projects whose end the rows t would move.
MovedBy(t) == {p \in Projects : EndOf(t, p) # EndOf(rows, p)}

Writes(r, t) ==
    /\ rows' = t
    /\ IF call[r].op \in Recomputing THEN Goes(r, "measure") /\ UNCHANGED call
                                     ELSE AnswerEdit(r)
    /\ behind' = behind \union {q \in Editing : stage[q] = "store" /\ call[q].project \in MovedBy(t)}
    /\ displaced' = displaced \union (MovedBy(t) \ {call[r].project})

Raises(r) == AnswerEdit(r) /\ UNCHANGED <<rows, behind, displaced>>

\* The left half keeps its row and its start, whatever they are by now.
SplitRows(c, right, seen, at) ==
    LET cut == at - seen.start
    IN ClipCreated(ClipPatched(rows, c, [rows.clips[c] EXCEPT !.len = cut]), right,
                   [track |-> seen.track, start |-> at, len |-> seen.len - cut])

OrRaises(r, exists, t) == IF exists THEN Writes(r, t) ELSE Raises(r)

IndexFree(r, without, kind, index) ==
    TrackFits(TracksWith(rows, TracksOf(rows, call[r].project) \ without), kind, index)

\* The unique index refuses an index two requests counted.
CreateTrack(r) ==
    LET row == [project |-> call[r].project, kind |-> call[r].kind, index |-> call[r].index,
                muted |-> FALSE] IN
    /\ At(r, "createTrack", "write")
    /\ IF IndexFree(r, {}, call[r].kind, call[r].index)
       THEN \E t \in NewTrackId : Writes(r, TrackCreated(rows, t, row))
       ELSE Raises(r)

\* updateMany and deleteMany where the track is the project's.
UpdateTrack(r) ==
    LET t == call[r].track
        set == call[r].set IN
    /\ At(r, "updateTrack", "write")
    /\ OrRaises(r, /\ InProject(r, t)
                   /\ "index" \in DOMAIN set => IndexFree(r, {t}, rows.tracks[t].kind, set.index),
                TrackUpdated(rows, t, set))

DeleteTrack(r) ==
    /\ At(r, "deleteTrack", "write")
    /\ OrRaises(r, InProject(r, call[r].track), TrackDeleted(rows, call[r].track))

CreateClip(r) ==
    /\ At(r, "createClip", "write")
    /\ IF call[r].row.track \in DOMAIN rows.tracks
       THEN \E c \in NewClipId : Writes(r, ClipCreated(rows, c, call[r].row))
       ELSE Raises(r)

\* From here on any project's clip: where: { id }.
IsClip(c) == c \in DOMAIN rows.clips

UpdateClip(r) ==
    LET c == call[r].clip IN
    /\ At(r, "updateClip", "write")
    /\ OrRaises(r, IsClip(c), ClipPatched(rows, c,
          [rows.clips[c] EXCEPT !.start = call[r].start, !.len = call[r].len]))

MoveClip(r) ==
    LET updates == {[id |-> call[r].clip, set |-> call[r].set]} IN
    /\ At(r, "moveClip", "write")
    /\ OrRaises(r, CanReorder(rows, updates), Reordered(rows, updates))

SplitClip(r) ==
    LET c == call[r].clip IN
    /\ At(r, "splitClip", "write")
    /\ IF IsClip(c) /\ call[r].seen.track \in DOMAIN rows.tracks
       THEN \E right \in NewClipId : Writes(r, SplitRows(c, right, call[r].seen, call[r].at))
       ELSE Raises(r)

DeleteClip(r) ==
    LET c == call[r].clip IN
    /\ At(r, "deleteClip", "write")
    /\ OrRaises(r, IsClip(c), ClipDeleted(rows, c))

ReorderClips(r) ==
    /\ At(r, "reorderClips", "write")
    /\ OrRaises(r, CanReorder(rows, call[r].updates), Reordered(rows, call[r].updates))

Write(r) ==
    /\ \/ CreateTrack(r) \/ UpdateTrack(r) \/ DeleteTrack(r)
       \/ CreateClip(r) \/ UpdateClip(r) \/ MoveClip(r) \/ SplitClip(r) \/ DeleteClip(r)
       \/ ReorderClips(r)
    /\ UNCHANGED <<durationMs, owned, measured, made, outrun>>

-----------------------------------------------------------------------------
(* recomputeProjectDuration: one statement measures, another stores.       *)

Measure(r) ==
    /\ stage[r] = "measure"
    /\ Goes(r, "store")
    /\ measured' = [measured EXCEPT ![r] = EndOf(rows, call[r].project)]
    /\ UNCHANGED <<rows, durationMs, owned, call, made, behind, outrun, displaced>>

StoreDuration(r) ==
    LET p == call[r].project IN
    /\ stage[r] = "store"
    /\ durationMs' = [durationMs EXCEPT ![p] = measured[r]]
    /\ measured' = [measured EXCEPT ![r] = 0]
    /\ AnswerEdit(r)
    /\ IF r \in behind THEN outrun' = outrun \union {p} /\ UNCHANGED displaced
                     ELSE outrun' = outrun \ {p} /\ displaced' = displaced \ {p}
    /\ behind' = behind \ {r}
    /\ UNCHANGED <<rows, owned, made>>

\* The process dies, or a statement fails: what was written stays written.
EditDies(r) ==
    /\ stage[r] # "idle"
    /\ AnswerEdit(r)
    /\ measured' = [measured EXCEPT ![r] = 0]
    /\ outrun' = IF stage[r] \in {"measure", "store"} THEN outrun \union {call[r].project}
                                                     ELSE outrun
    /\ behind' = behind \ {r}
    /\ UNCHANGED <<rows, durationMs, owned, made, displaced>>

TimelineNext ==
    \/ \E p \in Projects : ProjectDeleted(p)
    \/ \E r \in Editing :
        \/ RequestTrack(r) \/ RequestClip(r)
        \/ Look(r) \/ Write(r) \/ Measure(r) \/ StoreDuration(r)
        \/ EditDies(r)

TimelineSpec == TimelineInit /\ [][TimelineNext]_tlVars

-----------------------------------------------------------------------------

\* The cached duration of a project, by which exports are charged, is the end of
\* its last clip once no request is about to store one - unless the last one to
\* store had measured before another's write, a request was cut off after its
\* write, or a request made under another project moved this one's end (clips
\* are written by id, the duration recomputed is that of the request's project).
\* Every other move of the end is followed by its recomputation, and the next
\* undisturbed edit repairs a stale duration (recomputeProjectDuration).
DurationFollowsClips ==
    \A p \in Projects :
        (/\ \A r \in Editing : stage[r] \in {"measure", "store"} => call[r].project # p
         /\ p \notin outrun \union displaced) => durationMs[p] = EndOf(rows, p)

\* "Recalculate the project's cached duration from its clips", as the comment on
\* recomputeProjectDuration says: with every edit answered, and none overtaken or
\* cut off, the cached duration is that of the clips.
DurationIsThatOfTheClips ==
    (\A r \in Editing : stage[r] = "idle") =>
        \A p \in Projects \ outrun : durationMs[p] = EndOf(rows, p)
=============================================================================
