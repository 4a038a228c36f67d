------------------------------ MODULE Autosave ------------------------------
(***************************************************************************)
(* The editor's autosave (timeline-sync.ts) between its store and the rows *)
(* of the timeline API: the dirty flag arms a timer, the timer starts a    *)
(* flush, the flush compares the store with the last snapshot and sends    *)
(* the differences one request after the other, and the user goes on       *)
(* editing meanwhile.                                                      *)
(*                                                                         *)
(* A request may be refused (an answer that is not ok: fetch resolves) or  *)
(* lost, before or after the API did its work (fetch rejects).  The user   *)
(* may leave the page and open it again, or that of another project: the   *)
(* module's variables and the store live on, one of each for all projects. *)
(***************************************************************************)
EXTENDS EditorStore, TimelineRows

CONSTANTS
    Projects,      \* the user's projects
    FirstProject,  \* the one whose page is open at the start, on InitialTracks
    OtherTracks,   \* the tracks of the other projects
    ProjectOf,     \* the project of each of these tracks
    MaxTrouble     \* bound: requests refused or lost, and times the page is left

AllTracks == InitialTracks \o OtherTracks

ASSUME TroubleAssumption == MaxTrouble \in Nat
ASSUME ProjectsAssumption ==
    /\ FirstProject \in Projects
    /\ OtherTracks \in Seq(Track)
    /\ ProjectOf \in [TrackIdsOf(AllTracks) -> Projects]
    /\ \A k \in DOMAIN AllTracks :
          ProjectOf[AllTracks[k].id] = FirstProject <=> k \in DOMAIN InitialTracks
\* Ids are never given twice, and the index of a track is its own.
ASSUME AllTracksAssumption ==
    /\ TrackIdsOf(AllTracks) \intersect ClipIdsOf(AllTracks) = {}
    /\ TrackIdsOf(AllTracks) \union ClipIdsOf(AllTracks) \subseteq 1..(FirstId - 1)
    /\ \A k, m \in DOMAIN AllTracks :
          LET t == AllTracks[k]
              u == AllTracks[m]
          IN /\ t.id = u.id => k = m
             /\ (/\ ProjectOf[t.id] = ProjectOf[u.id]
                 /\ t.kind = u.kind /\ t.index = u.index) => k = m
             /\ \A i \in DOMAIN t.clips, j \in DOMAIN u.clips :
                   t.clips[i].id = u.clips[j].id => k = m /\ i = j

VARIABLES
    project,   \* projectId, the store's
    snapshot,  \* lastSnapshot
    timer,     \* pendingTimer: the project it is armed for, if it is
    flight,    \* inFlight: the project, the snapshot being saved, what is left to send
    status,    \* saveStatus
    mounted,   \* the page is open
    rendered,  \* the page the server has rendered and the browser has not opened yet
    rows,      \* the tracks and clips in the database
    owner,     \* the project of every track there ever was
    rowTitle,  \* the fields of each project there
    faults,    \* requests refused or lost so far
    leaves,    \* times the page was left
    origin,    \* history: the store's id of what a row was created from
    dropped,   \* history: ids whose request was answered with an error since the page opened
    removed,   \* history: ids the user took out of the store
    missed,    \* history: there were edits while the last flush was under way
    crossed,   \* history: a page was opened during a flush
    stale,     \* history: the page was opened on something else than what was stored then
    tried,     \* history: what flushes that failed since the last save were to change
    reverted   \* history: of what had been tried, what was put back before the retry

netVars == <<rows, owner, rowTitle, faults, origin, dropped>>
saveVars == <<project, snapshot, timer, flight, status, mounted, rendered, leaves, removed,
              missed, crossed, stale, tried, reverted>>
editorVars == <<storeVars, netVars, saveVars>>

Undefined == 0   \* the id of an answer that carries none
Grounded == [busy |-> FALSE, project |-> FirstProject, todo |-> {}, moves |-> {},
             next |-> [title |-> 0, tracks |-> << >>]]

AutosaveTypeOK ==
    /\ StoreTypeOK
    /\ snapshot.tracks \in Seq(Track) /\ snapshot.title \in 0..1
    /\ timer \subseteq Projects /\ mounted \in BOOLEAN /\ flight.busy \in BOOLEAN
    /\ project \in Projects /\ flight.project \in Projects
    /\ status \in {"idle", "saving", "saved", "error"}
    /\ \A c \in DOMAIN rows.clips : rows.clips[c].track \in DOMAIN rows.tracks
    /\ (DOMAIN rows.tracks \union DOMAIN rows.clips) \subseteq 1..(fresh - 1)
    /\ DOMAIN rows.tracks \subseteq DOMAIN owner /\ rowTitle \in [Projects -> 0..1]
    /\ faults + leaves \in 0..MaxTrouble

Attributes(track) == [kind |-> track.kind, index |-> track.index, muted |-> track.muted]
RowOf(clip, track) == [track |-> track, start |-> clip.start, in |-> clip.in, out |-> clip.out, len |-> clip.len]

\* Tracks and clips by id; of several with one id the last counts.
TrackAt(ts, id) == Max({k \in DOMAIN ts : ts[k].id = id})
HolderAt(ts, id) == Max({k \in DOMAIN ts : \E c \in Range(ts[k].clips) : c.id = id})
LastClip(clips, id) == clips[Max({j \in DOMAIN clips : clips[j].id = id})]
RowsOf(ts) ==
    [tracks |-> [id \in TrackIdsOf(ts) |-> Attributes(ts[TrackAt(ts, id)])],
     clips |-> [id \in ClipIdsOf(ts) |->
        LET t == ts[HolderAt(ts, id)] IN RowOf(LastClip(t.clips, id), t.id)]]

\* What the pages may be loaded with at the start, and which of it is of project p.
InitialIds == TrackIdsOf(AllTracks) \union ClipIdsOf(AllTracks)
InitialIdsOf(p) ==
    UNION {{t.id} \union {c.id : c \in Range(t.clips)} :
              t \in {u \in Range(AllTracks) : ProjectOf[u.id] = p}}
Agree(f, g, id) ==
    /\ (id \in DOMAIN f) = (id \in DOMAIN g)
    /\ id \in DOMAIN f => f[id] = g[id]

\* The parts of these rows that are saved on their own, and the title.
Parts == (InitialIds \union {Undefined}) \X {1, 2}
PartsOf(p) == (InitialIdsOf(p) \union {Undefined}) \X {1, 2}
Body(row) == <<row.len, row.in, row.out>>

\* Part a of the rows r and the title t, and of a snapshot.
PartIn(r, t, a) ==
    IF a[1] = Undefined THEN t
    ELSE CASE a[1] \in DOMAIN r.tracks -> <<r.tracks[a[1]]>>
           [] a[1] \in DOMAIN r.clips ->
                 IF a[2] = 1 THEN Body(r.clips[a[1]]) ELSE <<r.clips[a[1]].start>>
           [] OTHER -> << >>
PartOf(s, a) == PartIn(RowsOf(s.tracks), s.title, a)

\* What two snapshots hold differently.
Differing(p, n) == {a \in Parts : PartOf(p, a) # PartOf(n, a)}

AutosaveInit ==
    /\ StoreInit
    /\ project = FirstProject
    /\ snapshot = [title |-> 0, tracks |-> InitialTracks]
    /\ timer = {} /\ flight = Grounded /\ status = "idle"
    /\ mounted = TRUE /\ rendered = {}
    /\ rows = RowsOf(AllTracks) /\ owner = ProjectOf
    /\ rowTitle = [p \in Projects |-> 0]
    /\ faults = 0 /\ leaves = 0
    /\ origin = [i \in {} |-> 0] /\ dropped = {} /\ removed = {}
    /\ missed = FALSE /\ crossed = FALSE /\ stale = FALSE
    /\ tried = {} /\ reverted = {}

-----------------------------------------------------------------------------
(* diffTracks: what to send, for a track from its place, for a clip by its *)
(* id.  The requests go out by kind of operation, in this order; those of  *)
(* one kind, which the code sends in the order of the store, in any order. *)

Operations == <<"title", "trackAdded", "trackUpdated", "trackRemoved",
                "clipCreated", "clipUpdated", "clipRemoved", "reorder">>

Requests(op, ids) == {[op |-> op, id |-> i, at |-> 0] : i \in ids}
TrackRequests(op, ts, places) == {[op |-> op, id |-> ts[k].id, at |-> k] : k \in places}
Placement(p, n) == [f \in {g \in {"track", "start"} : p[g] # n[g]} |-> n[f]]

\* The clips that are elsewhere now; one request carries them all.
Moves(prev, next) ==
    LET p == RowsOf(prev.tracks).clips
        n == RowsOf(next.tracks).clips
    IN {[id |-> i, set |-> Placement(p[i], n[i])] :
            i \in {c \in DOMAIN p \cap DOMAIN n : <<p[c].track, p[c].start>> # <<n[c].track, n[c].start>>}}

Diff(prev, next) ==
    LET p == RowsOf(prev.tracks)
        n == RowsOf(next.tracks)
        was == prev.tracks
        is == next.tracks
        c == DOMAIN p.clips \cap DOMAIN n.clips
    IN  Requests("title", IF prev.title # next.title THEN {Undefined} ELSE {})
        \union TrackRequests("trackAdded", is, {k \in DOMAIN is : is[k].id \notin DOMAIN p.tracks})
        \union TrackRequests("trackUpdated", is,
                  {k \in DOMAIN is : /\ is[k].id \in DOMAIN p.tracks
                                     /\ p.tracks[is[k].id] # Attributes(is[k])})
        \union TrackRequests("trackRemoved", was, {k \in DOMAIN was : was[k].id \notin DOMAIN n.tracks})
        \union Requests("clipCreated", DOMAIN n.clips \ DOMAIN p.clips)
        \union Requests("clipUpdated", {i \in c : Body(p.clips[i]) # Body(n.clips[i])})
        \union Requests("clipRemoved", DOMAIN p.clips \ DOMAIN n.clips)
        \union Requests("reorder", IF Moves(prev, next) # {} THEN {Undefined} ELSE {})

-----------------------------------------------------------------------------
(* The user.  The subscription hears of the dirty flag only when it turns; *)
(* a timer that is armed is cleared, whichever project it was for.         *)

Arms == timer' = IF dirty' /\ ~dirty THEN {project} ELSE timer

UserEdits ==
    /\ mounted
    /\ Edit
    /\ Arms
    /\ removed' = removed \union (TrackIdsOf(tracks) \ TrackIdsOf(tracks'))
                          \union (ClipIdsOf(tracks) \ ClipIdsOf(tracks'))
    /\ missed' = (missed \/ flight.busy)
    /\ UNCHANGED <<project, snapshot, flight, status, mounted, rendered, leaves, crossed, stale,
                   tried, reverted, netVars>>

\* The Save button.
SaveNow ==
    /\ mounted /\ ~dirty /\ edits < MaxEdits
    /\ edits' = edits + 1
    /\ dirty' = TRUE
    /\ Arms
    /\ UNCHANGED <<tracks, title, past, future, fresh, project, snapshot, flight, status, mounted,
                   rendered, leaves, removed, missed, crossed, stale, tried, reverted, netVars>>

\* The cleanup of startAutosave; a flush under way goes on.
Leave ==
    /\ mounted /\ faults + leaves < MaxTrouble
    /\ mounted' = FALSE /\ leaves' = leaves + 1
    /\ timer' = {}
    /\ UNCHANGED <<storeVars, netVars, project, snapshot, flight, status, rendered, removed,
                   missed, crossed, stale, tried, reverted>>

\* What GET /timeline answers: tracks by kind and index, clips by start.
Earlier(c, d) ==
    LET a == rows.clips[c].start
        b == rows.clips[d].start
    IN a < b \/ (a = b /\ c < d)
Above(t, u) ==
    LET a == rows.tracks[t]
        b == rows.tracks[u]
    IN (a.kind = "VIDEO" /\ b.kind = "AUDIO") \/ (a.kind = b.kind /\ a.index < b.index)

\* The members of S, each at the place the number of those before it gives it.
InOrder(S, Precedes(_, _)) ==
    LET place == [x \in S |-> 1 + Cardinality({y \in S : Precedes(y, x)})]
    IN [p \in 1..Cardinality(S) |-> CHOOSE x \in S : place[x] = p]

Plain(c) ==
    LET r == rows.clips[c]
    IN [id |-> c, start |-> r.start, in |-> r.in, out |-> r.out, len |-> r.len]
Full(t) ==
    LET r == rows.tracks[t]
        clips == InOrder({c \in DOMAIN rows.clips : rows.clips[c].track = t}, Earlier)
    IN [id |-> t, kind |-> r.kind, index |-> r.index, muted |-> r.muted,
        clips |-> [j \in DOMAIN clips |-> Plain(clips[j])]]
TracksOf(p) == {t \in DOMAIN rows.tracks : owner[t] = p}
Loaded(p) ==
    LET all == InOrder(TracksOf(p), Above) IN [k \in DOMAIN all |-> Full(all[k])]
PageOf(p) == [project |-> p, title |-> rowTitle[p], tracks |-> Loaded(p)]

\* What the page shows when the timeline cannot be read: tracks that are no rows.
Placeholders == <<
    [id |-> fresh, kind |-> "VIDEO", index |-> 0, muted |-> FALSE, clips |-> << >>],
    [id |-> fresh + 1, kind |-> "AUDIO", index |-> 0, muted |-> FALSE, clips |-> << >>]>>

\* The server renders the page of p, while another may still be open (of no
\* use when that cannot be left any more).
Load(p) ==
    /\ rendered = {}
    /\ \/ /\ mounted => faults + leaves < MaxTrouble
          /\ rendered' = {PageOf(p)}
          /\ UNCHANGED <<fresh, faults>>
       \/ /\ faults + leaves < MaxTrouble /\ faults' = faults + 1
          /\ rendered' = {[PageOf(p) EXCEPT !.tracks = Placeholders]}
          /\ fresh' = fresh + 2
    /\ UNCHANGED <<tracks, title, past, future, dirty, edits, rows, owner, rowTitle, origin,
                   dropped, project, snapshot, timer, flight, status, mounted, leaves, removed,
                   missed, crossed, stale, tried, reverted>>

\* hydrate and markInitialSnapshot, with what was rendered.
Open ==
    /\ ~mounted /\ mounted' = TRUE
    /\ \E page \in rendered :
        /\ project' = page.project
        /\ tracks' = page.tracks /\ title' = page.title
        /\ snapshot' = [title |-> page.title, tracks |-> page.tracks]
        /\ stale' = (page # PageOf(page.project))
    /\ rendered' = {}
    /\ past' = << >> /\ future' = << >>
    /\ dirty' = FALSE /\ status' = "idle"
    /\ crossed' = (crossed \/ flight.busy)
    /\ missed' = FALSE /\ dropped' = {} /\ tried' = {} /\ reverted' = {}
    /\ UNCHANGED <<fresh, edits, timer, flight, leaves, removed, rows, owner, rowTitle, faults,
                   origin>>

-----------------------------------------------------------------------------
(* The flush.  When the timer fires during another, it is armed again.     *)

\* Mutant: the snapshot is taken of the store as it is when the flush ends.
SavedAsShown(next) ==
    /\ snapshot' = [title |-> title, tracks |-> tracks]
    /\ dirty' = FALSE /\ status' = "saved" /\ flight' = Grounded /\ tried' = {}

\* Mutant: the snapshot is not taken.
SavedWithoutSnapshot(next) ==
    /\ UNCHANGED snapshot
    /\ dirty' = FALSE /\ status' = "saved" /\ flight' = Grounded /\ tried' = {}

\* markSaved, the end of the try block, whatever page is open now; the flag is
\* clear, so the finally block schedules nothing.
Saved(next) ==
    /\ snapshot' = next
    /\ dirty' = FALSE /\ status' = "saved" /\ flight' = Grounded /\ tried' = {}

Flush ==
    /\ ~flight.busy
    /\ timer' = {}
    /\ \E p \in timer :
        IF dirty /\ project = p
        THEN LET next == [title |-> title, tracks |-> tracks]
                 todo == Diff(snapshot, next)
             IN /\ missed' = FALSE
                /\ reverted' = reverted \union (tried \ Differing(snapshot, next))
                /\ IF todo = {}
                   THEN Saved(next)
                   ELSE /\ flight' = [busy |-> TRUE, project |-> p, todo |-> todo, next |-> next,
                                      moves |-> Moves(snapshot, next)]
                        /\ status' = "saving"
                        /\ UNCHANGED <<snapshot, dirty, tried>>
        ELSE UNCHANGED <<flight, snapshot, dirty, status, missed, reverted, tried>>
    /\ UNCHANGED <<tracks, title, past, future, fresh, edits, project, mounted, rendered, leaves,
                   removed, crossed, stale, netVars>>

Turn(op) == CHOOSE n \in DOMAIN Operations : Operations[n] = op
InTurn == {q \in flight.todo : \A r \in flight.todo : Turn(q.op) <= Turn(r.op)}
SentTrack(q) == Attributes(flight.next.tracks[q.at])
SentClip(q) == RowsOf(flight.next.tracks).clips[q.id]
TrackPatched(q) == [rows.tracks[q.id] EXCEPT !.index = SentTrack(q).index, !.muted = SentTrack(q).muted]

\* The tracks of the project under which the requests are made.
Its == TracksOf(flight.project)

\* What the API makes of the request q, a validation error included (outMs may
\* not be negative): whether it did it, and the rows then.  Track statements
\* are restricted to the project; clip statements but the first go by id.
Accepted(q) ==
    CASE q.op = "title" -> TRUE
      [] q.op = "trackAdded" ->
            TrackFits(TracksWith(rows, Its), SentTrack(q).kind, SentTrack(q).index)
      [] q.op = "trackUpdated" ->
            /\ q.id \in Its
            /\ TrackFits(TracksWith(rows, Its \ {q.id}), TrackPatched(q).kind, TrackPatched(q).index)
      [] q.op = "trackRemoved" -> q.id \in Its
      [] q.op = "clipCreated" -> SentClip(q).track \in Its /\ SentClip(q).out >= 0
      [] q.op = "clipUpdated" -> q.id \in DOMAIN rows.clips /\ SentClip(q).out >= 0
      [] q.op = "clipRemoved" -> q.id \in DOMAIN rows.clips
      [] q.op = "reorder" -> CanReorder(rows, flight.moves)

Served(q) ==
    CASE q.op = "title" -> rows
      [] q.op = "trackAdded" ->
            TrackCreated(rows, fresh, [SentTrack(q) EXCEPT !.muted = FALSE])
      [] q.op = "trackUpdated" -> TrackCreated(rows, q.id, TrackPatched(q))
      [] q.op = "trackRemoved" -> TrackDeleted(rows, q.id)
      [] q.op = "clipCreated" -> ClipCreated(rows, fresh, SentClip(q))
      [] q.op = "clipUpdated" ->
            ClipPatched(rows, q.id, [SentClip(q) EXCEPT !.track = rows.clips[q.id].track])
      [] q.op = "clipRemoved" -> ClipDeleted(rows, q.id)
      [] q.op = "reorder" -> Reordered(rows, flight.moves)

Creates(q) == q.op \in {"trackAdded", "clipCreated"}

Done(q) ==
    /\ Accepted(q)
    /\ rows' = Served(q)
    /\ rowTitle' = IF q.op = "title"
                   THEN [rowTitle EXCEPT ![flight.project] = flight.next.title]
                   ELSE rowTitle
    /\ owner' = IF q.op = "trackAdded" THEN With(owner, fresh, flight.project) ELSE owner
    /\ IF Creates(q)
       THEN fresh' = fresh + 1 /\ origin' = With(origin, fresh, q.id)
       ELSE UNCHANGED <<fresh, origin>>

NotDone == UNCHANGED <<rows, owner, rowTitle, fresh, origin>>

Refused(q) ==
    /\ NotDone
    /\ dropped' = dropped \union
         (IF q.op = "reorder" THEN {u.id : u \in flight.moves} ELSE {q.id})

\* Mutant: the new id goes to every track.
RewrittenEverywhere(q, id) ==
    IF q.op = "trackAdded"
    THEN [k \in DOMAIN tracks |-> [tracks[k] EXCEPT !.id = id]]
    ELSE tracks

\* What the store makes of the answer: the id of a created row goes to the
\* track that was sent, or to the clip that has it already (replaceClip).
Rewritten(q, id) ==
    CASE q.op = "trackAdded" ->
            LET Named(t) == [t EXCEPT !.id = id] IN OnTrack(tracks, q.id, Named)
      [] q.op = "clipCreated" ->
            LET r == SentClip(q)
                Same(c) == [id |-> id, start |-> r.start, in |-> r.in, out |-> r.out, len |-> r.len]
            IN OnClip(tracks, id, Same)
      [] OTHER -> tracks

Continues(q) ==
    IF flight.todo = {q} THEN Saved(flight.next)
    ELSE /\ flight' = [flight EXCEPT !.todo = @ \ {q}]
         /\ UNCHANGED <<snapshot, dirty, status, tried>>


\* The catch and the finally block: the next flush is scheduled for the same
\* project, in place of what another one has scheduled.
Fails ==
    /\ flight' = Grounded
    /\ status' = "error"
    /\ timer' = IF dirty THEN {flight.project} ELSE timer
    /\ tried' = tried \union Differing(snapshot, flight.next)
    /\ UNCHANGED <<snapshot, dirty, tracks>>

Unmoved ==
    UNCHANGED <<title, past, future, edits, project, mounted, rendered, leaves, removed, missed,
                crossed, stale, reverted>>

Answered ==
    /\ flight.busy /\ Unmoved /\ UNCHANGED <<timer, faults>>
    /\ \E q \in InTurn :
        /\ \/ Done(q) /\ tracks' = Rewritten(q, fresh) /\ UNCHANGED dropped
           \/ ~Accepted(q) /\ Refused(q) /\ tracks' = Rewritten(q, Undefined)
        /\ Continues(q)

Faulty == flight.busy /\ faults + leaves < MaxTrouble /\ faults' = faults + 1 /\ Unmoved

\* An answer that is not ok though the request was: only the SDK's call looks
\* at the status and throws.
AnsweredWithError ==
    /\ Faulty
    /\ \E q \in InTurn :
        /\ Refused(q)
        /\ IF q.op = "title" THEN Fails
           ELSE tracks' = Rewritten(q, Undefined) /\ Continues(q) /\ UNCHANGED timer

\* fetch rejects, before the API acted or after.
Lost ==
    /\ Faulty
    /\ \E q \in InTurn : Done(q) \/ NotDone
    /\ Fails
    /\ UNCHANGED dropped

AutosaveNext ==
    \/ UserEdits \/ SaveNow \/ Leave \/ Open
    \/ \E p \in Projects : Load(p)
    \/ Flush
    \/ Answered \/ AnsweredWithError \/ Lost

AutosaveSpec == AutosaveInit /\ [][AutosaveNext]_editorVars

-----------------------------------------------------------------------------

\* When the editor says "saved", the rows its project was loaded with are as
\* the user sees them, whatever was lost and sent again on the way: unless edits
\* were made during that flush, a request about the row was answered with an
\* error, what a failed flush had sent was put back before the retry, the page
\* was opened on what was no longer stored, or a page was opened in the middle
\* of a flush (timeline-sync.ts, flush and diffTracks).
SavedMeansStored ==
    (status = "saved" /\ ~flight.busy /\ ~dirty /\ ~missed /\ ~crossed /\ ~stale) =>
        /\ <<Undefined, 1>> \in reverted \/ rowTitle[project] = title
        /\ \A id \in InitialIdsOf(project) \ (dropped \union {a[1] : a \in reverted}) :
              Agree(RowsOf(tracks).clips, rows.clips, id)
              /\ Agree(RowsOf(tracks).tracks, rows.tracks, id)

\* Whatever fails, is repeated or is rewritten, and whichever pages are left and
\* opened, autosave deletes a row a project began with only when the user took
\* it out of the timeline, or when a page was once opened in the middle of a
\* flush (see BaselineIsOfThePage).
OnlyTheUserDeletes ==
    \A id \in InitialIds :
        (id \notin DOMAIN rows.clips /\ id \notin DOMAIN rows.tracks) => id \in removed \/ crossed

\* One clip of the store becomes two rows only when an answer was lost, when
\* an undo brought it back or when a page was opened during a flush: the
\* store never learns the row's id, so only the snapshot prevents it.
OneRowPerClip ==
    \A i, j \in DOMAIN rows.clips \cap DOMAIN origin :
        (i # j /\ origin[i] = origin[j]) => (faults > 0 \/ crossed \/ origin[i] \in removed)

\* Fairness: requests are answered, and a timer does not stay armed when no
\* flush is under way: it fires (Flush), unless the page is left.
TimerRings == timer # {} /\ ~flight.busy /\ timer' = {}
AutosaveFairness == WF_timer(TimerRings) /\ WF_editorVars(Answered)
AutosaveLive == AutosaveSpec /\ AutosaveFairness

\* The parts the open page shows otherwise than they are stored, but for those of
\* which a request was answered with an error, or what a failed flush had sent
\* was put back before the retry.
Excused(a) == a \in reverted \/ (a[1] \in dropped /\ a[1] # Undefined)
Unsaved ==
    LET shown == RowsOf(tracks)
    IN {a \in PartsOf(project) :
           PartIn(shown, title, a) # PartIn(rows, rowTitle[project], a) /\ ~Excused(a)}


\* "Snapshot the current server-persisted state so autosave has a baseline"
\* (timeline-sync.ts, markInitialSnapshot): the tracks the next save is compared
\* with are of the project whose page is open.
BaselineIsOfThePage ==
    mounted => \A t \in TrackIdsOf(snapshot.tracks) \intersect DOMAIN owner : owner[t] = project

\* "If more edits arrived during the flush, immediately schedule the next"
\* (timeline-sync.ts, the finally block): a clean editor shows what it saved.
EditsDuringFlushAreScheduled ==
    (mounted /\ status = "saved" /\ ~flight.busy /\ timer = {}) =>
        Differing(snapshot, [title |-> title, tracks |-> tracks]) = {}

\* "Rewrite the store's local id to the server-assigned one so future clip
\* mutations reference a real row" (timeline-sync.ts, on tracks): when every
\* request is answered and the user removes nothing, a track that was saved is
\* a row for as long as it is there.
TrackIdsAreRows ==
    (status = "saved" /\ ~flight.busy /\ ~dirty /\ ~missed /\ faults = 0 /\ removed = {}) =>
        TrackIdsOf(tracks) \subseteq DOMAIN rows.tracks
=============================================================================
