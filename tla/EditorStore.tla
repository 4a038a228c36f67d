---------------------------- MODULE EditorStore -----------------------------
(***************************************************************************)
(* The timeline editor's store (editor-store.ts) and its command history   *)
(* (history.ts): the tracks as the user sees them, the edits, undo and     *)
(* redo.  Every edit is one synchronous update of the store.               *)
(*                                                                         *)
(* A track is [id, kind, index, muted, clips], a clip [id, start, in, out, *)
(* len], times in units.  muted stands for the flags of a track, title for *)
(* the project's fields.  The store draws a local id for what it creates;  *)
(* ids are numbers here, drawn from one counter, and 0 is undefined.       *)
(* Selection, zoom and playback are not kept.                              *)
(***************************************************************************)
EXTENDS Integers, Sequences, SequencesExt

CONSTANTS
    InitialTracks,  \* what the page loads
    FirstId,        \* ids from here on are not those of a row yet
    Deltas,         \* how far a drag moves or trims, in units
    Cuts,           \* positions of the playhead
    MinLen,         \* the shortest a trim leaves a clip (100 ms)
    HistoryLimit,   \* HISTORY_LIMIT
    MaxEdits        \* bound: edits, undos and redos

ASSUME StoreAssumption ==
    /\ Deltas \subseteq Int /\ Cuts \subseteq Nat
    /\ MinLen \in Nat \ {0} /\ HistoryLimit \in Nat \ {0} /\ MaxEdits \in Nat

Kinds == {"VIDEO", "AUDIO"}
Clip == [id : Nat, start : Nat, in : Nat, out : Int, len : Nat \ {0}]
Track == [id : Nat, kind : Kinds, index : Nat, muted : BOOLEAN, clips : Seq(Clip)]

ClipsOf(ts) == UNION {Range(ts[k].clips) : k \in DOMAIN ts}
ClipIdsOf(ts) == {c.id : c \in ClipsOf(ts)}
TrackIdsOf(ts) == {ts[k].id : k \in DOMAIN ts}

ASSUME InitialAssumption ==
    /\ InitialTracks \in Seq(Track)
    /\ FirstId \in Nat \ {0}

VARIABLES
    tracks,   \* the timeline
    title,    \* title and aspect ratio
    past,     \* history.past, the newest command last
    future,   \* history.future
    dirty,    \* something changed since the last save
    fresh,    \* ids from here on are unused
    edits     \* edits made

storeVars == <<tracks, title, past, future, dirty, fresh, edits>>

StoreTypeOK ==
    /\ tracks \in Seq(Track)
    /\ title \in 0..1
    /\ Len(past) <= HistoryLimit /\ Len(past) + Len(future) <= MaxEdits
    /\ dirty \in BOOLEAN
    /\ fresh \in Nat \ {0} /\ edits \in 0..MaxEdits

StoreInit ==
    /\ tracks = InitialTracks
    /\ title = 0
    /\ past = << >> /\ future = << >>
    /\ dirty = FALSE
    /\ fresh = FirstId
    /\ edits = 0

-----------------------------------------------------------------------------
(* history.ts and applyCommand.                                            *)

OnClips(ts, F(_)) == [k \in DOMAIN ts |-> [ts[k] EXCEPT !.clips = F(@)]]
OnClip(ts, id, F(_)) ==
    LET Each(clips) == [j \in DOMAIN clips |-> IF clips[j].id = id THEN F(clips[j]) ELSE clips[j]]
    IN OnClips(ts, Each)
OnTrack(ts, id, F(_)) == [k \in DOMAIN ts |-> IF ts[k].id = id THEN F(ts[k]) ELSE ts[k]]

WithClip(ts, track, clip) ==
    LET Put(t) == [t EXCEPT !.clips = Append(@, clip)] IN OnTrack(ts, track, Put)

\* Tracks or clips without those of an id: filter().
Without(s, id) ==
    LET kept[n \in 0..Len(s)] ==
            IF n = 0 THEN << >>
            ELSE IF s[n].id = id THEN kept[n - 1] ELSE Append(kept[n - 1], s[n])
    IN kept[Len(s)]
WithoutClip(ts, track, id) ==
    LET Cut(t) == [t EXCEPT !.clips = Without(@, id)] IN OnTrack(ts, track, Cut)

AtLeast(low, x) == IF x < low THEN low ELSE x

Trimmed(c, edge, d) ==
    IF edge = "start"
    THEN [c EXCEPT !.in = AtLeast(0, @ + d), !.start = AtLeast(0, @ + d),
                   !.len = AtLeast(MinLen, @ - d)]
    ELSE [c EXCEPT !.out = @ + d, !.len = AtLeast(MinLen, @ + d)]

\* push: the oldest command falls out, and what was undone cannot be redone.
Pushed(cmd) ==
    LET all == Append(past, cmd)
    IN IF Len(all) > HistoryLimit THEN Tail(all) ELSE all

Invert(cmd) ==
    CASE cmd.type = "MOVE" -> [cmd EXCEPT !.from = cmd.to, !.to = cmd.from]
      [] cmd.type = "TRIM" -> [cmd EXCEPT !.delta = -@]
      [] cmd.type = "CREATE" -> [cmd EXCEPT !.type = "DELETE"]
      [] cmd.type = "DELETE" -> [cmd EXCEPT !.type = "CREATE"]
      [] cmd.type = "CREATE_TRACK" -> [cmd EXCEPT !.type = "DELETE_TRACK"]
      [] cmd.type = "DELETE_TRACK" -> [cmd EXCEPT !.type = "CREATE_TRACK"]

\* An undo comes here with the inverse and is turned round once more; the
\* track commands have no case.
Applied(ts, cmd, kind) ==
    CASE cmd.type = "MOVE" ->
            LET Place(c) == [c EXCEPT !.start = IF kind = "undo" THEN cmd.from ELSE cmd.to]
            IN OnClip(ts, cmd.clip, Place)
      [] cmd.type = "TRIM" ->
            LET Trim(c) == Trimmed(c, cmd.edge, IF kind = "undo" THEN -cmd.delta ELSE cmd.delta)
            IN OnClip(ts, cmd.clip, Trim)
      [] cmd.type \in {"CREATE", "DELETE"} ->
            IF (cmd.type = "CREATE") = (kind # "undo")
            THEN WithClip(ts, cmd.track, cmd.clip)
            ELSE WithoutClip(ts, cmd.track, cmd.clip.id)
      [] OTHER -> ts

-----------------------------------------------------------------------------
(* The edits.                                                              *)

Changed(ts) ==
    /\ edits < MaxEdits /\ edits' = edits + 1
    /\ tracks' = ts
    /\ dirty' = TRUE

Does(cmd, ts) ==
    /\ Changed(ts)
    /\ past' = Pushed(cmd) /\ future' = << >>
    /\ UNCHANGED title

Unrecorded(ts) == Changed(ts) /\ UNCHANGED <<title, past, future>>

\* Where find() finds the clip: its track and its place there.
TrackWith(id) == SelectInSeq(tracks, LAMBDA t : \E j \in DOMAIN t.clips : t.clips[j].id = id)
FoundClip(id) ==
    LET clips == tracks[TrackWith(id)].clips
    IN clips[SelectInSeq(clips, LAMBDA c : c.id = id)]

MoveClip(id, d) ==
    LET start == FoundClip(id).start
        cmd == [type |-> "MOVE", clip |-> id, from |-> start, to |-> AtLeast(0, start + d)]
    IN Does(cmd, Applied(tracks, cmd, "do")) /\ UNCHANGED fresh

TrimClip(id, edge, d) ==
    LET cmd == [type |-> "TRIM", clip |-> id, edge |-> edge, delta |-> d]
    IN Does(cmd, Applied(tracks, cmd, "do")) /\ UNCHANGED fresh

\* The id of a right half is that of its clip and the time.
Halves(c, p) ==
    <<[c EXCEPT !.len = p - c.start, !.out = c.in + (p - c.start)],
      [c EXCEPT !.id = fresh + c.id, !.start = p, !.len = @ - (p - c.start),
                !.in = @ + (p - c.start)]>>
Split(clips, c, p) ==
    LET done[j \in 0..Len(clips)] ==
            IF j = 0 THEN << >>
            ELSE done[j - 1] \o (IF clips[j].id = c.id THEN Halves(c, p) ELSE <<clips[j]>>)
    IN done[Len(clips)]

Under(p, c) == c.start < p /\ p < c.start + c.len

\* Every clip under the playhead is cut, on the tracks of its track's id; the
\* history hears nothing of it.
SplitTrack(ts, t, p) ==
    LET Cut(c, u) == [u EXCEPT !.clips = Split(@, c, p)]
        done[j \in 0..Len(t.clips)] ==
            IF j = 0 THEN ts
            ELSE IF Under(p, t.clips[j])
                 THEN OnTrack(done[j - 1], t.id, LAMBDA u : Cut(t.clips[j], u))
                 ELSE done[j - 1]
    IN done[Len(t.clips)]

SplitClipAtPlayhead(p) ==
    LET done[k \in 0..Len(tracks)] ==
            IF k = 0 THEN tracks ELSE SplitTrack(done[k - 1], tracks[k], p)
    IN /\ \E c \in ClipsOf(tracks) : Under(p, c)
       /\ Unrecorded(done[Len(tracks)])
       /\ fresh' = 2 * fresh

DeleteClip(id) ==
    LET cmd == [type |-> "DELETE", track |-> tracks[TrackWith(id)].id, clip |-> FoundClip(id)]
    IN Does(cmd, Applied(tracks, cmd, "do")) /\ UNCHANGED fresh

\* The first track of the kind, after its last clip; the first track at 0
\* when there is none.
AddClip(kind) ==
    LET k == SelectInSeq(tracks, LAMBDA t : t.kind = kind)
        track == IF k = 0 THEN tracks[1].id ELSE tracks[k].id
        trailing == IF k = 0 THEN 0
                    ELSE Max({0} \union {c.start + c.len : c \in Range(tracks[k].clips)})
        clip == [id |-> fresh, start |-> trailing, in |-> 0, out |-> MinLen, len |-> MinLen]
        cmd == [type |-> "CREATE", track |-> track, clip |-> clip]
    IN /\ tracks # << >>
       /\ Does(cmd, Applied(tracks, cmd, "do"))
       /\ fresh' = fresh + 1

CreateTrack(kind) ==
    LET track == [id |-> fresh, kind |-> kind, muted |-> FALSE, clips |-> << >>,
                  index |-> Cardinality({k \in DOMAIN tracks : tracks[k].kind = kind})]
    IN /\ Does([type |-> "CREATE_TRACK", track |-> track], Append(tracks, track))
       /\ fresh' = fresh + 1

RemoveTrack(t) ==
    /\ Does([type |-> "DELETE_TRACK", track |-> t], Without(tracks, t.id))
    /\ UNCHANGED fresh

ToggleTrack(t) ==
    LET Flip(u) == [u EXCEPT !.muted = ~@]
    IN Unrecorded(OnTrack(tracks, t.id, Flip)) /\ UNCHANGED fresh

SetTitle ==
    /\ Changed(tracks)
    /\ title' = 1 - title
    /\ UNCHANGED <<past, future, fresh>>

Undo ==
    /\ past # << >>
    /\ Changed(Applied(tracks, Invert(Last(past)), "undo"))
    /\ past' = Front(past) /\ future' = Append(future, Last(past))
    /\ UNCHANGED <<title, fresh>>

Redo ==
    /\ future # << >>
    /\ Changed(Applied(tracks, Last(future), "redo"))
    /\ past' = Append(past, Last(future)) /\ future' = Front(future)
    /\ UNCHANGED <<title, fresh>>

Edit ==
    \/ \E id \in ClipIdsOf(tracks) :
        \/ \E d \in Deltas : MoveClip(id, d)
        \/ \E d \in Deltas, edge \in {"start", "end"} : TrimClip(id, edge, d)
        \/ DeleteClip(id)
    \/ \E p \in Cuts : SplitClipAtPlayhead(p)
    \/ \E kind \in Kinds : AddClip(kind) \/ CreateTrack(kind)
    \/ \E t \in Range(tracks) : RemoveTrack(t) \/ ToggleTrack(t)
    \/ SetTitle
    \/ Undo
    \/ Redo

-----------------------------------------------------------------------------

\* "Undo pops from the undo stack, applies the inverse" (history.ts): an undo
\* of the edit just made gives the timeline back as it was before it.  One
\* recorded edit is compared: the history is empty before it.
UndoRestores == [][(Undo /\ Len(past) = 1 /\ edits = 1) => tracks' = InitialTracks]_storeVars

\* The comment of the schema on Clip.outMs, "outMs - inMs == durationMs *
\* speed": what is cut out of the source is as long as the clip.
WindowIsAsLongAsTheClip == \A c \in ClipsOf(tracks) : c.out - c.in = c.len
=============================================================================
