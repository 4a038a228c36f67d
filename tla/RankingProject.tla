--------------------------- MODULE RankingProject ---------------------------
(***************************************************************************)
(* One ranking project: concurrent requests that edit Project.settingsJson *)
(* under its row lock (mutateSettings) and concurrent bakes that replace   *)
(* the clips of its timeline in a READ COMMITTED transaction               *)
(* (bakeTimeline).  Each database statement that reads, waits or commits   *)
(* is a step.                                                              *)
(*                                                                         *)
(* The clips of a bake are Layout of the settings it read, so the timeline *)
(* is kept as the set of bakes whose clips are on it.                      *)
(***************************************************************************)
EXTENDS RankingLayout

CONSTANTS
    Candidates,  \* candidate ids, never drawn twice (randomUUID)
    Data,        \* what a candidate's fields may hold
    Metas,       \* project-wide settings: order, orderMode, reveal, header
    Editors,     \* requests that edit the settings
    Bakers,      \* bake requests
    Nobody,
    MaxEdits     \* bound: edits committed

ASSUME NobodyAssumption == Nobody \notin Editors
ASSUME MaxEditsAssumption == MaxEdits \in Nat
ASSUME CandidatesAssumption == IsFiniteSet(Candidates) /\ Null \notin Candidates
ASSUME DataAssumption ==
    Data \subseteq [score : Int, trimStart : Nat, trimEnd : Nat \union {Null}, asset : BOOLEAN,
                    assetMs : Nat \union {Null}, narrated : BOOLEAN,
                    narrationMs : Nat \union {Null}, numbered : BOOLEAN]
ASSUME MetasAssumption ==
    Metas \subseteq [order : {"asc", "desc"}, orderMode : {"custom", "score"},
                     reveal : {"countdown", "topfirst"}, header : BOOLEAN]

VARIABLES
    settings,   \* Project.settingsJson
    duration,   \* Project.durationMs
    lock,       \* the editor that holds the project's row lock, or Nobody
    used,       \* ids drawn so far
    editor,     \* editing requests
    overlay,    \* is there an OVERLAY track?
    timeline,   \* bakes whose clips are on the timeline
    baker,      \* bake requests
    edits,      \* history: edits committed
    serial      \* history: the committed edits applied one after the other

vars == <<settings, duration, lock, used, editor, overlay, timeline, baker, edits, serial>>
editing == <<settings, lock, used, editor, edits, serial>>
baking == <<duration, overlay, timeline, baker>>

Candidate == [id: Candidates, data: Data]
Settings(candidates, meta) ==
    [candidates |-> candidates, order |-> meta.order, orderMode |-> meta.orderMode,
     reveal |-> meta.reveal, header |-> meta.header]

Ids(cs) == {cs[k].id : k \in DOMAIN cs}

-----------------------------------------------------------------------------
(* The functions mutateSettings applies.  An edit is a request with its     *)
(* arguments.                                                               *)

IdLists == UNION {[1..n -> Candidates] : n \in 1..Cardinality(Candidates)}

Edit == [op: {"add", "update"}, id: Candidates, data: Data]
   \union [op: {"remove"}, id: Candidates]
   \union [op: {"reorder"}, ids: IdLists]
   \union [op: {"meta"}, meta: Metas]
NoEdit == [op |-> "none"]

Added(cs, e) == Append(cs, [id |-> e.id, data |-> e.data])

Updated(cs, e) == [k \in DOMAIN cs |-> IF cs[k].id = e.id THEN [cs[k] EXCEPT !.data = e.data]
                                                          ELSE cs[k]]

\* The candidates with one of the ids, in their stored order.
Kept(cs, ids) ==
    LET kept[n \in 0..Len(cs)] ==
            IF n = 0 THEN <<>>
            ELSE IF cs[n].id \in ids THEN Append(kept[n - 1], cs[n]) ELSE kept[n - 1]
    IN  kept[Len(cs)]

Removed(cs, e) == Kept(cs, Ids(cs) \ {e.id})

\* The listed candidates in the order of their first mention, unknown ids
\* skipped.
Listed(cs, ids) ==
    LET with(id) == CHOOSE c \in Range(cs) : c.id = id
        listed[n \in 0..Len(ids)] ==
            IF n = 0 THEN <<>>
            ELSE IF ids[n] \in Ids(cs) \ Ids(listed[n - 1])
                 THEN Append(listed[n - 1], with(ids[n])) ELSE listed[n - 1]
    IN  listed[Len(ids)]

\* Mutant: candidates the list does not mention are dropped.
ReorderedDropping(cs, e) == Listed(cs, e.ids)

\* Candidates the list does not mention follow in their stored order.
Reordered(cs, e) ==
    Listed(cs, e.ids) \o Kept(cs, Ids(cs) \ Range(e.ids))

Apply(s, e) ==
    CASE e.op = "add"     -> [s EXCEPT !.candidates = Added(s.candidates, e)]
      [] e.op = "update"  -> [s EXCEPT !.candidates = Updated(s.candidates, e)]
      [] e.op = "remove"  -> [s EXCEPT !.candidates = Removed(s.candidates, e)]
      [] e.op = "reorder" -> [s EXCEPT !.candidates = Reordered(s.candidates, e)]
      [] e.op = "meta"    -> Settings(s.candidates, e.meta)

-----------------------------------------------------------------------------
NothingSeen == [candidates |-> <<>>]
IdleEditor == [pc |-> "idle", edit |-> NoEdit, seen |-> NothingSeen]
IdleBaker == [pc |-> "idle", seen |-> NothingSeen, past |-> {}, snapshot |-> {}, deleted |-> {},
              made |-> FALSE]

Finished == {"done", "failed"}
Open == {"tracks", "delete", "deleting", "insert"}
BakerPc == {"idle", "read"} \union Open \union Finished

TypeOK ==
    /\ Ids(settings.candidates) \subseteq used
    /\ used \subseteq Candidates
    /\ \A k \in DOMAIN settings.candidates : settings.candidates[k] \in Candidate
    /\ duration \in Nat
    /\ lock \in Editors \union {Nobody}
    /\ \A e \in Editors : editor[e].pc \in {"idle", "locked"}
    /\ overlay \in BOOLEAN
    /\ timeline \subseteq Bakers
    /\ \A b \in Bakers : /\ baker[b].pc \in BakerPc
                         /\ baker[b].snapshot \union baker[b].deleted \subseteq Bakers
    /\ edits \in 0..MaxEdits

\* createRankingProject: no candidate, custom order, no OVERLAY track.
Init ==
    /\ \E order \in {"asc", "desc"} :
          settings = Settings(<<>>, [order |-> order, orderMode |-> "custom",
                                     reveal |-> "countdown", header |-> FALSE])
    /\ duration = 0
    /\ lock = Nobody
    /\ used = {}
    /\ editor = [e \in Editors |-> IdleEditor]
    /\ overlay = FALSE
    /\ timeline = {}
    /\ baker = [b \in Bakers |-> IdleBaker]
    /\ edits = 0
    /\ serial = settings

\* Mutant: the row is read without FOR UPDATE.
SelectUnlocked(e, edit) ==
    /\ editor[e].pc = "idle"
    /\ edits < MaxEdits
    /\ edit.op = "add" => edit.id \notin used
    /\ used' = IF edit.op = "add" THEN used \union {edit.id} ELSE used
    /\ editor' = [editor EXCEPT ![e] = [pc |-> "locked", edit |-> edit, seen |-> settings]]
    /\ UNCHANGED <<settings, lock, edits, serial>> /\ UNCHANGED baking

\* SELECT ... FOR UPDATE, which waits for the lock of another editor.
SelectForUpdate(e, edit) ==
    /\ editor[e].pc = "idle"
    /\ lock = Nobody
    /\ edits < MaxEdits
    /\ edit.op = "add" => edit.id \notin used
    /\ lock' = e
    /\ used' = IF edit.op = "add" THEN used \union {edit.id} ELSE used
    /\ editor' = [editor EXCEPT ![e] = [pc |-> "locked", edit |-> edit, seen |-> settings]]
    /\ UNCHANGED <<settings, edits, serial>> /\ UNCHANGED baking

\* The function, the UPDATE and the commit.
Commit(e) ==
    LET edit == editor[e].edit
        s == editor[e].seen
    IN  /\ editor[e].pc = "locked"
        /\ edit.op = "update" => edit.id \in Ids(s.candidates)
        /\ settings' = Apply(s, edit)
        /\ serial' = Apply(serial, edit)
        /\ lock' = Nobody
        /\ editor' = [editor EXCEPT ![e] = IdleEditor]
        /\ edits' = edits + 1
        /\ UNCHANGED used /\ UNCHANGED baking

\* updateCandidate finds no such candidate, or the transaction is cut off.
Rollback(e) ==
    /\ editor[e].pc = "locked"
    /\ lock' = Nobody
    /\ editor' = [editor EXCEPT ![e] = IdleEditor]
    /\ UNCHANGED <<settings, used, edits, serial>> /\ UNCHANGED baking

-----------------------------------------------------------------------------
(* bakeTimeline.                                                            *)

\* guard and readSettings, before the transaction.
BakeRead(b) ==
    /\ baker[b].pc = "idle"
    /\ baker' = [baker EXCEPT ![b] = [@ EXCEPT !.pc = "read", !.seen = settings,
                    !.past = {c \in Bakers : baker[c].pc \in Finished}]]
    /\ UNCHANGED <<duration, overlay, timeline>> /\ UNCHANGED editing

\* BEGIN and the SELECT of the tracks; an OVERLAY track is missing until some
\* bake has made it.
BakeTracks(b) ==
    /\ baker[b].pc = "read"
    /\ baker' = [baker EXCEPT ![b].pc = IF overlay THEN "delete" ELSE "tracks"]
    /\ UNCHANGED <<duration, overlay, timeline>> /\ UNCHANGED editing

\* ensureTrack: the unique index on (projectId, kind, index) makes the INSERT
\* wait for another transaction's, and fail once that one has committed.
MakeOverlay(b) ==
    /\ baker[b].pc = "tracks"
    /\ ~ overlay
    /\ \A c \in Bakers \ {b} : ~ baker[c].made
    /\ baker' = [baker EXCEPT ![b] = [@ EXCEPT !.pc = "delete", !.made = TRUE]]
    /\ UNCHANGED <<duration, overlay, timeline>> /\ UNCHANGED editing

\* Mutant: old clips are not deleted.
DeleteForgotten(b) ==
    /\ baker[b].pc = "delete"
    /\ baker' = [baker EXCEPT ![b].pc = "deleting"]
    /\ UNCHANGED <<duration, overlay, timeline>> /\ UNCHANGED editing

\* DELETE: the statement looks for the clips committed when it starts, ...
DeleteStarts(b) ==
    /\ baker[b].pc = "delete"
    /\ baker' = [baker EXCEPT ![b] = [@ EXCEPT !.pc = "deleting", !.snapshot = timeline]]
    /\ UNCHANGED <<duration, overlay, timeline>> /\ UNCHANGED editing

HasClips(b) == Layout(baker[b].seen) # {}

\* ... waits for transactions that deleted any of them, and deletes those that
\* are still there.
DeleteEnds(b) ==
    /\ baker[b].pc = "deleting"
    /\ \A c \in Bakers \ {b} :
          \A d \in baker[b].snapshot \intersect baker[c].deleted : ~ HasClips(d)
    /\ baker' = [baker EXCEPT ![b] =
                    [@ EXCEPT !.pc = "insert", !.deleted = baker[b].snapshot \intersect timeline]]
    /\ UNCHANGED <<duration, overlay, timeline>> /\ UNCHANGED editing

\* Mutant: the cached duration is not recomputed.
BakeCommitsNoDuration(b) ==
    /\ baker[b].pc = "insert"
    /\ lock = Nobody
    /\ timeline' = (timeline \ baker[b].deleted) \union {b}
    /\ overlay' = (overlay \/ baker[b].made)
    /\ baker' = [baker EXCEPT ![b] = [@ EXCEPT !.pc = "done", !.made = FALSE, !.deleted = {},
                                               !.snapshot = {}]]
    /\ UNCHANGED duration /\ UNCHANGED editing

\* createMany, the UPDATE of the project row (which waits for an editor's
\* lock) and the commit.
BakeCommits(b) ==
    /\ baker[b].pc = "insert"
    /\ lock = Nobody
    /\ timeline' = (timeline \ baker[b].deleted) \union {b}
    /\ duration' = TotalMs(baker[b].seen)
    /\ overlay' = (overlay \/ baker[b].made)
    /\ baker' = [baker EXCEPT ![b] = [@ EXCEPT !.pc = "done", !.made = FALSE, !.deleted = {},
                                               !.snapshot = {}]]
    /\ UNCHANGED editing

\* A statement fails (the unique index, an asset deleted in the meantime) or
\* the process dies: the transaction is rolled back.
BakeFails(b) ==
    /\ baker[b].pc \in {"read"} \union Open
    /\ baker' = [baker EXCEPT ![b] = [IdleBaker EXCEPT !.pc = "failed",
                                                      !.past = baker[b].past]]
    /\ UNCHANGED <<duration, overlay, timeline>> /\ UNCHANGED editing

EditorStep(e) ==
    \/ \E edit \in Edit : SelectForUpdate(e, edit)
    \/ Commit(e)
    \/ Rollback(e)

BakerStep(b) ==
    \/ BakeRead(b) \/ BakeTracks(b) \/ MakeOverlay(b) \/ DeleteStarts(b)
    \/ DeleteEnds(b) \/ BakeCommits(b) \/ BakeFails(b)

Next ==
    \/ \E e \in Editors : EditorStep(e)
    \/ \E b \in Bakers : BakerStep(b)

Spec == Init /\ [][Next]_vars

-----------------------------------------------------------------------------
(* Properties.                                                             *)

\* ranking.service.ts, mutateSettings: concurrent edits do not drop each
\* other's changes; the settings are what the committed edits give when they
\* are applied one after the other.
NoEditIsLost == settings = serial

\* A candidate leaves the project only by a removal that names it: a reorder
\* with a stale, repeated or foreign list of ids loses and doubles none.
OnlyRemovalLosesCandidates ==
    [][LET before == Ids(settings.candidates)
           after == Ids(settings'.candidates)
       IN  /\ \A id \in before \ after : \E e \in Editors :
                 editor[e].edit.op = "remove" /\ editor[e].edit.id = id
           /\ Cardinality(after) = Len(settings'.candidates)]_vars

\* What a bake writes is sound: its clips lie within the duration it writes, those
\* of one track never overlap, the clips of one candidate start together, and the
\* numbers it shows are the places of the candidates in the order the project asks
\* for.
BakedLayoutSound ==
    \A b \in Bakers :
        baker[b].pc = "read" => ClipsFit(baker[b].seen) /\ RanksFollowOrder(baker[b].seen)

\* A bake that began after another had ended replaces the other's clips.
LaterBakeReplaces ==
    \A b, c \in timeline : b \notin baker[c].past

\* When bakes followed each other, the timeline holds the clips of one of
\* them, and the project's cached duration is the end of these clips.
BakesFollowEachOther ==
    \A b, c \in Bakers :
        \/ b = c \/ "idle" \in {baker[b].pc, baker[c].pc}
        \/ b \in baker[c].past \/ c \in baker[b].past

SerialBakesAgree ==
    BakesFollowEachOther =>
        /\ Cardinality(timeline) <= 1
        /\ \A b \in timeline : duration = TotalMs(baker[b].seen)

(* What the comments say and the code does not keep.                       *)

\* ranking.service.ts: "The generated timeline replaces existing clips on the
\* video / overlay tracks so re-baking is idempotent."
RebakeReplaces ==
    \A b, c \in timeline : HasClips(b) /\ HasClips(c) => b = c
=============================================================================
