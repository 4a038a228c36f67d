--------------------------- MODULE RankingBuilder ---------------------------
(***************************************************************************)
(* The ranking builder of the web app (useRankingBuilder.ts): optimistic   *)
(* edits, two debounced patches, saves in flight, the write barrier that   *)
(* Generate waits for, and the refresh after a structural change.  The     *)
(* server answers concurrent requests in any order and may answer none.    *)
(*                                                                         *)
(* What the user edits is a cell (the project's meta data, the order, the  *)
(* fields of a candidate); its value is the number of the edit that wrote  *)
(* it, so a later value is a greater one.                                  *)
(***************************************************************************)
EXTENDS Naturals, FiniteSets

CONSTANTS
    Cands,       \* candidate ids
    FirstCands,  \* those the project has when the page opens
    MaxChanges   \* bound: edits and structural changes

ASSUME CandsAssumption == FirstCands \subseteq Cands /\ {"meta", "order"} \cap Cands = {}
ASSUME EditsAssumption == MaxChanges \in Nat

Cells == Cands \union {"meta", "order"}
Values == 0..MaxChanges
Unsent == 0      \* no patch of the cell is pending

VARIABLES
    ui,         \* what the page shows
    uiHas,      \* the candidates it shows
    server,     \* what the API has stored
    serverHas,
    pending,    \* pendingMeta and pendingCandidates
    ops,        \* requests under way; inflightOps are the tracked ones
    flush,      \* a caller of flush(): "idle", "meta" or "drain"
    flushOp,    \* the meta save flush() awaits
    barrier,    \* history: edits made before flush() was called
    chain,      \* a structural change: its save, then refresh(); one at a time (bound)
    working,    \* imports and voiceovers: candidates with a spinner
    pageOpen,
    changes,    \* edits made so far
    excused,    \* history: cells known to differ from the server for a reason
    failed      \* history: those of them whose last edits were refused or overtaken

webVars == <<ui, uiHas, server, serverHas, pending, ops, flush, flushOp, barrier, chain,
             working, pageOpen, changes, excused, failed>>

Op == [kind: {"save", "add", "remove", "attach"}, cell: Cells, val: Values, tracked: BOOLEAN,
       at: {"sent", "applied", "refused"}, order: Values]
Snapshot == [val: [Cells -> Values], has: SUBSET Cands]
Chain == [pc: {"idle", "save", "drain", "get", "set"}, val: Values, snap: Snapshot]
NoSnap == [val |-> [c \in Cells |-> 0], has |-> {}]
NoChain == [pc |-> "idle", val |-> 0, snap |-> NoSnap]

BuilderTypeOK ==
    /\ ui \in [Cells -> Values] /\ server \in [Cells -> Values]
    /\ uiHas \subseteq Cands /\ serverHas \subseteq Cands
    /\ pending \in [Cells -> Values]
    /\ ops \subseteq Op
    /\ flush \in {"idle", "meta", "drain"}
    /\ {flushOp, barrier} \subseteq Values
    /\ chain \in Chain
    /\ working \subseteq Cands
    /\ pageOpen \in BOOLEAN
    /\ changes \in Values
    /\ failed \subseteq Cells /\ excused \subseteq Cells

BuilderInit ==
    /\ ui = [c \in Cells |-> 0] /\ server = [c \in Cells |-> 0]
    /\ uiHas = FirstCands /\ serverHas = FirstCands
    /\ pending = [c \in Cells |-> Unsent]
    /\ ops = {}
    /\ flush = "idle" /\ flushOp = 0 /\ barrier = 0
    /\ chain = NoChain
    /\ working = {}
    /\ pageOpen = TRUE
    /\ changes = 0
    /\ excused = {} /\ failed = {}

Sent(kind, c, v, tracked) ==
    [kind |-> kind, cell |-> c, val |-> v, tracked |-> tracked, at |-> "sent", order |-> 0]
SavesOf(S, tracked) == {Sent("save", c, pending[c], tracked) : c \in S}
InFlight == {o \in ops : o.tracked}
PendingCands == {c \in Cands : pending[c] # Unsent}
Shown == {"meta", "order"} \union uiHas
Cleared(S) == [c \in Cells |-> IF c \in S THEN Unsent ELSE pending[c]]

-----------------------------------------------------------------------------
(* Edits.  Each takes the next number.                                     *)

Edited(c) ==
    /\ pageOpen /\ changes < MaxChanges
    /\ changes' = changes + 1
    /\ ui' = [ui EXCEPT ![c] = changes + 1]
    /\ excused' = excused \ {c} /\ failed' = failed \ {c}
    /\ UNCHANGED <<uiHas, server, serverHas, flush, flushOp, barrier, chain, working, pageOpen>>

\* Mutant: the pending patches of the other candidates are forgotten.
EditDebouncedForgets(c) ==
    /\ Edited(c)
    /\ pending' = [Cleared(Cands) EXCEPT ![c] = changes + 1]
    /\ UNCHANGED ops

\* The patch is merged into the pending one and waits for the timer.
EditDebounced(c) ==
    /\ Edited(c)
    /\ pending' = [pending EXCEPT ![c] = changes + 1]
    /\ UNCHANGED ops

PatchMeta == EditDebounced("meta")
PatchCandidateDebounced(c) == c \in uiHas /\ EditDebounced(c)

EditDirect(c) ==
    /\ Edited(c)
    /\ ops' = ops \union {Sent("save", c, changes + 1, TRUE)}
    /\ UNCHANGED pending

\* Also removeVoiceover, which patches voiceoverId.
PatchCandidate(c) == c \in uiHas /\ EditDirect(c)

\* moveCandidate at an end of the list does nothing.
MoveCandidate(c) == c \in uiHas /\ uiHas # {c} /\ EditDirect("order")
ReorderTo == EditDirect("order")

RemoveCandidate(c) ==
    /\ pageOpen /\ c \in uiHas /\ changes < MaxChanges
    /\ changes' = changes + 1
    /\ uiHas' = uiHas \ {c}
    /\ ops' = ops \union {Sent("remove", c, changes + 1, TRUE)}
    /\ UNCHANGED <<working, ui, server, serverHas, pending, flush, flushOp, barrier, chain,
                   pageOpen, excused, failed>>

MetaTimer ==
    /\ pageOpen /\ pending["meta"] # Unsent
    /\ ops' = ops \union SavesOf({"meta"}, TRUE)
    /\ pending' = Cleared({"meta"})
    /\ UNCHANGED <<working, ui, uiHas, server, serverHas, flush, flushOp, barrier, chain,
                   pageOpen, changes, excused, failed>>

\* sendPendingCandidates.
CandidateTimer ==
    /\ pageOpen /\ PendingCands # {}
    /\ ops' = ops \union SavesOf(PendingCands, TRUE)
    /\ pending' = Cleared(Cands)
    /\ UNCHANGED <<working, ui, uiHas, server, serverHas, flush, flushOp, barrier, chain,
                   pageOpen, changes, excused, failed>>

-----------------------------------------------------------------------------
(* The API, and the network in between.                                    *)

Has(o, where, order) ==
    ops' = (ops \ {o}) \union {[o EXCEPT !.at = where, !.order = order]}

\* The server lacks what the page shows of the cells in S.
Lacking(S) == excused' = excused \union S /\ failed' = failed \union S

\* A save applied after a later one of the same cell undoes it.
ServerApplies(o) ==
    /\ o \in ops /\ o.at = "sent"
    /\ o.kind \in {"save", "attach"} /\ o.cell \in Cands => o.cell \in serverHas
    /\ Has(o, "applied", server["order"])
    /\ server' = IF o.kind = "save" THEN [server EXCEPT ![o.cell] = o.val] ELSE server
    /\ Lacking(IF o.kind = "save" /\ o.val < server[o.cell] THEN {o.cell} ELSE {})
    /\ serverHas' = CASE o.kind = "add"    -> serverHas \union {o.cell}
                      [] o.kind = "remove" -> serverHas \ {o.cell}
                      [] OTHER             -> serverHas
    /\ UNCHANGED <<working, ui, uiHas, pending, flush, flushOp, barrier, chain, pageOpen, changes>>

\* The request is refused (no such candidate) or lost.
ServerRefuses(o) ==
    /\ o \in ops /\ o.at = "sent"
    /\ Has(o, "refused", 0)
    /\ Lacking(IF o.kind = "save" THEN {o.cell} ELSE {})
    /\ UNCHANGED <<working, ui, uiHas, server, serverHas, pending, flush, flushOp, barrier, chain,
                   pageOpen, changes>>

\* Who awaits the operation: flush() its meta save, a structural change its
\* own.  An error ends both.
Awaited(o, ok) ==
    /\ flush' = IF flush = "meta" /\ flushOp = o.val
                THEN (IF ok THEN "drain" ELSE "idle") ELSE flush
    /\ chain' = IF chain.pc = "save" /\ chain.val = o.val
                THEN (IF ok THEN [chain EXCEPT !.pc = "drain"] ELSE NoChain) ELSE chain

\* A meta save that changed the ordering adopts the order of its answer.
Replied(o) ==
    /\ o \in ops /\ o.at = "applied"
    /\ ops' = ops \ {o}
    /\ Awaited(o, TRUE)
    /\ \/ UNCHANGED <<ui, excused>>
       \/ /\ o.cell = "meta" /\ pageOpen /\ o.order # ui["order"]
          /\ ui' = [ui EXCEPT !["order"] = o.order]
          /\ excused' = excused \union {"order"}
    /\ UNCHANGED <<working, uiHas, server, serverHas, pending, flushOp, barrier, pageOpen, changes,
                   failed>>

\* The caller of a save that failed swallows the error.
Failed(o) ==
    /\ o \in ops /\ o.at \in {"applied", "refused"}
    /\ ops' = ops \ {o}
    /\ Awaited(o, FALSE)
    /\ UNCHANGED <<working, ui, uiHas, server, serverHas, pending, flushOp, barrier, pageOpen,
                   changes, excused, failed>>

-----------------------------------------------------------------------------
(* flush().                                                                *)

\* Mutant: only the meta patch is sent.
FlushStartMetaOnly ==
    /\ pageOpen /\ flush = "idle"
    /\ IF pending["meta"] # Unsent
       THEN /\ ops' = ops \union SavesOf({"meta"}, TRUE)
            /\ flush' = "meta" /\ flushOp' = pending["meta"]
       ELSE UNCHANGED <<ops, flushOp>> /\ flush' = "drain"
    /\ pending' = Cleared({"meta"})
    /\ barrier' = changes
    /\ UNCHANGED <<working, ui, uiHas, server, serverHas, chain, pageOpen, changes, excused,
                   failed>>

FlushStart ==
    LET saves == SavesOf(PendingCands, TRUE) IN
    /\ pageOpen /\ flush = "idle"
    /\ IF pending["meta"] # Unsent
       THEN /\ ops' = ops \union saves \union SavesOf({"meta"}, TRUE)
            /\ flush' = "meta" /\ flushOp' = pending["meta"]
       ELSE /\ ops' = ops \union saves
            /\ flush' = "drain" /\ flushOp' = 0
    /\ pending' = Cleared(Cands \union {"meta"})
    /\ barrier' = changes
    /\ UNCHANGED <<working, ui, uiHas, server, serverHas, chain, pageOpen, changes, excused,
                   failed>>

FlushReturns ==
    /\ flush = "drain" /\ InFlight = {}
    /\ flush' = "idle" /\ flushOp' = 0 /\ barrier' = 0
    /\ UNCHANGED <<working, ui, uiHas, server, serverHas, pending, ops, chain, pageOpen,
                   changes, excused, failed>>

-----------------------------------------------------------------------------
(* Structural changes: a request, then refresh().                          *)

Chained(kind, c) ==
    /\ chain.pc = "idle" /\ changes < MaxChanges
    /\ changes' = changes + 1
    /\ ops' = ops \union {Sent(kind, c, changes + 1, TRUE)}
    /\ chain' = [NoChain EXCEPT !.pc = "save", !.val = changes + 1]
    /\ UNCHANGED <<ui, uiHas, server, serverHas, pending, flush, flushOp, barrier,
                   pageOpen, excused, failed>>

AddCandidate(c) ==
    /\ pageOpen /\ c \notin uiHas \union serverHas
    /\ Chained("add", c)
    /\ UNCHANGED working

\* importFromUrl, uploadFile and generateVoiceover work for a while...
ImportFromUrl(c) ==
    /\ pageOpen /\ c \in uiHas \ working
    /\ working' = working \union {c}
    /\ UNCHANGED <<ui, uiHas, server, serverHas, pending, ops, flush, flushOp, barrier,
                   chain, pageOpen, changes, excused, failed>>

\* ...until the job fails, is canceled or is not done by the deadline...
WorkFails(c) ==
    /\ c \in working
    /\ working' = working \ {c}
    /\ UNCHANGED <<ui, uiHas, server, serverHas, pending, ops, flush, flushOp, barrier,
                   chain, pageOpen, changes, excused, failed>>

\* ...or the asset or voiceover, which is no cell the user edits, is attached,
\* also when the page was left or the candidate removed meanwhile.  (The title
\* an import fills in for a placeholder is left out.)
Attach(c) ==
    /\ c \in working
    /\ working' = working \ {c}
    /\ Chained("attach", c)

ChainDrained ==
    /\ chain.pc = "drain" /\ InFlight = {}
    /\ chain' = [chain EXCEPT !.pc = "get"]
    /\ UNCHANGED <<working, ui, uiHas, server, serverHas, pending, ops, flush, flushOp, barrier,
                   pageOpen,
                   changes, excused, failed>>

\* The server answers the GET, or fails to.
RefreshReads ==
    /\ chain.pc = "get"
    /\ \/ chain' = [chain EXCEPT !.pc = "set", !.snap = [val |-> server, has |-> serverHas]]
       \/ chain' = NoChain
    /\ UNCHANGED <<working, ui, uiHas, server, serverHas, pending, ops, flush, flushOp, barrier,
                   pageOpen,
                   changes, excused, failed>>

\* Mutant: the pending meta patch is not applied again.
PatchedBare(vals) == vals

\* The pending meta patch is applied over what was read.
Patched(vals) ==
    IF pending["meta"] # Unsent THEN [vals EXCEPT !["meta"] = pending["meta"]] ELSE vals

RefreshSets ==
    /\ chain.pc = "set"
    /\ chain' = NoChain
    /\ IF pageOpen
       THEN /\ ui' = Patched(chain.snap.val)
            /\ uiHas' = chain.snap.has
            /\ excused' = excused \union {c \in Cells : ui'[c] < ui[c]}
       ELSE UNCHANGED <<ui, uiHas, excused>>
    /\ UNCHANGED <<working, server, serverHas, pending, ops, flush, flushOp, barrier, pageOpen,
                   changes, failed>>

\* Leaving the page sends what is pending, untracked.
Unmount ==
    /\ pageOpen
    /\ pageOpen' = FALSE
    /\ ops' = ops \union SavesOf({c \in Cells : pending[c] # Unsent}, FALSE)
    /\ pending' = Cleared(Cells)
    /\ UNCHANGED <<working, ui, uiHas, server, serverHas, flush, flushOp, barrier, chain,
                   changes, excused, failed>>

-----------------------------------------------------------------------------
BuilderNext ==
    \/ PatchMeta \/ ReorderTo
    \/ \E c \in Cands :
          \/ PatchCandidateDebounced(c) \/ PatchCandidate(c) \/ MoveCandidate(c)
          \/ RemoveCandidate(c) \/ AddCandidate(c)
          \/ ImportFromUrl(c) \/ WorkFails(c) \/ Attach(c)
    \/ MetaTimer \/ CandidateTimer
    \/ \E o \in ops : ServerApplies(o) \/ ServerRefuses(o) \/ Replied(o) \/ Failed(o)
    \/ FlushStart \/ FlushReturns
    \/ ChainDrained \/ RefreshReads \/ RefreshSets
    \/ Unmount

BuilderSpec == BuilderInit /\ [][BuilderNext]_webVars

-----------------------------------------------------------------------------
(* Properties.                                                             *)

OnItsWay(c) == \E o \in ops : o.kind = "save" /\ o.cell = c /\ o.at = "sent"
Stored(c) == server[c] = ui[c] \/ c \notin serverHas \union {"meta", "order"}

\* What the page shows and the server lacks is pending or being sent, unless
\* a save of the cell failed or was overtaken, a refresh set the cell back, or,
\* for the order, the page adopted that of the answer to a meta save.
NothingForgotten ==
    \A c \in Shown : Stored(c) \/ pending[c] # Unsent \/ OnItsWay(c) \/ c \in excused

\* The write barrier: when flush() returns on the open page, the server has
\* every edit made before the call that did not fail and was not overtaken; what
\* is still pending was edited since.
FlushIsBarrier ==
    [][(pageOpen /\ flush = "drain" /\ flush' = "idle") =>
          \A c \in Shown : Stored(c) \/ pending[c] > barrier \/ c \in excused]_webVars

Refreshed == chain.pc = "set" /\ chain'.pc = "idle"

\* A refresh sets back only a candidate whose debounced patch is pending, a cell
\* of which a save is still being sent, one that was saved since the refresh
\* asked, and one the server lacks because a save of it was refused or overtaken
\* by an older one since its last edit: never a meta edit that is pending, and
\* not a cell only because the page adopted an answer or was set back before.
RollbackHasCause ==
    [][Refreshed => \A c \in Shown : ui'[c] < ui[c] =>
          \/ c \in Cands /\ pending[c] # Unsent
          \/ OnItsWay(c)
          \/ server[c] >= ui[c]
          \/ c \in failed]_webVars

\* useRankingBuilder.ts: "a refresh never rolls back what the user sees".
RefreshNeverRollsBack ==
    [][Refreshed => \A c \in Shown : ui'[c] >= ui[c]]_webVars
============================================================================
