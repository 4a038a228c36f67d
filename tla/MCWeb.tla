------------------------------- MODULE MCWeb -------------------------------
(***************************************************************************)
(* The pages of the web app that live with late answers, side by side: the *)
(* ranking builder, the timeline editor's saves and its strip of jobs.     *)
(* `page`, chosen at the start, is the one that is open.                   *)
(***************************************************************************)
EXTENDS RankingBuilder, MCEditor, JobStream

VARIABLE page

vars == <<page, webVars, editorVars, streamVars>>

Init ==
    /\ page \in {"builder", "editor", "strip"}
    /\ BuilderInit
    /\ AutosaveInit
    /\ StreamInit

Next ==
    /\ UNCHANGED page
    /\ \/ page = "builder" /\ BuilderNext /\ UNCHANGED <<editorVars, streamVars>>
       \/ page = "editor" /\ AutosaveNext /\ UNCHANGED <<webVars, streamVars>>
       \/ page = "strip" /\ StreamNext /\ UNCHANGED <<webVars, editorVars>>

Spec == Init /\ [][Next]_vars

\* What the pages and the server keep has its type, and no clip of the server
\* is on a track it does not have.
WebTypeOK == BuilderTypeOK /\ AutosaveTypeOK /\ StreamTypeOK
============================================================================
