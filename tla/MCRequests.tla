----------------------------- MODULE MCRequests -----------------------------
(***************************************************************************)
(* Requests of the API that race for the rows they share, side by side:    *)
(* two that enqueue, cancel and retry jobs (JobLifecycle), and two that    *)
(* edit the timelines of two projects (TimelineApi).  `focus`, chosen at   *)
(* the start, says which of the two happens.                               *)
(***************************************************************************)
EXTENDS MCJobLifecycle, TimelineApi

VARIABLE focus

\* Requests, jobs and projects differ in nothing but their names.
Alike == Symmetry \union Permutations(Editing) \union Permutations(Projects)

RequestsInit ==
    /\ focus \in {"jobs", "timeline"}
    /\ Init /\ TimelineInit

RequestsNext ==
    /\ UNCHANGED focus
    /\ \/ focus = "jobs" /\ Next /\ UNCHANGED tlVars
       \/ focus = "timeline" /\ TimelineNext /\ UNCHANGED vars

RequestsSpec == RequestsInit /\ [][RequestsNext]_<<focus, vars, tlVars>>
=============================================================================
