------------------------------- MODULE MCLive -------------------------------
(***************************************************************************)
(* What must happen in the end, where what failed is repeated: the queue   *)
(* delivers again (JobLifecycle), Stripe delivers again (BillingWebhooks), *)
(* and the editor saves again (Autosave).  `focus`, chosen at the start,   *)
(* is the one that moves; the fair actions of the others are disabled      *)
(* where they stand.                                                       *)
(***************************************************************************)
EXTENDS JobLifecycle, BillingWebhooks, MCEditor

VARIABLE focus

OnlyWorkerLost == {"workerLost"}

\* With two edits one trouble, with one edit two.
AFewThings == edits' + faults' + leaves' <= 3

LiveInit ==
    /\ focus \in {"jobs", "webhook", "editor"}
    /\ Init /\ BillInit /\ AutosaveInit

LiveNext ==
    /\ UNCHANGED focus
    /\ \/ focus = "jobs" /\ Next /\ UNCHANGED <<billVars, editorVars>>
       \/ focus = "webhook" /\ BillNext /\ UNCHANGED <<vars, editorVars>>
       \/ focus = "editor" /\ AutosaveNext /\ AFewThings /\ UNCHANGED <<vars, billVars>>

LiveSpec ==
    /\ LiveInit /\ [][LiveNext]_<<focus, vars, billVars, editorVars>>
    /\ Fairness /\ BillFairness /\ AutosaveFairness
=============================================================================
