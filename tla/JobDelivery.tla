---------------------------- MODULE JobDelivery ----------------------------
(***************************************************************************)
(* What the queue between the API and the workers promises of a job that   *)
(* was handed to it: at-least-once execution.  A job is offered once, is   *)
(* settled (acknowledged) at most once, and is settled only after a worker *)
(* carried its task to the end; repeated executions are stutters here.     *)
(* Module JobLifecycle implements this one (property Delivery).            *)
(***************************************************************************)
CONSTANT Jobs

VARIABLES
    offered,   \* jobs whose message the broker has taken
    ran,       \* jobs whose task was carried to its end at least once
    settled    \* jobs whose message was acknowledged

vars == <<offered, ran, settled>>

TypeOK ==
    /\ offered \subseteq Jobs
    /\ ran \subseteq Jobs
    /\ settled \subseteq Jobs

Init ==
    /\ offered = {}
    /\ ran = {}
    /\ settled = {}

Offer(j) ==
    /\ j \notin offered
    /\ offered' = offered \union {j}
    /\ UNCHANGED <<ran, settled>>

RunToEnd(j) ==
    /\ j \in offered \ settled
    /\ ran' = ran \union {j}
    /\ UNCHANGED <<offered, settled>>

Settle(j) ==
    /\ j \in ran \ settled
    /\ settled' = settled \union {j}
    /\ UNCHANGED <<offered, ran>>

Next == \E j \in Jobs : Offer(j) \/ RunToEnd(j) \/ Settle(j)

Spec == Init /\ [][Next]_vars

FairSpec ==
    /\ Spec
    /\ \A j \in Jobs : WF_vars(RunToEnd(j) \/ Settle(j))
============================================================================
