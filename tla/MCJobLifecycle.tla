-------------------------- MODULE MCJobLifecycle --------------------------
(***************************************************************************)
(* Instances of JobLifecycle for TLC: which faults a run allows.           *)
(***************************************************************************)
EXTENDS JobLifecycle, TLC

NoFaults == {}
AllFaults == FaultKinds
RequestFaults == {"brokerDown", "apiCrash"}

Symmetry == Permutations(Jobs) \union Permutations(Handlers) \union Permutations(Workers)
============================================================================
