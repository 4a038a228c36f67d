-------------------------- MODULE MCIdempotencyKey --------------------------
(***************************************************************************)
(* Instances of IdempotencyKey for TLC.                                    *)
(***************************************************************************)
EXTENDS IdempotencyKey, TLC

Symmetry == Permutations(IdemRequests) \union Permutations(Bodies)
============================================================================
