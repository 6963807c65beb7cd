------------------------- MODULE MCServerLifecycle -------------------------
(* Instances of ServerLifecycle. *)
EXTENDS ServerLifecycle, TLC

Symmetry == Permutations(Allowed)
=============================================================================
