------------------------- MODULE MCRuntimeOwnership -------------------------
(* Model-checking instances of RuntimeOwnership. *)
EXTENDS RuntimeOwnership, TLC

ProcSymmetry == Permutations(Proc)
=============================================================================
