-------------------------- MODULE MCLogfileEngine --------------------------
(* The file back end on small instances. *)
EXTENDS LogfileEngine, TLC

Symmetry == Permutations(Producers)
=============================================================================
