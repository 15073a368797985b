-------------------------- MODULE MCDevelopmentSeed --------------------------
(* Small instances of DevelopmentSeed for TLC. *)
EXTENDS DevelopmentSeed, TLC

Symmetry == Permutations(Runs)
=============================================================================
