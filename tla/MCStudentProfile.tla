-------------------------- MODULE MCStudentProfile --------------------------
(* Small instances of StudentProfile for TLC. *)
EXTENDS StudentProfile, TLC

Symmetry == Permutations(Requests)
=============================================================================
