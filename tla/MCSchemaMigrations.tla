-------------------------- MODULE MCSchemaMigrations --------------------------
(* Small instances of SchemaMigrations for TLC. *)
EXTENDS SchemaMigrations, TLC

Symmetry == Permutations(Migrators)
=============================================================================
