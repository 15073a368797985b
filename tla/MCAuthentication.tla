-------------------------- MODULE MCAuthentication --------------------------
(* Small instances of Authentication for TLC. *)
EXTENDS Authentication, TLC

Symmetry == Permutations(Requests)

\* A token issued when the clock starts to count.
Held == {[user |-> u, issued |-> 0, exp |-> Lifetime * Second] : u \in Users}
=============================================================================
