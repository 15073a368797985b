-------------------------- MODULE MCEnrolmentBackend --------------------------
(* Small instances of EnrolmentBackend for TLC. *)
EXTENDS EnrolmentBackend, TLC

Symmetry == Permutations(Requests)

\* One token for each user, far from its end.
Held == {[user |-> u, issued |-> 0, exp |-> 1] : u \in Users}
=============================================================================
