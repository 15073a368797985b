----------------------- MODULE MCEnrolmentApplications -----------------------
(* Small instances of EnrolmentApplications for TLC. *)
EXTENDS EnrolmentApplications, TLC

\* Requests, students and programs are interchangeable; so are the UUIDs that
\* are in use at the start, and those that are not.
Symmetry ==
    Permutations(Requests) \cup Permutations(Students) \cup Permutations(Programs)
        \cup Permutations(Apps \ Earlier)
=============================================================================
