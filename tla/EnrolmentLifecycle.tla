-------------------------- MODULE EnrolmentLifecycle --------------------------
(***************************************************************************)
(* What the enrolment application endpoints promise, with no requests, no  *)
(* transactions and no failures: an application is created as a draft of   *)
(* one student, is submitted once and for all, and whatever students are   *)
(* told about it is something it has really been.                          *)
(***************************************************************************)
CONSTANTS Apps, Students, NoStudent

VARIABLES
    status,     \* ABSENT, DRAFT or SUBMITTED
    owner,      \* the student of each application
    reported    \* what has been reported: <<application, student, status>>

vars == <<status, owner, reported>>

TypeOK ==
    /\ status \in [Apps -> {"ABSENT", "DRAFT", "SUBMITTED"}]
    /\ owner \in [Apps -> Students \cup {NoStudent}]
    /\ reported \subseteq Apps \X Students \X {"DRAFT", "SUBMITTED"}

\* The statuses an application has had; ABSENT is never reported.
Reached(a) ==
    CASE status[a] = "ABSENT"    -> {}
      [] status[a] = "DRAFT"     -> {"DRAFT"}
      [] status[a] = "SUBMITTED" -> {"DRAFT", "SUBMITTED"}

Facts == {f \in Apps \X Students \X {"DRAFT", "SUBMITTED"} :
             f[2] = owner[f[1]] /\ f[3] \in Reached(f[1])}

\* Applications of earlier sessions may exist; none has been reported yet.
Init ==
    /\ status \in [Apps -> {"ABSENT", "DRAFT"}]
    /\ owner \in [Apps -> Students \cup {NoStudent}]
    /\ \A a \in Apps : status[a] = "ABSENT" <=> owner[a] = NoStudent
    /\ reported = {}

Create(a, s) ==
    /\ status[a] = "ABSENT"
    /\ status' = [status EXCEPT ![a] = "DRAFT"]
    /\ owner' = [owner EXCEPT ![a] = s]
    /\ UNCHANGED reported

Submit(a) ==
    /\ status[a] = "DRAFT"
    /\ status' = [status EXCEPT ![a] = "SUBMITTED"]
    /\ UNCHANGED <<owner, reported>>

\* An answer reports some facts, possibly not the latest ones.
Report ==
    /\ reported \subseteq reported'
    /\ reported' \subseteq reported \cup Facts
    /\ UNCHANGED <<status, owner>>

Next ==
    \/ \E a \in Apps, s \in Students : Create(a, s)
    \/ \E a \in Apps : Submit(a)
    \/ Report

Spec == Init /\ [][Next]_vars

\* What students have been told is true, and stays true.
Truthful == reported \subseteq Facts
=============================================================================
