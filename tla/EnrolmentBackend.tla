--------------------------- MODULE EnrolmentBackend ---------------------------
(***************************************************************************)
(* The application endpoints behind their dependency chain, in one         *)
(* process: a request first goes through the guards of Authentication and  *)
(* is then handled as in EnrolmentApplications, by the same session.       *)
(*                                                                         *)
(* What ties the two together is the caller: the student that the service  *)
(* is given is the one that the token's user is linked to.  Nothing of it  *)
(* is asked again: accounts and programs may change while the handler      *)
(* runs.  A students row has at most one user, and is named by it here.     *)
(***************************************************************************)
EXTENDS Naturals

CONSTANTS
    Requests, Users, Programs, Apps, Earlier,
    Students,       \* those of the Users, and others who own rows
    Tokens,         \* tokens that clients hold; none expires meanwhile
    MaxClock,       \* bound of the clock that stamps rows
    MaxChanges,     \* bound on changes of accounts
    NoAccount, NoPassword, NoToken, Forged, NoCall, NoApp, NoProgram, NoRow

ASSUME UsersAreStudents == Users \subseteq Students

VARIABLES
    \* Authentication
    accounts, linked, tokens, changes, instant, guard, use, found, refusal, issued,
    roles, checkedAt, seen,
    \* EnrolmentApplications
    apps, active, clock, pc, call, app, mem, written, code, body, known,
    \* History: the programs that were active at some moment of the request.
    offered

guardVars == <<accounts, linked, tokens, changes, instant, guard, use, found, refusal,
               issued, roles, checkedAt, seen>>

appVars == <<apps, active, clock, pc, call, app, mem, written, code, body, known>>

vars == <<guardVars, appVars, offered>>

Auth == INSTANCE Authentication WITH
    Passwords <- {}, StaffRoles <- {}, Second <- 1, Lifetime <- 1,
    EarlierTokens <- Tokens, MaxClock <- 0,
    clock <- instant, pc <- guard, call <- use, mem <- found, code <- refusal,
    answer <- issued

Enrolment == INSTANCE EnrolmentApplications

\* What the two parts ask of their constants.
ASSUME PartsAssumption == Auth!ConstantsAssumption /\ Enrolment!ConstantsAssumption

-----------------------------------------------------------------------------
(* A definition of this section is a later definition with a plausible bug  *)
(* in it; the mutation runs put it in that one's place.                      *)

AnyStudent(r) == Students

-----------------------------------------------------------------------------
\* The student that get_current_student hands to the endpoint.
CallerOf(r) == {use[r].token.user}

\* The HTTP request arrives, for one of the application endpoints.
Arrive(r) ==
    /\ Auth!Receive(r) /\ use'[r].endpoint = "student"
    /\ offered' = [offered EXCEPT ![r] = active]
    /\ UNCHANGED appVars

\* The dependencies run, and may refuse it.
Guard(r) ==
    /\ \/ Auth!RefuseBody(r) \/ Auth!RefuseToken(r) \/ Auth!AcceptToken(r)
       \/ Auth!LoadUser(r) \/ Auth!LoadRoles(r) \/ Auth!LoadStudent(r)
    /\ UNCHANGED <<appVars, offered>>

\* Path and body are valid: the endpoint is called for the caller's student.
HandOver(r) ==
    /\ Auth!Enter(r) /\ refusal'[r] = "OK"
    /\ Enrolment!Receive(r) /\ call'[r].student \in CallerOf(r)
    /\ UNCHANGED offered

RefuseInput(r) ==
    /\ Auth!Enter(r) /\ refusal'[r] = "VALIDATION_ERROR"
    /\ UNCHANGED <<appVars, offered>>

Serve(r) == Enrolment!Handle(r) /\ UNCHANGED <<guardVars, offered>>

Handle(r) == Guard(r) \/ HandOver(r) \/ RefuseInput(r) \/ Serve(r)

\* A statement or the commit fails, before or after the hand-over.
Fail(r) ==
    \/ Auth!Fail(r) /\ UNCHANGED <<appVars, offered>>
    \/ /\ Enrolment!Fail(r) \/ Enrolment!CommitUnconfirmed(r)
       /\ UNCHANGED <<guardVars, offered>>

\* Accounts and programs are changed by others.
SetAccount(u) == Auth!SetAccount(u) /\ UNCHANGED <<appVars, offered>>

SetActive(p) ==
    /\ Enrolment!SetActive(p)
    /\ offered' = [r \in Requests |->
          IF guard[r] # "idle" THEN offered[r] \cup active' ELSE offered[r]]
    /\ UNCHANGED guardVars

Tick == Enrolment!Tick /\ UNCHANGED <<guardVars, offered>>

Init ==
    /\ Auth!Init /\ Enrolment!Init
    /\ offered = [r \in Requests |-> {}]

Next ==
    \/ \E r \in Requests : Arrive(r) \/ Handle(r) \/ Fail(r)
    \/ \E u \in Users : SetAccount(u)
    \/ \E p \in Programs : SetActive(p)
    \/ Tick

Spec == Init /\ [][Next]_vars

-----------------------------------------------------------------------------
\* Request r came from a client with a token of an account that was active, and
\* a student's, while the dependencies of r ran.
Admitted(r) ==
    /\ refusal[r] = "OK" /\ use[r].token.user \in linked
    /\ \E a \in seen[r] : a # NoAccount /\ a.active
    /\ \E a \in seen[r] : a # NoAccount /\ "STUDENT" \in a.roles

\* Every change of the table is the commit of an admitted request for the
\* token's own user, although the account is not looked at again between the
\* dependencies and the commit.
AdmittedStep ==
    \A a \in Apps : apps'[a] # apps[a] =>
        \E r \in Requests :
            /\ pc[r] = "refreshed" /\ pc'[r] = "answering" /\ app[r] = a
            /\ Admitted(r) /\ apps'[a].student = use[r].token.user

OnlyAdmittedCommit == [][AdmittedStep]_vars

\* Whatever an answer shows is an application of the user whose token came with
\* the request.
AnswersAreTheCallers ==
    \A r \in Requests, a \in Apps :
        body[r][a] # NoRow => Admitted(r) /\ body[r][a].student = use[r].token.user

\* A row appears only for a request whose program was active at some moment of
\* it (not necessarily when the row is committed: nothing asks again).
DraftStep ==
    \A a \in Apps : apps[a] = NoRow /\ apps'[a] # NoRow =>
        \E r \in Requests :
            /\ pc[r] = "refreshed" /\ pc'[r] = "answering"
            /\ call[r].op = "create" /\ app[r] = a
            /\ apps'[a].program \in offered[r]

DraftsOfOfferedPrograms == [][DraftStep]_vars
=============================================================================
