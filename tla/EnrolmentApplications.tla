------------------------ MODULE EnrolmentApplications ------------------------
(***************************************************************************)
(* The enrolment application endpoints of the student API: create, list,   *)
(* get and submit, as concurrent requests over one PostgreSQL database at  *)
(* its default isolation level, READ COMMITTED.                            *)
(*                                                                         *)
(* A request runs a coroutine that gives up control at each await of a     *)
(* database call; the code between two awaits is one action.  Each request *)
(* has a session of its own, hence a transaction of its own.  The caller   *)
(* has already been identified as a student (module Authentication).       *)
(***************************************************************************)
EXTENDS Naturals

CONSTANTS
    Requests,   \* HTTP requests; a retry is another request
    Students,   \* rows of "students"
    Programs,   \* rows of "programs"
    Apps,       \* UUIDs that primary keys of "enrolment_applications" take
    Earlier,    \* those that earlier requests may have used
    MaxClock,   \* bound on the clock
    NoApp,      \* a UUID no application has
    NoProgram,  \* a request without a program in its body
    NoCall,     \* the input of a request that has not arrived
    NoRow       \* no row, and None for an ORM object

Never == 0      \* NULL in the column submitted_at

\* The enum has four more; no code writes them.
Statuses == {"DRAFT", "SUBMITTED"}

Row == [student : Students, program : Programs, status : Statuses,
        created : 1..MaxClock, updated : 1..MaxClock,
        submitted : {Never} \cup (1..MaxClock)]

Ops == {"create", "list", "get", "submit"}

Calls == [student : Students, program : Programs \cup {NoProgram}, op : Ops]

\* 500 is also the answer when the outcome of the COMMIT is not known; "lost"
\* stands for the answer a client waits for in vain after the server died.
Codes == {"none", "200", "201", "404", "409", "500", "lost"}

ASSUME ConstantsAssumption ==
    /\ MaxClock \in Nat \ {0}
    /\ Earlier \subseteq Apps
    /\ NoApp \notin Apps \cup Students
    /\ NoProgram \notin Programs
    /\ NoRow \notin Row

VARIABLES
    apps,     \* the committed rows of enrolment_applications
    active,   \* the programs whose committed row has active = TRUE
    clock,    \* datetime.now(UTC)
    pc,       \* where the coroutine of each request is
    call,     \* what was asked, and by which student
    app,      \* the application a request names, or has inserted
    mem,      \* the application in the identity map of the request's session
    written,  \* the version of the row written by the request's transaction
    code,     \* the status code answered
    body,     \* the applications in the body of the answer
    known     \* history: what had been reported SUBMITTED to some client when
              \* the request was received

vars == <<apps, active, clock, pc, call, app, mem, written, code, body, known>>

\* "flushing" waits for the row lock; "flushed" and "refreshed" hold it.
Places == {"idle", "received", "loaded", "flushing", "flushed", "refreshed",
           "answering", "done"}

Rows == [Apps -> Row \cup {NoRow}]

NoRows == [a \in Apps |-> NoRow]

Existing == {a \in Apps : apps[a] # NoRow}

TypeOK ==
    /\ apps \in Rows
    /\ active \subseteq Programs
    /\ clock \in 1..MaxClock
    /\ pc \in [Requests -> Places]
    /\ call \in [Requests -> Calls \cup {NoCall}]
    /\ app \in [Requests -> Apps \cup {NoApp}]
    /\ mem \in [Requests -> Row \cup {NoRow}]
    /\ written \in [Requests -> Row \cup {NoRow}]
    /\ code \in [Requests -> Codes]
    /\ body \in [Requests -> Rows]
    /\ known \in [Requests -> SUBSET Apps]

-----------------------------------------------------------------------------
(* Each definition of this section is a definition of the next one with a *)
(* plausible bug in it; the mutation runs put it in that one's place.     *)

VisibleToAnyone(s, a) == IF a \in Existing THEN apps[a] ELSE NoRow

SubmitAlways(row) == TRUE

SubmitNever(row) == FALSE

SubmittedUnstamped(row) == [row EXCEPT !.status = "SUBMITTED"]

UpdateResetsCreated(row, obj) ==
    [row EXCEPT !.status = obj.status, !.submitted = obj.submitted,
                !.updated = obj.updated, !.created = obj.updated]

NewRowWithoutStatus(c) ==
    [student |-> c.student, program |-> c.program, status |-> "NULL",
     created |-> clock, updated |-> clock, submitted |-> Never]

LockLeaked(a) ==
    \E q \in Requests : /\ app[q] = a
                        /\ \/ pc[q] \in {"flushed", "refreshed"}
                           \/ call[q].op = "submit" /\ code[q] = "200"

NothingSaved(r) == apps

AnyProgram(p) == p \in Programs

-----------------------------------------------------------------------------
(* What the statements of the repository see and write. *)

\* The SELECT of get_for_student: the committed row, if the caller owns it.
Visible(s, a) ==
    IF a \in Existing /\ apps[a].student = s THEN apps[a] ELSE NoRow

\* The transition the service accepts.
MaySubmit(row) == row.status = "DRAFT"

\* The two attributes the service assigns.
Submitted(row) == [row EXCEPT !.status = "SUBMITTED", !.submitted = clock]

\* The row INSERTed by create: the default of both timestamps is utc_now.
NewRow(c) == [student |-> c.student, program |-> c.program,
              status |-> "DRAFT", created |-> clock, updated |-> clock,
              submitted |-> Never]

\* An UPDATE sets the columns that differ from what was loaded, besides
\* updated_at; the others keep the values of the newest committed version.
UpdatedRow(row, obj) ==
    [row EXCEPT !.status = obj.status, !.submitted = obj.submitted,
                !.updated = obj.updated]

\* A row lock lasts from the write to the end of the transaction.
Locked(a) == \E q \in Requests : app[q] = a /\ pc[q] \in {"flushed", "refreshed"}

\* The uuid4 of a new row is the key of no row, committed or not.
Fresh(a) == a \notin Existing /\ ~Locked(a)

\* active_program_exists.
Offered(p) == p \in active

\* What COMMIT makes of the table.
Saved(r) == [apps EXCEPT ![app[r]] = written[r]]

\* A coroutine returns or raises: its session closes, which ends the
\* transaction, and the answer is on its way to the client.
Answer(r, c, b) ==
    /\ pc' = [pc EXCEPT ![r] = "answering"]
    /\ code' = [code EXCEPT ![r] = c]
    /\ body' = [body EXCEPT ![r] = b]
    /\ mem' = [mem EXCEPT ![r] = NoRow]
    /\ written' = [written EXCEPT ![r] = NoRow]

-----------------------------------------------------------------------------
(* A request arrives and its dependencies have resolved the student. *)

\* History: the applications some client has been told are SUBMITTED.
ReportedSubmitted ==
    {a \in Apps : \E q \in Requests :
        /\ pc[q] = "done"
        /\ \/ body[q][a] # NoRow /\ body[q][a].status = "SUBMITTED"
           \/ code[q] = "409" /\ app[q] = a}

Arrive(r, c, a) ==
    /\ pc[r] = "idle"
    /\ pc' = [pc EXCEPT ![r] = "received"]
    /\ call' = [call EXCEPT ![r] = c]
    /\ app' = [app EXCEPT ![r] = a]
    /\ known' = [known EXCEPT ![r] = ReportedSubmitted]
    /\ UNCHANGED <<apps, active, clock, mem, written, code, body>>

\* A client knows identifiers from answers, or makes one up.
Receive(r) ==
    \E s \in Students :
        \/ \E p \in Programs :
              Arrive(r, [student |-> s, program |-> p, op |-> "create"], NoApp)
        \/ Arrive(r, [student |-> s, program |-> NoProgram, op |-> "list"], NoApp)
        \/ \E o \in {"get", "submit"}, a \in Existing \cup {NoApp} :
              Arrive(r, [student |-> s, program |-> NoProgram, op |-> o], a)

At(r, o, place) == pc[r] = place /\ call[r].op = o

-----------------------------------------------------------------------------
(* Reading: one SELECT each. *)

List(r) ==
    /\ At(r, "list", "received")
    /\ Answer(r, "200", [a \in Apps |-> Visible(call[r].student, a)])
    /\ UNCHANGED <<apps, active, clock, call, app, known>>

Get(r) ==
    /\ At(r, "get", "received")
    /\ LET row == Visible(call[r].student, app[r])
       IN  \/ row = NoRow /\ Answer(r, "404", NoRows)
           \/ row # NoRow /\ Answer(r, "200", [NoRows EXCEPT ![app[r]] = row])
    /\ UNCHANGED <<apps, active, clock, call, app, known>>

-----------------------------------------------------------------------------
(* Creating a draft: a SELECT of the active program, then the INSERT. *)

CheckProgram(r) ==
    /\ At(r, "create", "received")
    /\ \/ /\ Offered(call[r].program)
          /\ pc' = [pc EXCEPT ![r] = "loaded"]
          /\ UNCHANGED <<code, body, mem, written>>
       \/ /\ ~Offered(call[r].program)
          /\ Answer(r, "404", NoRows)
    /\ UNCHANGED <<apps, active, clock, call, app, known>>

Insert(r) ==
    /\ At(r, "create", "loaded")
    /\ \E a \in Apps :
          /\ Fresh(a)
          /\ app' = [app EXCEPT ![r] = a]
    /\ written' = [written EXCEPT ![r] = NewRow(call[r])]
    /\ pc' = [pc EXCEPT ![r] = "flushed"]
    /\ UNCHANGED <<apps, active, clock, call, mem, code, body, known>>

-----------------------------------------------------------------------------
(* Submitting: SELECT, the check of the status in memory, UPDATE. *)

LoadDraft(r) ==
    /\ At(r, "submit", "received")
    /\ mem' = [mem EXCEPT ![r] = Visible(call[r].student, app[r])]
    /\ pc' = [pc EXCEPT ![r] = "loaded"]
    /\ UNCHANGED <<apps, active, clock, call, app, written, code, body, known>>

RefuseSubmit(r) ==
    /\ At(r, "submit", "loaded")
    /\ \/ mem[r] = NoRow /\ Answer(r, "404", NoRows)
       \/ mem[r] # NoRow /\ ~MaySubmit(mem[r]) /\ Answer(r, "409", NoRows)
    /\ UNCHANGED <<apps, active, clock, call, app, known>>

\* The status and submitted_at change in memory and the flush issues the
\* UPDATE: updated_at is computed now, before any wait for the row.
StampSubmit(r) ==
    /\ At(r, "submit", "loaded")
    /\ mem[r] # NoRow /\ MaySubmit(mem[r])
    /\ mem' = [mem EXCEPT ![r] = [Submitted(mem[r]) EXCEPT !.updated = clock]]
    /\ pc' = [pc EXCEPT ![r] = "flushing"]
    /\ UNCHANGED <<apps, active, clock, call, app, written, code, body, known>>

\* The database applies the UPDATE once no other transaction holds the row.
UpdateRow(r) ==
    /\ At(r, "submit", "flushing")
    /\ ~Locked(app[r])
    /\ written' = [written EXCEPT ![r] = UpdatedRow(apps[app[r]], mem[r])]
    /\ pc' = [pc EXCEPT ![r] = "flushed"]
    /\ UNCHANGED <<apps, active, clock, call, app, mem, code, body, known>>

-----------------------------------------------------------------------------
(* The common end of create and submit: refresh, commit, answer. *)

Refresh(r) ==
    /\ pc[r] = "flushed"
    /\ mem' = [mem EXCEPT ![r] = written[r]]
    /\ pc' = [pc EXCEPT ![r] = "refreshed"]
    /\ UNCHANGED <<apps, active, clock, call, app, written, code, body, known>>

SuccessCode(o) == IF o = "create" THEN "201" ELSE "200"

Commit(r) ==
    /\ pc[r] = "refreshed"
    /\ apps' = Saved(r)
    /\ Answer(r, SuccessCode(call[r].op), [NoRows EXCEPT ![app[r]] = mem[r]])
    /\ UNCHANGED <<active, clock, call, app, known>>

\* The COMMIT takes effect but the connection breaks before it is confirmed:
\* commit() raises, and the client is told 500.
CommitUnconfirmed(r) ==
    /\ pc[r] = "refreshed"
    /\ apps' = Saved(r)
    /\ Answer(r, "500", NoRows)
    /\ UNCHANGED <<active, clock, call, app, known>>

Respond(r) ==
    /\ pc[r] = "answering"
    /\ pc' = [pc EXCEPT ![r] = "done"]
    /\ UNCHANGED <<apps, active, clock, call, app, mem, written, code, body, known>>

Handle(r) ==
    \/ List(r) \/ Get(r)
    \/ CheckProgram(r) \/ Insert(r)
    \/ LoadDraft(r) \/ RefuseSubmit(r) \/ StampSubmit(r) \/ UpdateRow(r)
    \/ Refresh(r) \/ Commit(r) \/ Respond(r)

-----------------------------------------------------------------------------
(* Failures and the outside world. *)

Running == {"received", "loaded", "flushing", "flushed", "refreshed"}

\* A database call raises (connection lost, statement cancelled): the session
\* closes, which rolls back and releases the row, and the client is told 500.
Fail(r) ==
    /\ pc[r] \in Running
    /\ Answer(r, "500", NoRows)
    /\ UNCHANGED <<apps, active, clock, call, app, known>>

\* The server process dies: open transactions are rolled back by the database,
\* answers that were on their way are lost.  It restarts with no state.
Crash ==
    LET alive == {r \in Requests : pc[r] \in Running \cup {"answering"}}
    IN  /\ alive # {}
        /\ pc' = [r \in Requests |-> IF r \in alive THEN "done" ELSE pc[r]]
        /\ code' = [r \in Requests |-> IF r \in alive THEN "lost" ELSE code[r]]
        /\ body' = [r \in Requests |-> IF r \in alive THEN NoRows ELSE body[r]]
        /\ mem' = [r \in Requests |-> NoRow]
        /\ written' = [r \in Requests |-> NoRow]
        /\ UNCHANGED <<apps, active, clock, call, app, known>>

\* An operator activates or deactivates a program with a tool of his own.
SetActive(p) ==
    /\ active' \in {active \cup {p}, active \ {p}} \ {active}
    /\ UNCHANGED <<apps, clock, pc, call, app, mem, written, code, body, known>>

Tick ==
    /\ clock < MaxClock
    /\ clock' = clock + 1
    /\ UNCHANGED <<apps, active, pc, call, app, mem, written, code, body, known>>

-----------------------------------------------------------------------------
Drafts == {row \in Row : /\ row.status = "DRAFT" /\ row.submitted = Never
                         /\ row.created = 1 /\ row.updated = 1}

\* The table holds drafts that earlier requests have made.
Init ==
    /\ clock = 1
    /\ active \in SUBSET Programs
    /\ apps \in {t \in [Apps -> Drafts \cup {NoRow}] :
                   \A a \in Apps \ Earlier : t[a] = NoRow}
    /\ pc = [r \in Requests |-> "idle"]
    /\ call = [r \in Requests |-> NoCall]
    /\ app = [r \in Requests |-> NoApp]
    /\ mem = [r \in Requests |-> NoRow]
    /\ written = [r \in Requests |-> NoRow]
    /\ code = [r \in Requests |-> "none"]
    /\ body = [r \in Requests |-> NoRows]
    /\ known = [r \in Requests |-> {}]

Next ==
    \/ \E r \in Requests : Receive(r)
    \/ \E r \in Requests : Handle(r)
    \/ \E r \in Requests : CommitUnconfirmed(r)
    \/ \E r \in Requests : Fail(r)
    \/ Crash
    \/ \E p \in Programs : SetActive(p)
    \/ Tick

Spec == Init /\ [][Next]_vars

\* The event loop resumes a coroutine whose call has returned, and PostgreSQL
\* grants a row lock that is free.
FairSpec == Spec /\ \A r \in Requests : WF_vars(Handle(r))

-----------------------------------------------------------------------------
(* What the endpoints promise. *)

SameApplication(row, other) ==
    /\ row.student = other.student
    /\ row.program = other.program
    /\ row.created = other.created

\* A row is SUBMITTED exactly when it has a submission time, which lies between
\* the creation of the row and now: the status and submitted_at are assigned
\* separately, and submissions of one row may overwrite each other.
SubmissionStamped ==
    \A a \in Existing :
        /\ apps[a].status = "SUBMITTED" <=> apps[a].submitted # Never
        /\ apps[a].status = "SUBMITTED" =>
              apps[a].submitted \in apps[a].created..clock

\* What a client has been shown in an answer stays true: the application
\* exists, is the same student's and program's, and is SUBMITTED if it was
\* shown as SUBMITTED, whatever other requests, failures and crashes do.
AcknowledgedIsDurable ==
    \A r \in Requests, a \in Apps :
        pc[r] = "done" /\ body[r][a] # NoRow =>
            /\ a \in Existing
            /\ SameApplication(apps[a], body[r][a])
            /\ body[r][a].status = "SUBMITTED" => apps[a].status = "SUBMITTED"
            /\ call[r].student = apps[a].student

\* Once some client has been told that an application is SUBMITTED, a submit
\* that arrives later does not succeed and a read that arrives later does not
\* show a draft.  The service only compares the status it has loaded.
LateRequestsAgree ==
    \A r \in Requests : \A a \in known[r] :
        /\ call[r].op = "submit" /\ app[r] = a => code[r] # "200"
        /\ body[r][a] # NoRow => body[r][a].status = "SUBMITTED"

\* A refusal has a reason that still holds when it reaches the client: 409 for
\* an application of the caller that is SUBMITTED, 404 for one not his.
RefusalsAreTrue ==
    \A r \in Requests : pc[r] = "done" =>
        /\ code[r] = "409" =>
              /\ app[r] \in Existing
              /\ apps[app[r]].student = call[r].student
              /\ apps[app[r]].status = "SUBMITTED"
        /\ code[r] = "404" /\ call[r].op \in {"get", "submit"} =>
              /\ app[r] \in Existing => apps[app[r]].student # call[r].student

\* Rows are never deleted, never change owner, program or creation time, and
\* never leave SUBMITTED, although a submit writes back a row it loaded before
\* other submits of the row committed.
ForwardStep ==
    \A a \in Existing :
        /\ apps'[a] # NoRow
        /\ SameApplication(apps'[a], apps[a])
        /\ apps[a].status = "SUBMITTED" => apps'[a].status = "SUBMITTED"

RowsMoveForward == [][ForwardStep]_vars

\* A row appears or changes only by the commit of a request of its owner: a
\* request that is refused, fails or is lost before its COMMIT leaves no trace.
OwnerStep ==
    \A a \in Apps : apps'[a] # apps[a] =>
        \E r \in Requests :
            /\ app[r] = a
            /\ pc[r] = "refreshed" /\ pc'[r] = "answering"
            /\ call[r].student = apps'[a].student
            /\ call[r].op = IF apps[a] = NoRow THEN "create" ELSE "submit"

OnlyOwnersCommit == [][OwnerStep]_vars

\* Every request that has been received is answered, or lost in a crash.  A
\* submit may wait for the row, which its holder gives back when it ends.
EveryRequestEnds ==
    \A r \in Requests : pc[r] = "received" ~> pc[r] = "done"

\* docs/api.md, line 66: submitting supports only DRAFT to SUBMITTED, and
\* tests/test_student_enrolment_api.py expects 409 of a second submit.  Two
\* submits that overlap are both answered 200.
OneSubmitSucceeds ==
    \A r, q \in Requests :
        /\ r # q /\ app[r] = app[q]
        /\ pc[r] = "done" /\ call[r].op = "submit"
        /\ pc[q] = "done" /\ call[q].op = "submit"
        => ~(code[r] = "200" /\ code[q] = "200")

-----------------------------------------------------------------------------
(* The inductive invariant behind the promises: what each request's session *)
(* and answer have to do with the table.                                    *)

Reading == {"received", "loaded"}
Holding == {"flushed", "refreshed"}

\* A request uses only the places of its own handler, and has rows in memory
\* only while its session is open.
SessionOK(r) ==
    /\ pc[r] = "idle" => call[r] = NoCall /\ app[r] = NoApp
    /\ pc[r] # "idle" => call[r] \in Calls
    /\ pc[r] # "idle" /\ call[r].op = "create" => call[r].program \in Programs
    /\ pc[r] \in {"loaded", "flushing"} \cup Holding => call[r].op \in {"create", "submit"}
    /\ pc[r] = "flushing" => call[r].op = "submit"
    /\ pc[r] # "idle" /\ call[r].op \in {"get", "submit"} =>
          app[r] \in Existing \cup {NoApp}
    /\ pc[r] \in Reading /\ call[r].op = "create" => app[r] = NoApp

\* The caller's application, as loaded or as it will be written.
OwnVersion(r, row) ==
    /\ row \in Row
    /\ app[r] \in Existing
    /\ apps[app[r]].student = call[r].student
    /\ SameApplication(row, apps[app[r]])
    /\ row.created <= clock

\* A submit that proceeds carries a stamped version of its own application,
\* which nobody had been told was submitted when the request arrived.
SubmitVersion(r, row) ==
    /\ OwnVersion(r, row)
    /\ row.status = "SUBMITTED"
    /\ row.submitted \in row.created..clock
    /\ app[r] \notin known[r]

DraftVersion(r, row) ==
    /\ row \in Row
    /\ app[r] \in Apps \ Existing
    /\ row.student = call[r].student
    /\ row.status = "DRAFT" /\ row.submitted = Never /\ row.created <= clock

WorkOK(r) ==
    /\ pc[r] = "loaded" /\ call[r].op = "submit" /\ mem[r] # NoRow =>
          /\ OwnVersion(r, mem[r])
          /\ app[r] \in known[r] => mem[r].status = "SUBMITTED"
          /\ mem[r].status = "SUBMITTED" => apps[app[r]].status = "SUBMITTED"
    /\ pc[r] = "loaded" /\ call[r].op = "submit" /\ mem[r] = NoRow =>
          (app[r] \in Existing => apps[app[r]].student # call[r].student)
    /\ pc[r] = "flushing" => SubmitVersion(r, mem[r])
    /\ pc[r] \in Holding /\ call[r].op = "submit" => SubmitVersion(r, written[r])
    /\ pc[r] \in Holding /\ call[r].op = "create" => DraftVersion(r, written[r])
    /\ pc[r] = "refreshed" => mem[r] = written[r]

\* At most one transaction has an uncommitted version of a row.
RowLockExclusive ==
    \A r, q \in Requests :
        pc[r] \in Holding /\ pc[q] \in Holding /\ app[r] = app[q] => r = q

\* Answers agree with the table, sent or not.
AnswerOK(r) ==
    /\ pc[r] \notin {"answering", "done"} => code[r] = "none"
    /\ code[r] \in {"none", "404", "409", "500", "lost"} => body[r] = NoRows
    /\ \A a \in Apps : body[r][a] # NoRow =>
          /\ a \in Existing
          /\ SameApplication(apps[a], body[r][a])
          /\ body[r][a].status = "SUBMITTED" => apps[a].status = "SUBMITTED"
          /\ call[r].student = apps[a].student
          /\ a \in known[r] => body[r][a].status = "SUBMITTED"
    /\ code[r] = "409" =>
          /\ app[r] \in Existing
          /\ apps[app[r]].student = call[r].student
          /\ apps[app[r]].status = "SUBMITTED"
    /\ code[r] = "404" /\ call[r].op \in {"get", "submit"} =>
          (app[r] \in Existing => apps[app[r]].student # call[r].student)
    /\ code[r] = "200" /\ call[r].op = "submit" => app[r] \notin known[r]

KnownOK(r) == \A a \in known[r] : a \in Existing /\ apps[a].status = "SUBMITTED"

RequestOK(r) == SessionOK(r) /\ WorkOK(r) /\ AnswerOK(r) /\ KnownOK(r)

TableOK == SubmissionStamped /\ \A a \in Existing : apps[a].created <= clock

\* The invariant that every step preserves; the properties follow from it.
SessionsAgreeWithTable ==
    /\ TableOK
    /\ \A r \in Requests : RequestOK(r)
    /\ RowLockExclusive

-----------------------------------------------------------------------------
(* The life of an application, as clients see it. *)

Reported ==
    {f \in Apps \X Students \X Statuses : \E r \in Requests :
        /\ pc[r] = "done"
        /\ call[r].student = f[2]
        /\ \/ body[r][f[1]] # NoRow /\ body[r][f[1]].status = f[3]
           \/ code[r] = "409" /\ app[r] = f[1] /\ f[3] = "SUBMITTED"}

StatusOf == [a \in Apps |-> IF apps[a] = NoRow THEN "ABSENT" ELSE apps[a].status]

OwnerOf == [a \in Apps |-> IF apps[a] = NoRow THEN NoApp ELSE apps[a].student]

Lifecycle == INSTANCE EnrolmentLifecycle WITH
    status <- StatusOf, owner <- OwnerOf, reported <- Reported, NoStudent <- NoApp

\* The endpoints implement the lifecycle of module EnrolmentLifecycle.
ImplementsLifecycle == Lifecycle!Spec
=============================================================================
