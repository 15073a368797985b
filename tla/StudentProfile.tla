---------------------------- MODULE StudentProfile ----------------------------
(***************************************************************************)
(* GET and PATCH of a student's own profile, as concurrent requests over   *)
(* the table student_profiles at READ COMMITTED.                           *)
(*                                                                         *)
(* A PATCH loads the profile or makes a new object, assigns the fields of  *)
(* the payload and flushes.  The ORM sends an INSERT for a new object, an  *)
(* UPDATE of the columns whose value has changed since the load, or no     *)
(* statement at all.  student_id is unique: an INSERT waits for another    *)
(* transaction that has inserted the same student, and fails if that one   *)
(* commits.  Timestamps are left to EnrolmentApplications, which has the   *)
(* same ones; the table countries does not change.                         *)
(***************************************************************************)
EXTENDS Naturals

CONSTANTS
    Requests, Students,
    Fields,         \* the columns that a PATCH may set
    CountryField,   \* the one that refers to a country, when it is in Fields
    Values,         \* what a client may send
    Countries,      \* the values that are keys of the table countries
    Null, Unset,    \* an explicit null, and a field the payload does not have
    NoStudent,      \* the caller of a request that has not arrived
    NoRow           \* no row

ASSUME ConstantsAssumption ==
    /\ Countries \subseteq Values
    /\ Null \notin Values /\ Unset \notin Values \cup {Null}
    /\ NoRow \notin [Fields -> Values \cup {Null}]
    /\ NoStudent \notin Students

Row == [Fields -> Values \cup {Null}]

Payloads == [Fields -> Values \cup {Null, Unset}]

NoFields == [f \in Fields |-> Unset]

VARIABLES
    profiles,   \* the committed row of each student
    pc,         \* where the coroutine of each request is
    caller,     \* the student it acts for
    op,         \* "get" or "patch"
    payload,    \* the fields of the PATCH
    mem,        \* the profile in the session; NoRow: none was found
    dirty,      \* the columns of the UPDATE
    written,    \* the version written by the request's transaction
    code, body, \* the answer
    before,     \* history: requests that had ended when this one was received
    outage      \* history: requests whose database connection broke

vars == <<profiles, pc, caller, op, payload, mem, dirty, written, code, body,
          before, outage>>

Places == {"idle", "received", "loaded", "inserting", "updating", "flushed",
           "refreshed", "answering", "done"}

Codes == {"none", "200", "404", "500", "lost"}

TypeOK ==
    /\ profiles \in [Students -> Row \cup {NoRow}]
    /\ pc \in [Requests -> Places]
    /\ caller \in [Requests -> Students \cup {NoStudent}]
    /\ op \in [Requests -> {"get", "patch"}]
    /\ payload \in [Requests -> Payloads]
    /\ mem \in [Requests -> Row \cup {NoRow}]
    /\ dirty \in [Requests -> SUBSET Fields]
    /\ written \in [Requests -> Row \cup {NoRow}]
    /\ code \in [Requests -> Codes]
    /\ body \in [Requests -> Row \cup {NoRow}]
    /\ before \in [Requests -> SUBSET Requests]
    /\ outage \subseteq Requests

-----------------------------------------------------------------------------
(* Each definition of this section is a later definition with a plausible   *)
(* bug in it; the mutation runs put it in that one's place.                  *)

EveryField(obj, p) == Fields

WaitForEnded(s) ==
    \E q \in Requests : caller[q] = s /\ (written[q] # NoRow \/ code[q] = "200")

AssignPayload(obj, p) == p

AssignNull(obj, p) ==
    [f \in Fields |-> IF p[f] \in {Unset, Null} THEN obj[f] ELSE p[f]]

-----------------------------------------------------------------------------
Named(p) == {f \in Fields : p[f] # Unset}

\* country_exists, asked only for a country that is neither absent nor null.
CountryOK(p) ==
    CountryField \in Named(p) => p[CountryField] \in Countries \cup {Null}

EmptyProfile == [f \in Fields |-> Null]

\* setattr for each field of the payload, an explicit null included.
Assigned(obj, p) == [f \in Fields |-> IF p[f] = Unset THEN obj[f] ELSE p[f]]

\* The ORM compares the assigned values with those it has loaded.
Changed(obj, p) == {f \in Named(p) : p[f] # obj[f]}

\* An uncommitted version locks the row, or the key of a row to be.
Held(s) == \E q \in Requests : caller[q] = s /\ written[q] # NoRow

Answer(r, c, b) ==
    /\ pc' = [pc EXCEPT ![r] = "answering"]
    /\ code' = [code EXCEPT ![r] = c]
    /\ body' = [body EXCEPT ![r] = b]
    /\ mem' = [mem EXCEPT ![r] = NoRow]
    /\ written' = [written EXCEPT ![r] = NoRow]

Receive(r) ==
    /\ pc[r] = "idle"
    /\ pc' = [pc EXCEPT ![r] = "received"]
    /\ \E s \in Students : caller' = [caller EXCEPT ![r] = s]
    /\ \/ /\ op' = [op EXCEPT ![r] = "get"]
          /\ UNCHANGED payload
       \/ /\ op' = [op EXCEPT ![r] = "patch"]
          /\ \E p \in Payloads : payload' = [payload EXCEPT ![r] = p]
    /\ before' = [before EXCEPT ![r] = {q \in Requests : pc[q] = "done"}]
    /\ UNCHANGED <<profiles, mem, dirty, written, code, body, outage>>

GetProfile(r) ==
    /\ pc[r] = "received" /\ op[r] = "get"
    /\ LET row == profiles[caller[r]]
       IN  Answer(r, IF row = NoRow THEN "404" ELSE "200", row)
    /\ UNCHANGED <<profiles, caller, op, payload, dirty, before, outage>>

LoadProfile(r) ==
    /\ pc[r] = "received" /\ op[r] = "patch"
    /\ mem' = [mem EXCEPT ![r] = profiles[caller[r]]]
    /\ pc' = [pc EXCEPT ![r] = "loaded"]
    /\ UNCHANGED <<profiles, caller, op, payload, dirty, written, code, body,
                   before, outage>>

RefuseCountry(r) ==
    /\ pc[r] = "loaded" /\ ~CountryOK(payload[r])
    /\ Answer(r, "404", NoRow)
    /\ UNCHANGED <<profiles, caller, op, payload, dirty, before, outage>>

\* The country, if any, is known; the attributes are set and the flush sends
\* an INSERT, an UPDATE or nothing.
Assign(r) ==
    /\ pc[r] = "loaded" /\ CountryOK(payload[r])
    /\ LET new == mem[r] = NoRow
           obj == IF new THEN EmptyProfile ELSE mem[r]
           cols == IF new THEN Fields ELSE Changed(obj, payload[r])
       IN  /\ mem' = [mem EXCEPT ![r] = Assigned(obj, payload[r])]
           /\ dirty' = [dirty EXCEPT ![r] = cols]
           /\ pc' = [pc EXCEPT ![r] = IF new THEN "inserting"
                                      ELSE IF cols # {} THEN "updating"
                                      ELSE "flushed"]
    /\ UNCHANGED <<profiles, caller, op, payload, written, code, body, before,
                   outage>>

\* A foreign key that refers to nothing makes the statement fail.
ForeignKeyOK(obj) ==
    CountryField \in Fields => obj[CountryField] \in Countries \cup {Null}

InsertRow(r) ==
    /\ pc[r] = "inserting" /\ ~Held(caller[r])
    /\ profiles[caller[r]] = NoRow /\ ForeignKeyOK(mem[r])
    /\ written' = [written EXCEPT ![r] = mem[r]]
    /\ pc' = [pc EXCEPT ![r] = "flushed"]
    /\ UNCHANGED <<profiles, caller, op, payload, mem, dirty, code, body, before,
                   outage>>

UpdateRow(r) ==
    /\ pc[r] = "updating" /\ ~Held(caller[r]) /\ ForeignKeyOK(mem[r])
    /\ LET row == profiles[caller[r]]
       IN  written' = [written EXCEPT ![r] =
               [f \in Fields |-> IF f \in dirty[r] THEN mem[r][f] ELSE row[f]]]
    /\ pc' = [pc EXCEPT ![r] = "flushed"]
    /\ UNCHANGED <<profiles, caller, op, payload, mem, dirty, code, body, before,
                   outage>>

\* IntegrityError is not handled anywhere: the client is told 500.
IntegrityError(r) ==
    /\ \/ /\ pc[r] = "inserting" /\ ~Held(caller[r])
          /\ profiles[caller[r]] # NoRow
       \/ pc[r] \in {"inserting", "updating"} /\ ~ForeignKeyOK(mem[r])
    /\ Answer(r, "500", NoRow)
    /\ UNCHANGED <<profiles, caller, op, payload, dirty, before, outage>>

\* refresh reads the transaction's own version, or the newest committed one.
Refresh(r) ==
    /\ pc[r] = "flushed"
    /\ mem' = [mem EXCEPT ![r] =
                  IF written[r] # NoRow THEN written[r] ELSE profiles[caller[r]]]
    /\ pc' = [pc EXCEPT ![r] = "refreshed"]
    /\ UNCHANGED <<profiles, caller, op, payload, dirty, written, code, body,
                   before, outage>>

Saved(s, w) == IF w = NoRow THEN profiles ELSE [profiles EXCEPT ![s] = w]

Commit(r) ==
    /\ pc[r] = "refreshed"
    /\ profiles' = Saved(caller[r], written[r])
    /\ Answer(r, "200", mem[r])
    /\ UNCHANGED <<caller, op, payload, dirty, before, outage>>

CommitUnconfirmed(r) ==
    /\ pc[r] = "refreshed"
    /\ profiles' = Saved(caller[r], written[r])
    /\ Answer(r, "500", NoRow)
    /\ outage' = outage \cup {r}
    /\ UNCHANGED <<caller, op, payload, dirty, before>>

Respond(r) ==
    /\ pc[r] = "answering"
    /\ pc' = [pc EXCEPT ![r] = "done"]
    /\ UNCHANGED <<profiles, caller, op, payload, mem, dirty, written, code, body,
                   before, outage>>

Running == Places \ {"idle", "answering", "done"}

Fail(r) ==
    /\ pc[r] \in Running
    /\ Answer(r, "500", NoRow)
    /\ outage' = outage \cup {r}
    /\ UNCHANGED <<profiles, caller, op, payload, dirty, before>>

Crash ==
    LET alive == {r \in Requests : pc[r] \in Running \cup {"answering"}}
    IN  /\ alive # {}
        /\ pc' = [r \in Requests |-> IF r \in alive THEN "done" ELSE pc[r]]
        /\ code' = [r \in Requests |-> IF r \in alive THEN "lost" ELSE code[r]]
        /\ body' = [r \in Requests |-> IF r \in alive THEN NoRow ELSE body[r]]
        /\ mem' = [r \in Requests |-> NoRow]
        /\ written' = [r \in Requests |-> NoRow]
        /\ UNCHANGED <<profiles, caller, op, payload, dirty, before, outage>>

Handle(r) ==
    \/ GetProfile(r)
    \/ LoadProfile(r) \/ RefuseCountry(r) \/ Assign(r)
    \/ InsertRow(r) \/ UpdateRow(r) \/ IntegrityError(r)
    \/ Refresh(r) \/ Commit(r) \/ Respond(r)

\* Nothing is left to do.
Quiet == (\A r \in Requests : pc[r] = "done") /\ UNCHANGED vars

Init ==
    /\ profiles \in [Students -> {NoRow} \cup {row \in Row : ForeignKeyOK(row)}]
    /\ pc = [r \in Requests |-> "idle"]
    /\ caller = [r \in Requests |-> NoStudent]
    /\ op = [r \in Requests |-> "get"]
    /\ payload = [r \in Requests |-> NoFields]
    /\ mem = [r \in Requests |-> NoRow]
    /\ dirty = [r \in Requests |-> {}]
    /\ written = [r \in Requests |-> NoRow]
    /\ code = [r \in Requests |-> "none"]
    /\ body = [r \in Requests |-> NoRow]
    /\ before = [r \in Requests |-> {}]
    /\ outage = {}

Next ==
    \/ \E r \in Requests : Receive(r) \/ Handle(r)
    \/ \E r \in Requests : CommitUnconfirmed(r) \/ Fail(r)
    \/ Crash
    \/ Quiet

Spec == Init /\ [][Next]_vars

\* As in EnrolmentApplications: coroutines are resumed, free locks granted.
FairSpec == Spec /\ \A r \in Requests : WF_vars(Handle(r))

-----------------------------------------------------------------------------
\* A commit changes only fields its request names, to the values it names:
\* what another request has committed since the load is not written back.
FieldStep ==
    \A s \in Students : profiles'[s] # profiles[s] =>
        \E r \in Requests :
            /\ pc[r] = "refreshed" /\ caller[r] = s /\ profiles'[s] # NoRow
            /\ profiles[s] # NoRow => \A f \in Fields :
                  profiles'[s][f] \in {profiles[s][f], payload[r][f]}
            /\ profiles[s] = NoRow => profiles'[s] = Assigned(EmptyProfile, payload[r])

OnlyNamedFieldsChange == [][FieldStep]_vars

\* The value of a field that an acknowledged PATCH has named is its value, or
\* one named by a request that had not ended when that PATCH arrived.
LastPatchWins ==
    \A r \in Requests :
        pc[r] = "done" /\ op[r] = "patch" /\ code[r] = "200" =>
            /\ profiles[caller[r]] # NoRow
            /\ \A f \in Named(payload[r]) : \E q \in Requests \ before[r] :
                  /\ caller[q] = caller[r] /\ f \in Named(payload[q])
                  /\ profiles[caller[r]][f] = payload[q][f]

\* The answer to a PATCH shows the new value of each field that it changed.  (A
\* value equal to the one loaded is not written: the refresh may then read what
\* another request has committed.)
ChangesAreAnswered ==
    \A r \in Requests :
        pc[r] = "done" /\ op[r] = "patch" /\ code[r] = "200" =>
            \A f \in dirty[r] : payload[r][f] # Unset => body[r][f] = payload[r][f]

\* A PATCH with an unknown country is answered 404, never 500, unless the
\* database connection broke: the foreign key is not what finds it out.
UnknownCountryIs404 ==
    \A r \in Requests :
        /\ pc[r] = "done" /\ op[r] = "patch" /\ r \notin outage
        /\ CountryField \in Named(payload[r])
        /\ payload[r][CountryField] \notin Countries \cup {Null}
        => code[r] \in {"404", "lost"}

\* Every request ends, those that wait for the row or for its key included.
EveryRequestEnds ==
    \A r \in Requests : pc[r] = "received" ~> pc[r] = "done"

\* docs/api.md, line 64: a missing profile may be created by PATCH.  Of two
\* that overlap, the one that inserts second is told 500.
ProfileIsCreated ==
    \A r \in Requests :
        pc[r] = "done" /\ op[r] = "patch" /\ r \notin outage => code[r] # "500"
=============================================================================
