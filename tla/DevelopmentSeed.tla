--------------------------- MODULE DevelopmentSeed ---------------------------
(***************************************************************************)
(* Runs of the development seed, as concurrent processes over one          *)
(* database at READ COMMITTED.                                             *)
(*                                                                         *)
(* A run is one transaction.  For each row of its plan it looks the row up *)
(* by its natural key and inserts it if there is none; it commits once, at *)
(* the end.  Only some keys are enforced by the database: the unique       *)
(* constraints of programs and courses contain effective_from, which the   *)
(* seed leaves null, and nulls are distinct; previous educations, previous *)
(* courses and historical mappings have none.  A lookup that finds two     *)
(* rows raises MultipleResultsFound, so a duplicate ends every later run.  *)
(*                                                                         *)
(* Rows the plan makes in a loop of the same helper count as one row.      *)
(***************************************************************************)
EXTENDS Naturals, Sequences

CONSTANTS
    Runs,
    Passwords,      \* values of DEMO_USER_PASSWORD
    Missing,        \* rows that may have been deleted from a seeded database
    Doubled,        \* rows that overlapping seeds may have doubled in it
    MaxChanges,     \* bound: changes made to the demo user from outside
    NoPassword,     \* DEMO_USER_PASSWORD is not set, or password_hash is null
    NoUser          \* no row

\* The order in which seed_development_data goes through the tables.
Plan == <<"country", "role", "user", "user_role", "institution", "program",
          "student", "profile", "education", "course", "previous_course", "mapping">>

Keys == {Plan[i] : i \in DOMAIN Plan}

\* The natural keys that a unique index protects.
UniqueKeys == {"country", "role", "user", "user_role", "institution", "student",
               "profile"}

User == [active : BOOLEAN, password : Passwords \cup {NoPassword}]

ASSUME ConstantsAssumption ==
    /\ Missing \subseteq Keys \ UniqueKeys /\ Doubled \subseteq Keys \ UniqueKeys
    /\ NoPassword \notin Passwords /\ MaxChanges \in Nat
    /\ NoUser \notin User

VARIABLES
    db,         \* the number of committed rows with each key
    user,       \* the committed row of the demo user
    changes,
    pc,         \* where each run is
    at,         \* the index in Plan of the row it deals with
    password,   \* its DEMO_USER_PASSWORD
    pending,    \* the rows it has inserted and not committed
    loaded,     \* the user row as its SELECT found it, until it is flushed
    written,    \* the version of the user row that its transaction holds
    before,     \* history: runs that had ended when it started
    full,       \* history: the data was there when it started
    outage,     \* history: runs that crashed or lost the database
    touched     \* history: runs during which the user was changed from outside

vars == <<db, user, changes, pc, at, password, pending, loaded, written, before,
          full, outage, touched>>

Places == {"idle", "selecting", "inserting", "updating", "committing",
           "committed", "failed"}

Ended == {"committed", "failed"}

TypeOK ==
    /\ db \in [Keys -> Nat]
    /\ user \in User \cup {NoUser}
    /\ changes \in 0 .. MaxChanges
    /\ pc \in [Runs -> Places]
    /\ at \in [Runs -> DOMAIN Plan]
    /\ password \in [Runs -> Passwords \cup {NoPassword}]
    /\ pending \in [Runs -> SUBSET Keys]
    /\ loaded \in [Runs -> User \cup {NoUser}]
    /\ written \in [Runs -> User \cup {NoUser}]
    /\ before \in [Runs -> SUBSET Runs]
    /\ full \in [Runs -> BOOLEAN]
    /\ outage \subseteq Runs /\ touched \subseteq Runs

-----------------------------------------------------------------------------
(* Each definition of this section is a later definition with a plausible   *)
(* bug in it; the mutation runs put it in that one's place.                  *)

CommitBeforeMappings(i) == i = 9

NothingProtected(r, k) == FALSE

UserNotMatched(r, k) == IF k = "user" THEN 0 ELSE db[k]

MappingNotMatched(r, k) == IF k = "mapping" THEN 0 ELSE db[k]

KeptIfVerified(u, p) == IF u.password = p THEN u ELSE [active |-> TRUE, password |-> p]

ForgottenRun(r, k) == \E q \in Runs \ {r} : k \in pending[q] \/ pc[q] = "committed"

UnhashedUser(p) == [active |-> TRUE]

-----------------------------------------------------------------------------
\* What a SELECT by key returns: what is committed, and what the run inserted.
Found(r, k) == db[k] + IF k \in pending[r] THEN 1 ELSE 0

\* The flush of an INSERT waits for an uncommitted row with the same unique key.
MustWait(r, k) == k \in UniqueKeys /\ \E q \in Runs \ {r} : k \in pending[q]

\* ... and fails on a committed one.
Conflict(r, k) == k \in UniqueKeys /\ db[k] > 0

\* The one commit is after the last row.
CommitsAfter(i) == i = Len(Plan)

NewUser(p) == [active |-> TRUE, password |-> p]

\* A loaded user after the assignments.  A hash that verifies the password is
\* kept; here equal passwords are equal hashes.  (The names, assigned too, are
\* no different from the flag.)
Renewed(u, p) == [active |-> TRUE, password |-> p]

\* The UPDATE names the columns in which the object differs from what was
\* loaded; it leaves the others as they are in the row by then.
Updated(row, old, new) ==
    [active   |-> IF new.active = old.active THEN row.active ELSE new.active,
     password |-> IF new.password = old.password THEN row.password ELSE new.password]

\* A row locked by another run's UPDATE.
Locked(r) == \E q \in Runs \ {r} : written[q] # NoUser

History == <<changes, before, full, touched>>

GoOn(r) ==
    IF CommitsAfter(at[r])
    THEN pc' = [pc EXCEPT ![r] = "committing"] /\ UNCHANGED at
    ELSE pc' = [pc EXCEPT ![r] = "selecting"] /\ at' = [at EXCEPT ![r] = @ + 1]

\* The session is closed without a commit.
RollBack(r) ==
    /\ pc' = [pc EXCEPT ![r] = "failed"]
    /\ pending' = [pending EXCEPT ![r] = {}]
    /\ loaded' = [loaded EXCEPT ![r] = NoUser]
    /\ written' = [written EXCEPT ![r] = NoUser]
    /\ UNCHANGED <<db, user, at, password, History>>

\* A run needs a password before it asks for a session's first statement.
Start(r) ==
    /\ pc[r] = "idle"
    /\ \E p \in Passwords \cup {NoPassword} :
          /\ password' = [password EXCEPT ![r] = p]
          /\ pc' = [pc EXCEPT ![r] = IF p = NoPassword THEN "failed" ELSE "selecting"]
    /\ before' = [before EXCEPT ![r] = {q \in Runs : pc[q] \in Ended}]
    /\ full' = [full EXCEPT ![r] = \A k \in Keys : db[k] > 0]
    /\ UNCHANGED <<db, user, changes, at, pending, loaded, written, outage, touched>>

\* scalar_one_or_none: no row, or one.
SelectMissing(r) ==
    /\ pc[r] = "selecting" /\ Found(r, Plan[at[r]]) = 0
    /\ pc' = [pc EXCEPT ![r] = "inserting"]
    /\ UNCHANGED <<db, user, at, password, pending, loaded, written, outage, History>>

SelectExisting(r) ==
    /\ pc[r] = "selecting" /\ Found(r, Plan[at[r]]) = 1
    /\ Plan[at[r]] = "user" => Renewed(user, password[r]) = user
    /\ GoOn(r)
    /\ UNCHANGED <<db, user, password, pending, loaded, written, outage, History>>

\* The user exists, but the row as loaded needs an UPDATE.
SelectUser(r) ==
    /\ pc[r] = "selecting" /\ Plan[at[r]] = "user" /\ Found(r, "user") = 1
    /\ Renewed(user, password[r]) # user
    /\ loaded' = [loaded EXCEPT ![r] = user]
    /\ pc' = [pc EXCEPT ![r] = "updating"]
    /\ UNCHANGED <<db, user, at, password, pending, written, outage, History>>

\* MultipleResultsFound.
SelectTwo(r) ==
    /\ pc[r] = "selecting" /\ Found(r, Plan[at[r]]) > 1
    /\ RollBack(r) /\ UNCHANGED outage

Insert(r) ==
    LET k == Plan[at[r]]
    IN  /\ pc[r] = "inserting" /\ ~MustWait(r, k) /\ ~Conflict(r, k)
        /\ pending' = [pending EXCEPT ![r] = @ \cup {k}]
        /\ written' = [written EXCEPT ![r] =
                          IF k = "user" THEN NewUser(password[r]) ELSE @]
        /\ GoOn(r)
        /\ UNCHANGED <<db, user, password, loaded, outage, History>>

\* IntegrityError ends the run.
InsertConflict(r) ==
    /\ pc[r] = "inserting" /\ ~MustWait(r, Plan[at[r]]) /\ Conflict(r, Plan[at[r]])
    /\ RollBack(r) /\ UNCHANGED outage

UpdateUser(r) ==
    /\ pc[r] = "updating" /\ ~Locked(r)
    /\ written' = [written EXCEPT ![r] =
                      Updated(user, loaded[r], Renewed(loaded[r], password[r]))]
    /\ loaded' = [loaded EXCEPT ![r] = NoUser]
    /\ GoOn(r)
    /\ UNCHANGED <<db, user, password, pending, outage, History>>

Commit(r) ==
    /\ pc[r] = "committing"
    /\ db' = [k \in Keys |-> db[k] + IF k \in pending[r] THEN 1 ELSE 0]
    /\ user' = IF written[r] = NoUser THEN user ELSE written[r]
    /\ pending' = [pending EXCEPT ![r] = {}]
    /\ written' = [written EXCEPT ![r] = NoUser]
    /\ pc' = [pc EXCEPT ![r] = "committed"]
    /\ UNCHANGED <<at, password, loaded, outage, History>>

\* The database has committed, the run does not learn of it.
CommitUnconfirmed(r) ==
    /\ pc[r] = "committing"
    /\ db' = [k \in Keys |-> db[k] + IF k \in pending[r] THEN 1 ELSE 0]
    /\ user' = IF written[r] = NoUser THEN user ELSE written[r]
    /\ pending' = [pending EXCEPT ![r] = {}]
    /\ written' = [written EXCEPT ![r] = NoUser]
    /\ pc' = [pc EXCEPT ![r] = "failed"]
    /\ outage' = outage \cup {r}
    /\ UNCHANGED <<at, password, loaded, History>>

\* The process is killed, or loses the database: PostgreSQL rolls back.
Crash(r) ==
    /\ pc[r] \notin Ended \cup {"idle"}
    /\ outage' = outage \cup {r}
    /\ RollBack(r)

\* An operator deactivates the demo user or gives it another password.
SetUser ==
    /\ changes < MaxChanges
    /\ user # NoUser /\ \A r \in Runs : written[r] = NoUser
    /\ \E u \in User \ {user} : user' = u
    /\ changes' = changes + 1
    /\ touched' = {r \in Runs : pc[r] # "idle"}
    /\ UNCHANGED <<db, pc, at, password, pending, loaded, written, before, full,
                   outage>>

Step(r) ==
    \/ SelectMissing(r) \/ SelectExisting(r) \/ SelectUser(r) \/ SelectTwo(r)
    \/ Insert(r) \/ InsertConflict(r) \/ UpdateUser(r) \/ Commit(r)

\* Nothing is left to do.
Quiet == (\A r \in Runs : pc[r] \in Ended) /\ UNCHANGED vars

\* A migrated database, or one that a seed has filled and that may have been
\* in use since: the user may have been changed, rows may have been deleted, and
\* doubled where they had been.
Init ==
    /\ \/ db = [k \in Keys |-> 0] /\ user = NoUser
       \/ db = [k \in Keys |-> IF k \in Missing THEN 0 ELSE 1] /\ user \in User
       \/ db = [k \in Keys |-> IF k \in Doubled THEN 2 ELSE 1] /\ user \in User
    /\ changes = 0
    /\ pc = [r \in Runs |-> "idle"]
    /\ at = [r \in Runs |-> 1]
    /\ password = [r \in Runs |-> NoPassword]
    /\ pending = [r \in Runs |-> {}]
    /\ loaded = [r \in Runs |-> NoUser]
    /\ written = [r \in Runs |-> NoUser]
    /\ before = [r \in Runs |-> {}]
    /\ full = [r \in Runs |-> FALSE]
    /\ outage = {} /\ touched = {}

Next ==
    \/ \E r \in Runs : Start(r) \/ Step(r) \/ CommitUnconfirmed(r) \/ Crash(r)
    \/ SetUser
    \/ Quiet

Spec == Init /\ [][Next]_vars

\* A process that has started is scheduled, and a lock that is free is granted.
FairSpec == Spec /\ \A r \in Runs : WF_vars(Step(r))

-----------------------------------------------------------------------------
Empty == \A k \in Keys : db[k] = 0
Filled == \A k \in Keys : db[k] = 1

\* However many seeds run at once, and wherever they crash, the database holds
\* nothing of the plan or all of it, each row once: the keys without a
\* constraint are protected by the first key of the transaction, which has one.
\* (Not so if rows had been deleted: two runs may then both put them back.)
AllOnceOrNothing ==
    Empty \/ Filled

\* Why that is so.  A run that has inserted anything has inserted every row up
\* to where it is, into an empty database, and no other run has inserted any;
\* a run that has inserted nothing has not passed the first row, or found the
\* data in place.
RunOK(r) ==
    /\ pending[r] # {} =>
          /\ Empty
          /\ \A q \in Runs \ {r} : pending[q] = {}
          /\ pc[r] \in {"selecting", "inserting", "committing"}
          /\ pending[r] = {Plan[i] : i \in
                1 .. IF pc[r] = "committing" THEN Len(Plan) ELSE at[r] - 1}
    /\ pc[r] = "idle" => at[r] = 1
    /\ pc[r] \notin Ended \cup {"idle"} /\ pending[r] = {} =>
          \/ pc[r] \in {"selecting", "inserting"} /\ at[r] = 1
          \/ pc[r] # "inserting" /\ Filled
    /\ full[r] => Filled /\ pc[r] # "inserting"
    /\ pc[r] = "failed" /\ r \notin outage /\ password[r] # NoPassword =>
          Filled /\ ~full[r]

OneRunFillsTheDatabase == \A r \in Runs : RunOK(r)

\* Where the data is in place when a run starts, the run succeeds.
SeedIsRepeatable ==
    \A r \in Runs :
        pc[r] = "failed" /\ full[r] => r \in outage \/ password[r] = NoPassword

\* A run on an empty database fails only because another one has filled it.
ConflictMeansSeeded ==
    \A r \in Runs :
        pc[r] = "failed" /\ r \notin outage /\ password[r] # NoPassword =>
            \A k \in Keys : db[k] > 0

\* After a run the demo user can log in with the password of that run, or of one
\* that had not ended when it started, unless an operator stepped in.
DemoUserCanLogIn ==
    \A r \in Runs :
        pc[r] = "committed" /\ r \notin touched =>
            /\ user # NoUser /\ user.active
            /\ \E q \in Runs \ before[r] :
                  pc[q] # "idle" /\ user.password = password[q]

\* Even where rows had been deleted, a key is (newly) doubled only by runs that
\* overlapped: one seed after the other never inserts a row again.
DuplicatesNeedOverlap ==
    (\E k \in Keys \ Doubled : db[k] > 1) =>
        \E r, q \in Runs :
            /\ r # q /\ pc[r] # "idle" /\ pc[q] # "idle"
            /\ r \notin before[q] /\ q \notin before[r]

\* Every run ends: no two wait for each other's rows.
EveryRunEnds ==
    \A r \in Runs : pc[r] = "selecting" ~> pc[r] \in Ended
=============================================================================
