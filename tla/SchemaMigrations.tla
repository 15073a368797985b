--------------------------- MODULE SchemaMigrations ---------------------------
(***************************************************************************)
(* Runs of Alembic ("upgrade head", "downgrade -1") over the domain        *)
(* schema, next to a running API and to the development seed.              *)
(*                                                                         *)
(* A run is one transaction: DDL is transactional in PostgreSQL.  What it  *)
(* creates is invisible to others until the commit and blocks whoever      *)
(* creates the same name; what it drops or alters it locks against all     *)
(* use.  Requests and seeds hold a shared lock on every table they have    *)
(* used until they end.  Nothing in the code keeps two runs apart.         *)
(***************************************************************************)
EXTENDS DomainSchema, Naturals, SequencesExt

CONSTANTS
    Migrators,  \* processes that run alembic
    Sessions,   \* requests to the API and runs of the seed
    MaxRuns     \* bound on runs of alembic

ASSUME ProcessesDiffer == Migrators \cap Sessions = {}

ASSUME RunsBounded == MaxRuns \in Nat

VARIABLES
    schema,     \* committed: names of the tables, types and columns there are
    versions,   \* committed: rows of alembic_version
    runs,       \* runs of alembic that have started
    pc,         \* "idle", "running", "ended" or "failed"
    command,    \* "upgrade" or "downgrade", "request" or "seed"
    found,      \* of a migrator: the revision it has found
    at,         \* the next step of the script, or of the session's plan
    due,        \* of a migrator: checkfirst has said that the step is to be done
    made, gone, \* of a migrator: names created and dropped, not yet committed
    row,        \* of a migrator: what it has written to alembic_version
    locks,      \* tables locked: by a migrator exclusively, by a session shared
    met,        \* history: commands that ran while this one did
    elsewhere,  \* history: running sessions that saw another revision than head
    raced       \* history: two runs of alembic have overlapped

vars == <<schema, versions, runs, pc, command, found, at, due, made, gone, row,
          locks, met, elsewhere, raced>>

Processes == Migrators \cup Sessions

Hash == "users.password_hash"

VersionTable == "alembic_version"

\* The base is a database without a row in alembic_version.
Revisions == <<"base", "0001", "0002", "0003">>

Latest == "0003"

Index(v) == CHOOSE i \in DOMAIN Revisions : Revisions[i] = v

-----------------------------------------------------------------------------
(* Each definition of this section is a later definition with a plausible   *)
(* bug in it; the mutation runs put it in that one's place.                  *)

InCreationOrder(seq) == seq

StudentFirst == <<"students", "users", "roles", "user_roles">>

NothingToRemove == <<>>

LeftConnected(p) == locks[p]

BaseStamped(p) == {Last(row[p])}

-----------------------------------------------------------------------------
(* Scripts: the statements of a run, by what it has found.                  *)

Do(kind, on) == [kind |-> kind, on |-> on]

Tables == CreatedCore \o CreatedStudent \o CreatedCredit

TableOf(name) == CHOOSE t \in Range(Tables) : t.name = name

Ensured == [i \in DOMAIN CreatedTypes |-> Do("ensure", CreatedTypes[i].name)]

Created == [i \in DOMAIN Tables |-> Do("create", Tables[i].name)]

\* downgrade() of 0002 names tables and types from the last to the first.
Backwards(seq) == Reverse(seq)

Dropped == Backwards([i \in DOMAIN Tables |-> Do("drop", Tables[i].name)])

Removed == Reverse([i \in DOMAIN CreatedTypes |-> Do("remove", CreatedTypes[i].name)])

Upgrade ==
    << <<>>, <<>>, Ensured \o Created, <<Do("add", Hash)>> >>

Downgrade ==
    << <<>>, <<>>, Dropped \o Removed, <<Do("discard", Hash)>> >>

\* A revision is stamped after its statements.
Revised(i) == Upgrade[i] \o <<Do("stamp", Revisions[i])>>

UpFrom ==
    << Revised(2) \o Revised(3) \o Revised(4), Revised(3) \o Revised(4), Revised(4),
       <<>> >>

\* Without a row there may be no table for it.
VersionTableMade(i) == IF i = 1 THEN <<Do("ensure", VersionTable)>> ELSE <<>>

UpgradeFrom ==
    [v \in Range(Revisions) |-> VersionTableMade(Index(v)) \o UpFrom[Index(v)]]

DowngradeFrom ==
    [v \in Range(Revisions) |->
        IF v = "base" THEN VersionTableMade(1) \o <<Do("refuse", "base")>>
        ELSE Downgrade[Index(v)] \o <<Do("stamp", Revisions[Index(v) - 1])>>]

\* What the dependency chain of a student's request reads.
Authenticate == <<"users", "roles", "user_roles", "students">>

\* The longest request loads the student's relations and ends with an INSERT.
\* The others are shorter, and not all are a part of it: those for the profile
\* use student_profiles.  Every one of them reads users first, as this one does.
ClientPlan ==
    Authenticate \o
    <<"countries", "institutions", "programs", "enrolment_applications">>

SeedPlan ==
    <<"countries", "roles", "users", "user_roles", "institutions", "programs",
      "students", "student_profiles", "previous_educations", "courses",
      "previous_courses", "historical_credit_mappings">>

Commands == {"none", "upgrade", "downgrade", "request", "seed"}

-----------------------------------------------------------------------------
Running == {p \in Processes : pc[p] = "running"}

Script(p) ==
    CASE command[p] = "request" -> ClientPlan
      [] command[p] = "seed" -> SeedPlan
      [] command[p] = "upgrade" -> UpgradeFrom[found[p]]
      [] command[p] = "downgrade" -> DowngradeFrom[found[p]]
      [] OTHER -> <<>>

HasStep(p) == p \in Running /\ at[p] <= Len(Script(p))

Step(p) == Script(p)[at[p]]

Seen(p) == (schema \ gone[p]) \cup made[p]

Written(p) == row[p] # <<>>

\* The tables a statement locks, those that foreign keys reference one by one
\* after the table itself.
NextLock(p) ==
    LET t == Step(p).on
        rest == TableOf(t).references \ locks[p]
    IN CASE Step(p).kind \in {"add", "discard"} -> {"users"} \ locks[p]
         [] Step(p).kind = "drop" ->
              IF t \notin locks[p] THEN {t}
              ELSE {u \in rest : u = CHOOSE v \in rest : TRUE}
         [] OTHER -> {}

\* q has written what the next stamp of p is about: the row that p replaces, or
\* one with the key that p writes.
RowConflict(p, q) ==
    /\ Written(q)
    /\ \/ ~Written(p) /\ found[p] # "base" /\ found[q] = found[p]
       \/ Step(p).on # "base" /\ Contains(<<found[q]>> \o row[q], Step(p).on)

\* The transactions that the next statement of a migrator has to wait for.  Who
\* waits is not queued: whoever can take a lock may.
BlockMigrator(p) ==
    LET s == Step(p) IN
    {q \in Processes \ {p} :
        \/ NextLock(p) \cap locks[q] # {}
        \/ /\ s.kind = "create" \/ (s.kind = "ensure" /\ due[p])
           /\ s.on \in made[q] \ Seen(p)
        \/ s.kind = "remove" /\ due[p] /\ s.on \in gone[q]
        \/ s.kind = "stamp" /\ RowConflict(p, q)}

Blocking(p) ==
    IF ~HasStep(p) THEN {}
    ELSE IF p \in Migrators THEN BlockMigrator(p)
    ELSE {q \in Migrators : Step(p) \in locks[q]}

Ready(p) == HasStep(p) /\ Blocking(p) = {}

\* What the statement of a migrator needs, or it is an error.
Possible(p) ==
    LET s == Step(p)
        others == {t \in Range(Tables) : t.name \in Seen(p) \ {s.on}}
    IN CASE s.kind = "create" ->
              /\ s.on \notin Seen(p)
              /\ TableOf(s.on).references \cup TableOf(s.on).types \subseteq Seen(p)
         [] s.kind = "ensure" -> due[p] => s.on \notin Seen(p)
         [] s.kind = "drop" ->
              s.on \in Seen(p) /\ \A t \in others : s.on \notin t.references
         [] s.kind = "remove" ->
              due[p] => s.on \in Seen(p) /\ \A t \in others : s.on \notin t.types
         [] s.kind = "add" -> "users" \in Seen(p) /\ Hash \notin Seen(p)
         [] s.kind = "discard" -> "users" \in Seen(p) /\ Hash \in Seen(p)
         [] s.kind = "stamp" ->
              /\ ~Written(p) /\ found[p] # "base" => found[p] \in versions
              /\ s.on \notin versions \ {found[p]}
         [] OTHER -> FALSE

\* Going down to the base deletes the row.
Stamped(p) == {Last(row[p])} \ {"base"}

\* The connection is closed when the run or the session ends.
Kept(p) == {}

\* The transaction of p is over; history forgets it.
EndAs(p, how) ==
    /\ pc' = [pc EXCEPT ![p] = how]
    /\ at' = [at EXCEPT ![p] = 1]
    /\ due' = [due EXCEPT ![p] = FALSE]
    /\ made' = [made EXCEPT ![p] = {}] /\ gone' = [gone EXCEPT ![p] = {}]
    /\ row' = [row EXCEPT ![p] = <<>>]
    /\ locks' = [locks EXCEPT ![p] = Kept(p)]
    /\ command' = [command EXCEPT ![p] = "none"]
    /\ found' = [found EXCEPT ![p] = "base"]
    /\ met' = [met EXCEPT ![p] = {}]
    /\ elsewhere' = (IF versions' = {Latest} THEN elsewhere
                     ELSE elsewhere \cup (Running \cap Sessions)) \ {p}
    /\ UNCHANGED <<runs, raced>>

Advance(p) == at' = [at EXCEPT ![p] = @ + 1]

Committed == <<schema, versions>>

Run == <<runs, pc, command, found, met, elsewhere, raced>>

-----------------------------------------------------------------------------
\* A process starts: history notes whom it meets.
Start(p, c) ==
    /\ pc' = [pc EXCEPT ![p] = "running"]
    /\ command' = [command EXCEPT ![p] = c]
    /\ met' = [q \in Processes |->
                  IF q = p THEN {command[r] : r \in Running}
                  ELSE IF q \in Running THEN met[q] \cup {c} ELSE met[q]]
    /\ UNCHANGED <<Committed, at, due, made, gone, row, locks>>

\* get_current_heads() reads the row once, at the start of the transaction.
StartMigration(p) ==
    /\ p \notin Running /\ runs < MaxRuns
    /\ \E c \in {"upgrade", "downgrade"} : Start(p, c)
    /\ runs' = runs + 1
    /\ found' = [found EXCEPT ![p] =
                    IF versions = {} THEN "base" ELSE CHOOSE v \in versions : TRUE]
    /\ raced' = (raced \/ Running \cap Migrators # {})
    /\ UNCHANGED elsewhere

StartSession(s) ==
    /\ pc[s] = "idle"
    /\ \E c \in {"request", "seed"} : Start(s, c)
    /\ elsewhere' = IF versions = {Latest} THEN elsewhere ELSE elsewhere \cup {s}
    /\ UNCHANGED <<runs, found, raced>>

\* checkfirst=True asks whether the name is there; the statement follows.
CheckFirst(p) ==
    /\ HasStep(p) /\ Step(p).kind \in {"ensure", "remove"} /\ ~due[p]
    /\ IF Step(p).kind = "ensure" <=> Step(p).on \in Seen(p)
       THEN Advance(p) /\ UNCHANGED due
       ELSE due' = [due EXCEPT ![p] = TRUE] /\ UNCHANGED at
    /\ UNCHANGED <<Committed, Run, made, gone, row, locks>>

LockTable(p) ==
    /\ Ready(p) /\ Possible(p) /\ NextLock(p) # {}
    /\ locks' = [locks EXCEPT ![p] = @ \cup NextLock(p)]
    /\ UNCHANGED <<Committed, Run, at, due, made, gone, row>>

\* CREATE TYPE, CREATE TABLE and ADD COLUMN.
Create(p) ==
    /\ Ready(p) /\ Possible(p) /\ NextLock(p) = {}
    /\ Step(p).kind \in {"create", "add"} \/ (Step(p).kind = "ensure" /\ due[p])
    /\ made' = [made EXCEPT ![p] = @ \cup {Step(p).on}]
    /\ due' = [due EXCEPT ![p] = FALSE]
    /\ Advance(p)
    /\ UNCHANGED <<Committed, Run, gone, row, locks>>

\* DROP TABLE, DROP TYPE and DROP COLUMN.
Drop(p) ==
    /\ Ready(p) /\ Possible(p) /\ NextLock(p) = {}
    /\ Step(p).kind \in {"drop", "discard"} \/ (Step(p).kind = "remove" /\ due[p])
    /\ gone' = [gone EXCEPT ![p] = @ \cup {Step(p).on}]
    /\ due' = [due EXCEPT ![p] = FALSE]
    /\ Advance(p)
    /\ UNCHANGED <<Committed, Run, made, row, locks>>

\* INSERT, UPDATE or DELETE of the row, one row expected to match.
Stamp(p) ==
    /\ Ready(p) /\ Step(p).kind = "stamp" /\ Possible(p)
    /\ row' = [row EXCEPT ![p] = Append(@, Step(p).on)]
    /\ Advance(p)
    /\ UNCHANGED <<Committed, Run, due, made, gone, locks>>

\* The error of a statement ends the run, and its transaction is rolled back.
StatementFails(p) ==
    /\ Ready(p) /\ ~Possible(p)
    /\ UNCHANGED Committed /\ EndAs(p, "failed")

\* context.begin_transaction() commits all revisions at once.
Commit(p) ==
    /\ p \in Running /\ ~HasStep(p)
    /\ schema' = Seen(p)
    /\ versions' = IF Written(p) THEN (versions \ {found[p]}) \cup Stamped(p)
                   ELSE versions
    /\ EndAs(p, "ended")

Migrate(p) ==
    \/ CheckFirst(p) \/ LockTable(p) \/ Create(p) \/ Drop(p) \/ Stamp(p)
    \/ StatementFails(p) \/ Commit(p)

\* A statement of a request or of the seed, on one more table.
Use(s) ==
    /\ Ready(s)
    /\ Step(s) \in schema /\ (Step(s) = "users" => Hash \in schema)
    /\ locks' = [locks EXCEPT ![s] = @ \cup {Step(s)}]
    /\ Advance(s)
    /\ UNCHANGED <<Committed, Run, due, made, gone, row>>

\* There is no such table, or no such column.
UseFails(s) ==
    /\ Ready(s)
    /\ Step(s) \notin schema \/ (Step(s) = "users" /\ Hash \notin schema)
    /\ UNCHANGED Committed /\ EndAs(s, "failed")

\* The session is closed: a request may be a shorter one.
EndSession(s) ==
    /\ s \in Running /\ (HasStep(s) => command[s] = "request" /\ at[s] > 1)
    /\ UNCHANGED Committed /\ EndAs(s, "ended")

Work(s) == Use(s) \/ UseFails(s) \/ EndSession(s)

-----------------------------------------------------------------------------
\* The process dies, or something else fails: the server rolls back.
Crash(p) ==
    /\ p \in Running
    /\ UNCHANGED Committed /\ EndAs(p, "ended")

\* Processes that wait in a circle.
Circle == {c \in SUBSET {p \in Running : Blocking(p) # {}} :
              c # {} /\ \A p \in c : /\ Blocking(p) \cap c # {}
                                   /\ \E q \in c : p \in Blocking(q)}

\* PostgreSQL makes one of them fail.
BreakDeadlock ==
    /\ UNCHANGED Committed
    /\ \E p \in UNION Circle : EndAs(p, "failed")

Quiet == Running = {} /\ UNCHANGED vars

-----------------------------------------------------------------------------
\* What the entities expect of a revision.
Catalog(v) ==
    LET domain == {e.name : e \in Entities \cup EnumTypes}
    IN (IF v \in {"0002", "0003"} THEN domain ELSE {})
       \cup (IF v = "0003" THEN {Hash} ELSE {})

\* A database that earlier runs have left behind, or an empty one.
Init ==
    /\ \E v \in Range(Revisions) :
          /\ versions = {v} \ {"base"}
          /\ \/ schema = Catalog(v) \cup {VersionTable}
             \/ v = "base" /\ schema = {}
    /\ runs = 0
    /\ pc = [p \in Processes |-> "idle"]
    /\ command = [p \in Processes |-> "none"]
    /\ found = [p \in Processes |-> "base"]
    /\ at = [p \in Processes |-> 1]
    /\ due = [p \in Processes |-> FALSE]
    /\ made = [p \in Processes |-> {}] /\ gone = [p \in Processes |-> {}]
    /\ row = [p \in Processes |-> <<>>]
    /\ locks = [p \in Processes |-> {}]
    /\ met = [p \in Processes |-> {}] /\ elsewhere = {} /\ raced = FALSE

Progress ==
    \/ \E p \in Migrators : Migrate(p)
    \/ \E s \in Sessions : Work(s)
    \/ BreakDeadlock

Next ==
    \/ \E p \in Migrators : StartMigration(p)
    \/ \E s \in Sessions : StartSession(s)
    \/ Progress
    \/ \E p \in Processes : Crash(p)
    \/ Quiet

Spec == Init /\ [][Next]_vars

\* As long as a process can go on one does, and PostgreSQL looks for deadlocks
\* after deadlock_timeout.  Nothing is said of a process of its own: what each
\* has to do is bounded.
FairSpec == Spec /\ WF_vars(Progress)

-----------------------------------------------------------------------------
Names == Catalog(Latest) \cup {VersionTable}

TypeOK ==
    /\ schema \subseteq Names /\ versions \subseteq Range(Revisions) \ {"base"}
    /\ runs \in 0 .. MaxRuns
    /\ pc \in [Processes -> {"idle", "running", "ended", "failed"}]
    /\ command \in [Processes -> Commands]
    /\ found \in [Processes -> Range(Revisions)]
    /\ at \in [Processes -> Nat \ {0}] /\ due \in [Processes -> BOOLEAN]
    /\ made \in [Processes -> SUBSET Names] /\ gone \in [Processes -> SUBSET Names]
    /\ row \in [Processes -> Seq(Range(Revisions))]
    /\ locks \in [Processes -> SUBSET {t.name : t \in Range(Tables)}]
    /\ met \in [Processes -> SUBSET Commands]
    /\ elsewhere \subseteq Sessions /\ raced \in BOOLEAN

\* Whatever runs of Alembic overlap, fail or die, there is one row at most, and
\* the tables, types and columns are those of its revision: no half of a
\* migration, no revision that says more or less than the schema.
CatalogMatchesRevision ==
    \/ versions = {} /\ schema \subseteq {VersionTable}
    \/ \E v \in Range(Revisions) \ {"base"} :
          versions = {v} /\ schema = Catalog(v) \cup {VersionTable}

\* At head the tables have the foreign keys and the types that the entities
\* declare, and the types the labels of the enums of the code.
HeadServesEntities ==
    versions = {Latest} =>
        /\ {t \in Range(Tables) : t.name \in schema} = Entities
        /\ {t \in Range(CreatedTypes) : t.name \in schema} = EnumTypes

\* A run of Alembic fails only for another one that overlapped, for a seed it
\* was in a deadlock with when it dropped tables, or because there is nothing to
\* go down from.  No request of a running API makes a migration fail.
MigrationFailsFoundedly ==
    \A p \in Migrators : p \in Running /\ pc'[p] = "failed" =>
        \/ met[p] \cap {"upgrade", "downgrade"} # {}
        \/ command[p] = "downgrade" /\ ("seed" \in met[p] \/ found[p] = "base")

MigrationsFailFoundedly == [][MigrationFailsFoundedly]_vars

\* While runs of Alembic come one after the other, a session that a migration
\* makes fail has seen another revision than head, and a request fails at its
\* first statement or not at all: its lock on users keeps the schema in place for
\* the rest, and it is in no deadlock.
SessionFailsFoundedly ==
    \A s \in Sessions : s \in Running /\ pc'[s] = "failed" /\ ~raced =>
        s \in elsewhere /\ (command[s] = "request" => at[s] = 1)

SessionsFailFoundedly == [][SessionFailsFoundedly]_vars

\* Whoever waits for a lock, a name or a row does not wait for ever: in the end
\* nothing is running.
EveryProcessEnds == Running # {} ~> Running = {}
=============================================================================
