# Verification of the agentic enrolment backend

TLA+ models of the FastAPI backend in `src/app`, TLC configurations that check
them on small instances, and TLAPS proofs of the central safety properties for
any number of requests, students, applications, seed runs and pool sizes.

## 1. The system

The program is an asyncio web service over PostgreSQL. Each request is a
coroutine with a session and a transaction of its own (`get_db` is cached per
request), at READ COMMITTED. Nothing in the process locks anything: requests
interact only through the database and the engine's connection pool, and another
coroutine may run at every `await`. The seed and Alembic are separate programs
over the same database.

| Component | State | Operations | What makes it correct |
|---|---|---|---|
| Enrolment applications (`services/student_enrolment.py`, `repositories/enrolments.py`, `endpoints/students.py`) | `enrolment_applications`, `programs.active` | list, get, create, submit | answers are true and durable; a student sees and changes only own applications; an application never leaves SUBMITTED, and is stamped iff it is submitted |
| Student profile (same service, `repositories/students.py`) | `student_profiles` | get, patch | a PATCH changes the fields it names and no other; one row per student; unknown countries are refused |
| Authentication and authorization (`auth/`, `api/dependencies.py`, `endpoints/auth.py`) | `users`, `user_roles`, tokens held by clients | login, the dependency chain of protected routes | tokens only for the password of an active account; no grant without an active account and the role; refusals have a reason; lifetime |
| Staff lookup (`endpoints/institutions.py`) | none of its own | one SELECT | the role guard (in Authentication) |
| Development seed (`infrastructure/database/seed.py`) | reference tables, the demo user | a run: look up, insert or update, one commit | all or nothing; repeatable; no duplicates; the demo user can log in |
| Application endpoints behind their dependencies | both of the above | a request from its token to its commit | what is committed and shown belongs to the token's user, who was admitted |
| Database sessions (`infrastructure/database/session.py`), health endpoints (`endpoints/health.py`) | engine, pool, the connection of each session | take, connect, use, give back; the readiness probe | nothing leaks; pool and row locks do not deadlock; an old outage is not a later request's problem; "ready" is true |
| Schema migrations (`migrations/`) | tables, types, `alembic_version` | upgrade, downgrade | the schema is that of the recorded revision; failures have a reason; a running API and the seed are served or fail at once |
| Entities (`models/`, `domain/enums.py`) | the tables | | they agree with the migrations; keys and constraints are part of the modules that rely on them |
| Error answers (`core/exceptions.py`) | none | exception to answer | which answer each failure becomes is part of the modules |
| Logging, configuration, wiring | none that changes | | not modelled |
| Credit mapping, documents | tables without operations | none | part of the schema only |
| Placeholder packages | none | none | not modelled |

Behaviours that are hard to test here: two requests of one student between each
other's statements (check and act on an unlocked row, ORM objects written back
stale, unique keys and row locks that make a flush wait), statements that fail,
a commit whose confirmation is lost, a crash of the process, accounts that
change between the statements of the dependency chain, seeds that run at once
or are run again, a pool that is full of requests waiting for each other's rows,
connections that an outage has left stale, and migrations that overlap each
other, a running API or a seed. `PROJECT.json` lists them at their lines.

## 2. Modules

| Module | Models |
|---|---|
| `EnrolmentLifecycle` | abstract: applications are created, submitted once, and truthfully reported |
| `EnrolmentApplications` | the four application endpoints as concurrent transactions; implements `EnrolmentLifecycle` |
| `EnrolmentApplicationsProofs` | the proofs about it |
| `StudentProfile`, `StudentProfileProofs` | GET and PATCH of the profile as concurrent transactions |
| `Authentication`, `AuthenticationProofs` | login and the dependency chain, over accounts that change |
| `EnrolmentBackend`, `EnrolmentBackendProofs` | composition of `Authentication` and `EnrolmentApplications` |
| `DevelopmentSeed`, `DevelopmentSeedProofs` | seed runs as concurrent transactions |
| `ConnectionPool`, `ConnectionPoolProofs` | the engine's pool, sessions and the readiness probe |
| `DomainSchema` | what the migrations create and what the entities declare |
| `SchemaMigrations` | runs of Alembic over it, next to requests and seeds |
| `MigrationScriptProofs`, `SchemaMigrationsProofs` | the proofs about it: what the scripts do; what every run of them keeps |
| `MC*` | constants and symmetry for TLC |

Every module names a request (or run) by a model value and keeps its coroutine's
place in `pc`. An action is one stretch of code between two awaits that reach
the database, so a SELECT whose result decides the next statement is one action
and the decision on it another one where code runs in between. What the
transaction has flushed is `written` (or `pending`), invisible to others until
`Commit`, and a lock on the row for as long as it is there. Errors that roll
back go through one definition (`Answer`, `Finish`, `RollBack`), as the session's
close does in the code. The sections of definitions marked as having a plausible
bug in them belong to the mutation runs only.

**EnrolmentApplications.** `apps` is the table, `active` the active programs.
`Receive` is the arrival with the student already resolved; `List` and `Get`
read and answer; `CheckProgram`, `Insert`, `Refresh`, `Commit` are a create;
`LoadDraft`, `RefuseSubmit` or `StampSubmit`, `UpdateRow`, `Refresh`, `Commit` a
submit. `UpdateRow` waits for the row lock and then rebases its columns on the
newest committed row, which is what READ COMMITTED does to an UPDATE by primary
key. `Commit` publishes the version; `CommitUnconfirmed` publishes it and answers
500. `Fail` is a statement that fails, `Crash` the end of the process: every
session is lost, the table stays. `SetActive` and `Tick` are the outside.
Timestamps are clock readings, taken where the code takes them: `submitted_at`
after the load, `updated_at` at the flush, before the lock is granted.

**StudentProfile.** The ORM's choice is explicit: a new object is an INSERT, a
loaded one an UPDATE of the columns whose value differs from the loaded one, and
no statement if there are none. Absent fields and explicit nulls are different
(`exclude_unset`). An INSERT waits for another uncommitted row of the student and
fails with `IntegrityError` if that one commits. The disjunct of
`IntegrityError` for a foreign key is never taken, because `CountryOK` is asked
first and countries are not deleted: theorem `UnknownCountryNotFound` says so.

**Authentication.** The actions follow `get_current_user`: `RefuseToken` or
`AcceptToken`, `LoadUser` (absent and inactive users get the same answer),
`LoadRoles` (a second SELECT), `LoadStudent` for student routes, and `Enter`,
where FastAPI validates the rest of the request, after the dependencies.
`RefuseBody` is a body that is not JSON, which FastAPI finds before them.
`SetAccount` is any change of `users` and `user_roles` from outside. The history
variable `seen` collects the states of the request's account while it runs.
A token's `exp` is cut to whole seconds (`Expiry`), and PyJWT refuses from `exp`
on (`Expired`). A forged or malformed token is one value, `Forged`.

**DevelopmentSeed.** `Plan` is the order in which `seed_development_data` goes
through the tables; rows made in a loop by one helper count as one. `db` counts
committed rows per natural key. `UniqueKeys` are the keys that an index
protects: those of `programs` and `courses` contain `effective_from`, which the
seed leaves null, so they protect nothing; previous educations, previous courses
and historical mappings have none. `SelectTwo` is `MultipleResultsFound`.
`SelectUser` keeps the user row as its SELECT found it (`loaded`); `UpdateUser`, when
the row lock is granted, writes only the columns in which the assignments
(`Renewed`) differ from `loaded`, onto whatever row is committed by then (`Updated`). So
a seed that only had to renew the hash does not reactivate a user whom an
operator has deactivated meanwhile, and one that only had to activate the user
keeps the password another seed has just committed. Of the columns it assigns,
the names are left out: they behave as the flag does.

**EnrolmentBackend.** Its variables are those of the two parts and `offered`, the
programs that were active at some moment of each request. `Arrive` and `Guard` are
actions of `Authentication`, `Serve` those of `EnrolmentApplications`; `HandOver`
is a step of both, at which `get_current_student` gives the endpoint the student
of the token's user (`CallerOf`). Only the accounts, tokens and endpoints that
matter here are left: tokens do not expire (that is `auth_tokens`' question) and
there is no login. A `students` row is named by its user. A crash, and what
happens to waiting requests, is the matter of `EnrolmentApplications`.

**ConnectionPool.** `queue` holds the records that are checked in, each with the
incarnation (`epoch`) of the server it is connected to, or `Broken`; `total` counts
the records there are. The first statement of a session takes one (`TakeRecord`),
makes one (`MakeRecord`) or waits (`Wait`, `TimeOut`); `Connect` is the pre-ping and
the reconnect. Readers and probes then run `Select`; writers also `Flush`, which
waits for the row with the connection in hand, and `Commit`, which gives the
connection back before the session is closed. `Close` is the end of the `async
with`, after success and failure alike. `Cut`, `Outage`, `Restart` and `Crash` are
the faults. That the pool looks again at `total` only when a wait is over is
part of the model: a waiting request is not woken by room to grow. All writers
want one row, the worst case for waiting. QueuePool's behaviour is taken from
its defaults (`pool_size` and `max_overflow` are `Size` and `Overflow`) and marked
external in the map.

**DomainSchema, SchemaMigrations.** Tables with what they reference and the enum
types with their labels are written down twice, as in the code: once in the order
of revision 0002, once by the entities and enums. A run of Alembic is a script,
the statements from the revision it has found (`UpgradeFrom`, `DowngradeFrom`); `Create`, `Drop`,
`Stamp` and `Commit` execute it in one transaction. PostgreSQL is modelled by what
this relies on: DDL is transactional, a name created by an open transaction makes
another creator wait, DDL on a table excludes its users, a dropped foreign key
locks the referenced table, and one process of a circle of waits fails
(`BreakDeadlock`). `checkfirst` is a query of its own (`CheckFirst`), so another run
may come in between. A request uses tables in the order of its dependency chain
(`Authenticate`); `ClientPlan` is the longest, and like it every request locks `users`
first. A seed uses them in the order of
`SeedPlan`. Waiters are not queued: whoever can take a lock may, which allows more
orders than the server does.

## 3. Runs

| Run | Instance | Shows |
|---|---|---|
| `applications_races` | 3 requests of 1 student, 2 applications (1 earlier), 2 ticks | types, the inductive invariant, late requests, rows move forward |
| `applications_owners` | 2 requests, 2 students, 1 program, 3 applications (1 earlier) | durability, true refusals, refinement of `EnrolmentLifecycle`, every request ends |
| `submit_twice` | 2 requests, 1 draft | **violated**: two submits both succeed |
| `profile_fields` | 2 requests, columns phone and country | no write-back, the last PATCH wins, answers, every request ends |
| `profile_created_twice` | 2 requests | **violated**: a first PATCH answered 500 |
| `auth_guards` | 1 request, 2 changes of its account, 2 passwords | grants and refusals are founded |
| `auth_tokens` | 2 requests, half-second ticks, 1 change | tokens are earned; lifetime |
| `seed_runs` | 3 runs | atomic, one writer, repeatable |
| `seed_passwords` | 2 runs, 2 passwords, 1 change by an operator, one unprotected row deleted or another one doubled before | the demo user can log in, duplicates need overlap, every run ends |
| `connection_pool` | 3 requests, pool of 1 and overflow of 1, 1 outage | nothing leaks, no deadlock with the row lock, founded failures, "ready" is true, every request ends |
| `enrolment_backend` | 2 requests, 1 user and another owner, 1 program, 2 applications, 1 change of the account | only admitted requests commit, answers are the caller's, drafts are for programs on offer |
| `schema_migrations` | 2 runs of Alembic (by up to 2 processes), 1 request or seed, every revision to start from | schema and revision agree, entities are served at head, founded failures of migrations and sessions, every process ends |

Bounds and why they are enough. Races in this code are between the statements of
two transactions on one row; a third request is there to come before or after
both, which is what the history properties need. One application that exists
and one that does not let every operation meet both. Clocks run to 2 or 3: a
stamp can be older, equal or newer than another. Requests in `Authentication` do
not interact except through tokens, so the guards are checked for one request
with the account changing twice (once between each pair of its statements) and
tokens for a login followed by a use. A token lives one second of two ticks, so
that it can be issued in mid-second. Requests are interchangeable, hence the
symmetry; runs with temporal properties of liveness use none. With three
requests and two connections one can hold the row, one wait for it with the last
connection and one wait for the pool; one outage leaves stale connections behind.
In the composition, a second user would add only requests that meet in nothing
but the table, where the other owner's row is; the proofs are for any number.
Two runs of Alembic are enough for every overlap of two: a run starts from what
earlier ones have committed, which `CatalogMatchesRevision` shows to be one of
the initial states. Deadlock is
checked in every run: the only final states are those in which every request has
ended (`Quiet`), or where the outside may still act.

Fairness. `FairSpec` asks weak fairness of each request's own steps only: the
event loop resumes a coroutine whose statement has returned, and PostgreSQL
grants a lock that is free. Arrivals, failures, crashes, the clock and outside
changes are not fair, and neither is the pool's timeout: requests end without
it while the pool is full. Locks are held only between a flush and the commit that
follows it, so weak fairness is enough: a waiting request can be overtaken only
as often as there are requests. In `SchemaMigrations` one weak fairness of all
progress (`Progress`) is enough: the number of runs and sessions is bounded and so
is each script, so that while anything can move something does until nothing
runs; it includes the server's deadlock detector, which runs after
`deadlock_timeout`.

## 4. What is proved

`EnrolmentApplicationsProofs`, for any sets of requests, students, programs and
applications. `Inv` is `TypeOK` with `SessionsAgreeWithTable`. The properties of
interest are not inductive: that an acknowledged submission is durable depends on
what every open transaction holds. `SessionsAgreeWithTable` says it for each
place of the coroutine: the loaded object is an earlier version of the committed
row, the flushed version may only go forward, what was answered or refused is
still true, what a client had been told before a request began is known to it;
and two flushed versions are never of the same row. A lemma per action shows it
for the request that moves; lemma `Frame` shows that the others keep theirs when
rows only go forward. From it follow `TypeCorrect`, `SessionsAgree`,
`AcknowledgementsDurable`, `LateRequestsSeeSubmission`, `RefusalsHold`,
`RowsForward`, `OwnersCommit`, and `Refinement`: the initial states map to
initial states of `EnrolmentLifecycle`, and every step to one of its steps or to
a stutter.

`DevelopmentSeedProofs`, for any number of runs, passwords and operator changes.
Its first part assumes `Missing = {}` and `Doubled = {}` (no rows deleted by hand; with
deleted rows two seeds can double an unprotected row, see `seed_passwords`). A seed is atomic
because of its one commit, but that each row is there once is not obvious: five
of the twelve keys are not protected. The invariant, `OneRunFillsTheDatabase`, says
why: a run that has inserted anything has inserted the first row of the plan,
whose key is unique and which nobody else can hold uncommitted, into an empty
database; a run that has inserted nothing and is past the first row has found
the data in place. From it follow `SeedIsAtomic`, `OneRunFills`,
`ConflictsMeanSeeded` and `RepeatedSeedSucceeds`. Only three facts about the plan
are used: its rows differ, the first has a unique key, and its length (lemma
`PlanFacts`). The second part is for any `Missing` and `Doubled`. A seed decides from the user row
it has loaded which columns it will write, and the row may be stale by then. That
the demo user can log in nevertheless needs three parts of `AnyInv`: the version a
run has written differs from the committed row at most by being active or by
having the run's own password (`Follows`), as nobody else can have written another
(`Exclusive`); what a run has loaded and found good is still good in the committed
row, so that leaving it out of the UPDATE is right (`LoadedOK`); and a run past the
user has found the row good, or written it so (`UserOK`). Lemma `StillGood` shows
that a commit of another run keeps the last two, column by column. All three are
weakened for the runs during which an operator stepped in (`touched`). The rest of
`AnyInv` says that either runs have overlapped or no row has been doubled. It gives
`DemoUserLogsIn` and `NoOverlapNoDuplicates`; `SeedTypes` needs to know besides that who
updates the user has loaded it (`UserThere`).

`StudentProfileProofs`, for any requests, students, columns and values. The
heart of `Inv` is `WrittenOK`: the version that a transaction has written differs
from the committed row only in fields it names, because it holds the row and
nobody else can commit; and `Recent`: the stored value of such a field was sent by a
request that had not ended when this one arrived. Hence `NamedFieldsOnly`,
`LastWins`, `ChangesAnswered` and `UnknownCountryNotFound`.

`AuthenticationProofs`, for any requests, users, roles, tokens and any length of
a second. `Inv` says for each place of the dependency chain what may be concluded
about the states the account has been in (`PlaceOK`, `SeenOK`), and when the
token was checked (`CheckOK`). Hence `GrantsFounded`, `RefusalsFounded`,
`TokensEarned` and `TokenLives`; the last needs only that cutting to seconds
loses less than one.

`ConnectionPoolProofs`, for any requests and pool size. `Inv` counts: `total` is what
is checked in and what requests hold. Who holds the row lock has a live
connection and is about to commit (`LockOK`), so a full pool always has a holder
that needs nothing more of it (`NoDeadlock`); and every dead connection in
use has been excused by an outage or cut of its own time (`HistoryOK`).

`EnrolmentBackendProofs` proves the composition in two steps. It implements both
parts (`ImplementsEnrolment`, `ImplementsAuthentication`), so that the theorems of
the two modules above, which are instantiated and not proved again, hold of it.
And `Link` ties them: as long as a handler runs, its student is the user of the
token, who was admitted, and the program it has checked is in `offered`. With what
the parts' invariants say of the flushed version, `AdmittedCommits`,
`DraftsOffered` and `AnswersOwn` follow.

`MigrationScriptProofs` and `SchemaMigrationsProofs`, for any processes that run
Alembic, any sessions and any number of runs. The first states, about constants
only, what each script is: every statement by its position, no name twice, a
table created after the tables and types it needs and dropped after those that
need it, a type removed after all tables (`UpgradeStatements`,
`DowngradeStatements`), and that the migrations create what the entities declare
(`EntitiesAre`). The schema is data, so this part names it table by table.

The second part proves `Inv`. That the catalog is the one of the recorded
revision is not inductive: a commit adds and takes away what the transaction
holds, so one must know that this is the difference between two revisions
although other runs have committed in between. `TransactionsKept` says that a
transaction holds what the statements behind it have left there, and nothing
else. `NamesExclusive`, `LocksExclusive` and `RowsExclusive` say why transactions
do not disturb each other: no two create or drop the same name, and the row of
`alembic_version` that one has replaced is the committed one, so of two
overlapping runs that both have written only one can commit. An upgrade of an
empty database is the exception, as its first stamp is an INSERT: two of them are
kept apart by the primary key and the names. `HistoryKept` relates who has
overlapped with whom to the revision found, and `SessionsHold` says that a session
that has used `users` keeps its column in place. A lemma per action shows that it
is kept. From it follow `TypeCorrect`, `CatalogCorrect` and `HeadCorrect`, and the
two action properties: `MigrationFailures`, because a run nobody overlaps with finds every
statement possible (`UndisturbedPossible`) and is in a circle of waits only when it
drops tables that a session has used (`CircleOfOneRun`); and `SessionFailures`,
because at head every table of every plan is there, and a request that holds a
lock keeps the database at head (`RequestAtHead`). TLC has checked `Inv` on the
instance of `schema_migrations`. The attempt found a defect of the model: the arms of
`NextLock`'s CASE overlapped, and TLA+ does not say which of two true arms is
taken (TLC takes the first). They are disjoint now; TLC's states are the same.

All rest on the constants' assumptions (`ConstantsAssumption` in most modules,
`PartsAssumption` and `UsersAreStudents` in the composition, `ProcessesDiffer` and
`RunsBounded` for the migrations), which TLC evaluates in every run. Every safety
property of a passing run has a theorem. Model-checked only: the liveness
properties (`EveryProcessEnds` and its like: liveness under fairness is out of the
prover's reach). Proved but in no run, because a run
checks something close or because a test would find it: `OnlyOwnersCommit` (see
`OnlyAdmittedCommit`), `ConflictMeansSeeded` (see `OneRunFillsTheDatabase`) and
`UnknownCountryIs404`.

## 5. Findings

* `submit_twice`: the status is checked on a row read without a lock, so two
  overlapping submits are both answered 200 and the second overwrites
  `submitted_at`; docs and tests promise 409.
* `profile_created_twice`: the unique key that prevents a second profile row
  surfaces as 500, because no handler catches `IntegrityError`.

A PATCH that names the value already stored writes nothing, so its answer may
show a value that another request has committed in between; nothing promises
otherwise, and `ChangesAreAnswered` is about the fields that are written.

A seed and a downgrade that drops tables can deadlock, because they lock in
different orders; PostgreSQL fails one of them and both are atomic, so nothing in
the repository is contradicted. The same holds for two overlapping runs of
Alembic: the later one may fail, and the schema is whole.

## 6. Not modelled, and why

Logging, correlation ids, CORS, configuration and wiring have no behaviour over
time that the properties could be about. Document, qualification and credit
mapping tables have no operations: only their place in the schema is modelled. Of
columns only `users.password_hash` is in the schema model, because a revision adds
it; the others come and go with their tables. Field-by-field validation of bodies
and attribute validators are data, not control. The layout of answers and the order of
lists are presentation. Of the statuses of an application only the two that the
code writes are there. A missing `JWT_SECRET`, which makes every login and every
protected request fail with 500, is configuration: the secret is taken to be set.
Offline migrations print SQL and change nothing. The
internals of SQLAlchemy, Alembic, PyJWT and PostgreSQL are modelled only by what
this code relies on. The pool and the endpoints' tables are not composed: the
pool sees a transaction only as a holder of a connection and of a row.

## 7. Plan

Applications with their lifecycle, profile, authentication, seed, pool,
composition and migrations are modelled and proved about. What is left, in this
order:

1. what the liveness of `SchemaMigrations` rests on, as theorems: each step of
   `Progress` shortens what its process has left, and a process that waits has
   another to wait for;
2. the composition of `EnrolmentBackend` with the profile endpoints, which share
   its dependency chain;
3. the validators of the entities as operators, against the check constraints of
   the migrations, once an operation other than the seed reaches them.
