------------------------ MODULE SchemaMigrationsProofs ------------------------
(***************************************************************************)
(* What holds of SchemaMigrations for any number of runs of Alembic and of *)
(* sessions.                                                               *)
(***************************************************************************)
EXTENDS MigrationScriptProofs

MigrationCommands == {"upgrade", "downgrade"}

Adding == {"ensure", "create", "add"}

Removing == {"drop", "remove", "discard"}

Migrating == Running \cap Migrators

\* No other run of Alembic overlaps with this one.
Undisturbed(p) == met[p] \cap MigrationCommands = {}

Past(p) == {j \in DOMAIN Script(p) : j < at[p]}

\* A process that is not running has no transaction, and a session changes
\* nothing.
RolesKept ==
    /\ \A p \in Processes \ Running :
          /\ at[p] = 1 /\ ~due[p] /\ locks[p] = {}
          /\ made[p] = {} /\ gone[p] = {} /\ row[p] = <<>>
    /\ \A p \in Migrating :
          command[p] \in MigrationCommands /\ at[p] <= Len(Script(p)) + 1
    /\ \A s \in Sessions : made[s] = {} /\ gone[s] = {} /\ row[s] = <<>>
    /\ \A s \in Sessions \cap Running : command[s] \in {"request", "seed"}

\* What a statement of the script leaves behind in the transaction.
Done(p, s) ==
    /\ s.kind \in {"create", "add"} => s.on \in made[p]
    /\ s.kind = "create" => TableOf(s.on).types \subseteq made[p]
    /\ s.kind = "ensure" /\ (s.on = VersionTable \/ Undisturbed(p)) => s.on \in Seen(p)
    /\ s.kind \in Removing => s.on \in gone[p]
    /\ s.kind = "stamp" => s.on \in Range(row[p])
    /\ s.kind # "refuse"

StatementsDone(p) == \A j \in Past(p) : Done(p, Script(p)[j])

\* A transaction holds nothing but what its statements have left behind.
NothingElse(p) ==
    /\ \A n \in made[p] : \E j \in Past(p) :
          Script(p)[j].kind \in Adding /\ Script(p)[j].on = n
    /\ \A n \in gone[p] : \E j \in Past(p) :
          Script(p)[j].kind \in Removing /\ Script(p)[j].on = n
    /\ Written(p) => \E j \in Past(p) : Script(p)[j].kind = "stamp"

LastStamped(p) ==
    at[p] > 1 /\ Script(p)[at[p] - 1].kind = "stamp" =>
        Written(p) /\ Last(row[p]) = Script(p)[at[p] - 1].on

\* What checkfirst has said stays true unless another run overlaps.
DueHolds(p) ==
    due[p] => /\ HasStep(p) /\ Step(p).kind \in {"ensure", "remove"}
              /\ Undisturbed(p) =>
                    (Step(p).kind = "ensure" <=> Step(p).on \notin Seen(p))

Transaction(p) == StatementsDone(p) /\ NothingElse(p) /\ LastStamped(p) /\ DueHolds(p)

TransactionsKept == \A p \in Migrating : Transaction(p)

\* Two transactions do not create, drop or lock the same, and what they create
\* and drop is still not there, and still there.
NamesExclusive ==
    /\ \A p, q \in Processes : p # q =>
          made[p] \cap made[q] = {} /\ gone[p] \cap gone[q] = {}
    /\ \A p \in Processes : made[p] \cap schema = {} /\ gone[p] \subseteq schema

LocksExclusive ==
    /\ \A p \in Migrators, q \in Processes : p # q => locks[p] \cap locks[q] = {}
    /\ \A p \in Migrating :
          /\ \A t \in gone[p] : t \in {u.name : u \in Range(Tables)} => t \in locks[p]
          /\ Hash \in made[p] \cup gone[p] => "users" \in locks[p]
          /\ command[p] = "upgrade" \/ found[p] # "0002" => locks[p] \subseteq {"users"}

\* The row that a transaction has replaced is the committed one; nobody else can
\* have written about it.
RowsExclusive ==
    /\ \A p \in Processes : Written(p) =>
          IF found[p] = "base" THEN "0001" \notin versions ELSE versions = {found[p]}
    /\ \A p, q \in Processes : p # q /\ Written(p) /\ Written(q) =>
          /\ Range(row[p]) \cap Range(row[q]) \subseteq {"base"}
          /\ found[p] = "base" \/ found[q] = "base"

\* History tells who has overlapped with whom.
HistoryKept ==
    /\ \A p, q \in Running : p # q => command[q] \in met[p]
    /\ \A p \in Migrating :
          /\ Undisturbed(p) => versions = {found[p]} \ {"base"}
          /\ ~raced => Undisturbed(p)
    /\ versions # {Latest} => Running \cap Sessions \subseteq elsewhere

\* A session that has used users keeps the column in place.
SessionsHold ==
    \A s \in Sessions \cap Running :
        /\ "users" \in locks[s] => Hash \in schema
        /\ at[s] = 1 => locks[s] = {}
        /\ command[s] = "request" /\ at[s] > 1 => "users" \in locks[s]

\* The inductive invariant: what the theorems state, and what a step needs to
\* know of every transaction, lock and run.
Inv ==
    /\ TypeOK /\ CatalogMatchesRevision /\ RolesKept /\ TransactionsKept
    /\ NamesExclusive /\ LocksExclusive /\ RowsExclusive
    /\ HistoryKept /\ SessionsHold

-----------------------------------------------------------------------------
(* What a state in which the invariant holds looks like.                    *)

\* The names there are, and what each revision should have in the catalog.
LEMMA NamesAre ==
    /\ Names = Domain \cup {Hash, VersionTable}
    /\ Catalog("base") = {} /\ Catalog("0001") = {}
    /\ Catalog("0002") = Domain /\ Catalog("0003") = Domain \cup {Hash}
BY EntitiesAre DEF Names, Catalog, Latest

\* There are four databases; the tables and the types come together.
LEMMA CatalogFacts ==
    ASSUME CatalogMatchesRevision
    PROVE  /\ \/ versions = {} /\ schema \subseteq {VersionTable}
              \/ versions = {"0001"} /\ schema = {VersionTable}
              \/ versions = {"0002"} /\ schema = Domain \cup {VersionTable}
              \/ versions = {"0003"} /\ schema = Domain \cup {Hash, VersionTable}
           /\ schema \cap Domain # {} => Domain \subseteq schema
           /\ Hash \in schema => versions = {"0003"}
           /\ Domain \subseteq schema => versions \in {{"0002"}, {"0003"}}
           /\ \A v : v \in versions => versions = {v}
<1>1. \/ versions = {} /\ schema \subseteq {VersionTable}
      \/ versions = {"0001"} /\ schema = {VersionTable}
      \/ versions = {"0002"} /\ schema = Domain \cup {VersionTable}
      \/ versions = {"0003"} /\ schema = Domain \cup {Hash, VersionTable}
  BY NamesAre, RevisionsAre DEF CatalogMatchesRevision
<1>2. /\ Hash \notin Domain /\ VersionTable \notin Domain /\ Hash # VersionTable
      /\ "users" \in Domain
  BY NamesDiffer DEF Domain
<1> QED BY <1>1, <1>2

\* The statements that p is to execute are those of its script.
Statement(p, j) ==
    IF command[p] = "upgrade" THEN UpgradeStatement(found[p], Script(p), j)
    ELSE DowngradeStatement(found[p], Script(p), j)

\* A migration executes the script of its command from the revision it found.
LEMMA ScriptFacts ==
    ASSUME TypeOK, RolesKept, NEW p \in Migrating
    PROVE  /\ p \in Processes /\ p \in Running /\ p \in Migrators
           /\ command[p] \in MigrationCommands /\ found[p] \in Range(Revisions)
           /\ command[p] = "upgrade" => Script(p) = UpgradeFrom[found[p]]
           /\ command[p] = "downgrade" => Script(p) = DowngradeFrom[found[p]]
           /\ Script(p) \in Seq(Steps) /\ Len(Script(p)) \in Nat
           /\ at[p] \in 1 .. Len(Script(p)) + 1
           /\ Past(p) = 1 .. at[p] - 1
           /\ HasStep(p) <=> at[p] \in 1 .. Len(Script(p))
           /\ ~HasStep(p) <=> at[p] = Len(Script(p)) + 1
           /\ \A j \in 1 .. Len(Script(p)) :
                 /\ Statement(p, j) /\ Script(p)[j] \in Steps
                 /\ \A i \in 1 .. j - 1 : Script(p)[i].on # Script(p)[j].on
<1>1. /\ p \in Processes /\ p \in Running /\ p \in Migrators
      /\ command[p] \in MigrationCommands /\ found[p] \in Range(Revisions)
      /\ at[p] \in Nat \ {0} /\ at[p] <= Len(Script(p)) + 1
  BY DEF Migrating, Running, RolesKept, TypeOK
<1>2. /\ command[p] = "upgrade" => Script(p) = UpgradeFrom[found[p]]
      /\ command[p] = "downgrade" => Script(p) = DowngradeFrom[found[p]]
  BY DEF Script
<1>3. /\ Script(p) \in Seq(Steps)
      /\ \A j \in 1 .. Len(Script(p)) :
            /\ Statement(p, j)
            /\ \A i \in 1 .. j - 1 : Script(p)[i].on # Script(p)[j].on
  <2>1. CASE command[p] = "upgrade"
    BY <2>1, <1>1, <1>2, UpgradeStatements DEF Statement
  <2>2. CASE command[p] = "downgrade"
    BY <2>2, <1>1, <1>2, DowngradeStatements DEF Statement
  <2> QED BY <2>1, <2>2, <1>1 DEF MigrationCommands
<1>4. Len(Script(p)) \in Nat /\ DOMAIN Script(p) = 1 .. Len(Script(p))
  BY <1>3
<1>5. Past(p) = 1 .. at[p] - 1
  BY <1>1, <1>4 DEF Past
<1>6. \A j \in 1 .. Len(Script(p)) : Script(p)[j] \in Steps
  BY <1>3
<1>7. HasStep(p) <=> at[p] \in 1 .. Len(Script(p))
  BY <1>1, <1>4 DEF HasStep
<1>8. /\ at[p] \in 1 .. Len(Script(p)) + 1
      /\ ~HasStep(p) <=> at[p] = Len(Script(p)) + 1
  BY <1>1, <1>4, <1>7
<1>9. \A j \in 1 .. Len(Script(p)) :
         /\ Statement(p, j) /\ Script(p)[j] \in Steps
         /\ \A i \in 1 .. j - 1 : Script(p)[i].on # Script(p)[j].on
  BY <1>3, <1>6
<1> QED BY <1>1, <1>2, <1>3, <1>4, <1>5, <1>7, <1>8, <1>9

\* Statements that are there by their kind.
LEMMA StatementKinds ==
    ASSUME TypeOK, RolesKept, NEW p \in Migrating, NEW j \in 1 .. Len(Script(p))
    PROVE  LET s == Script(p)[j]
           IN  /\ s.kind \in Adding => command[p] = "upgrade" \/ s.on = VersionTable
               /\ s.kind \in Removing => command[p] = "downgrade"
               /\ s.kind = "ensure" =>
                     \/ s.on = VersionTable /\ found[p] = "base"
                     \/ s.on \in TypeNames /\ found[p] \in {"base", "0001"}
               /\ s.kind = "create" => s.on \in TableNames /\ found[p] \in {"base", "0001"}
               /\ s.kind = "add" => s.on = Hash
               /\ s.kind = "drop" => s.on \in TableNames /\ found[p] = "0002"
               /\ s.kind = "remove" => s.on \in TypeNames /\ found[p] = "0002"
               /\ s.kind = "discard" => s.on = Hash /\ found[p] = "0003"
               /\ s.kind = "stamp" =>
                     /\ s.on \in Range(Revisions)
                     /\ command[p] = "upgrade" =>
                           s.on \in {"0002", "0003"} \/ (s.on = "0001" /\ j = 2)
                     /\ command[p] = "upgrade" /\ found[p] = "base" => j >= 2
                     /\ command[p] = "downgrade" => found[p] # "base"
               /\ s.kind = "refuse" => command[p] = "downgrade" /\ found[p] = "base"
<1>1. Statement(p, j) /\ command[p] \in MigrationCommands /\ found[p] \in Range(Revisions)
  BY ScriptFacts
<1>2. \A k, n : Do(k, n).kind = k /\ Do(k, n).on = n
  BY DEF Do
<1>3. CASE command[p] = "upgrade"
  BY <1>1, <1>2, <1>3, RevisionsAre DEF Statement, UpgradeStatement, Adding, Removing
<1>4. CASE command[p] = "downgrade"
  BY <1>1, <1>2, <1>4, RevisionsAre DEF Statement, DowngradeStatement, Adding, Removing
<1> QED BY <1>1, <1>3, <1>4 DEF MigrationCommands

\* What a transaction may have created and dropped.
LEMMA TransactionFacts ==
    ASSUME TypeOK, RolesKept, NEW p \in Migrating, NothingElse(p)
    PROVE  /\ command[p] = "upgrade" => gone[p] = {}
           /\ command[p] = "downgrade" => made[p] \subseteq {VersionTable}
           /\ gone[p] \subseteq Domain \cup {Hash}
           /\ gone[p] \cap Domain # {} => command[p] = "downgrade" /\ found[p] = "0002"
           /\ Hash \in gone[p] => command[p] = "downgrade" /\ found[p] = "0003"
           /\ made[p] \cap Domain # {} =>
                 command[p] = "upgrade" /\ found[p] \in {"base", "0001"}
           /\ made[p] \subseteq Domain \cup {Hash, VersionTable}
           /\ VersionTable \in made[p] => found[p] = "base"
           /\ command[p] = "downgrade" /\ found[p] = "base" =>
                 gone[p] = {} /\ ~Written(p)
<1>1. /\ Past(p) \subseteq 1 .. Len(Script(p)) /\ command[p] \in MigrationCommands
      /\ \A j \in Past(p) : Script(p)[j] \in Steps
  BY ScriptFacts
<1>2. /\ \A n \in made[p] : \E j \in Past(p) :
            Script(p)[j].kind \in Adding /\ Script(p)[j].on = n
      /\ \A n \in gone[p] : \E j \in Past(p) :
            Script(p)[j].kind \in Removing /\ Script(p)[j].on = n
      /\ Written(p) => \E j \in Past(p) : Script(p)[j].kind = "stamp"
  BY DEF NothingElse
<1>3. /\ Hash \notin Domain /\ VersionTable \notin Domain /\ Hash # VersionTable
      /\ TableNames \subseteq Domain /\ TypeNames \subseteq Domain
  BY NamesDiffer DEF Domain
<1>4. ASSUME NEW n \in made[p]
      PROVE  /\ command[p] = "downgrade" => n = VersionTable
             /\ n \in Domain \cup {Hash, VersionTable}
             /\ n \in Domain => command[p] = "upgrade" /\ found[p] \in {"base", "0001"}
             /\ n = VersionTable => found[p] = "base"
  <2>1. PICK j \in 1 .. Len(Script(p)) :
               Script(p)[j].kind \in Adding /\ Script(p)[j].on = n
    BY <1>1, <1>2
  <2> QED BY <2>1, <1>1, <1>3, StatementKinds DEF Adding, MigrationCommands
<1>5. ASSUME NEW n \in gone[p]
      PROVE  /\ command[p] = "downgrade" /\ n \in Domain \cup {Hash}
             /\ n \in Domain => found[p] = "0002"
             /\ n = Hash => found[p] = "0003"
             /\ found[p] # "base"
  <2>1. PICK j \in 1 .. Len(Script(p)) :
               Script(p)[j].kind \in Removing /\ Script(p)[j].on = n
    BY <1>1, <1>2
  <2> QED BY <2>1, <1>1, <1>3, StatementKinds DEF Removing, MigrationCommands
<1>6. Written(p) /\ command[p] = "downgrade" => found[p] # "base"
  BY <1>1, <1>2, StatementKinds
<1> QED BY <1>1, <1>4, <1>5, <1>6 DEF MigrationCommands

\* What the statements before the next one have left behind for it.
LEMMA StepFacts ==
    ASSUME TypeOK, RolesKept, NEW p \in Migrating, Transaction(p), HasStep(p)
    PROVE  LET s == Step(p)
           IN  /\ at[p] \in 1 .. Len(Script(p)) /\ s = Script(p)[at[p]] /\ s \in Steps
               /\ s.on \notin made[p] \cup gone[p]
               /\ s.kind = "create" =>
                     /\ command[p] = "upgrade"
                     /\ TableOf(s.on).references \subseteq made[p]
                     /\ TableOf(s.on).types \subseteq TypeNames
                     /\ Undisturbed(p) => TableOf(s.on).types \subseteq Seen(p)
               /\ s.kind = "add" =>
                     command[p] = "upgrade" /\ (found[p] = "0002" \/ "users" \in made[p])
               /\ s.kind = "drop" =>
                     /\ command[p] = "downgrade"
                     /\ \A t \in Range(Tables) :
                           s.on \in t.references => t.name \in gone[p]
               /\ s.kind = "remove" =>
                     command[p] = "downgrade" /\ TableNames \subseteq gone[p]
<1> DEFINE S == Script(p)
           s == Step(p)
<1>1. /\ at[p] \in 1 .. Len(S) /\ s = S[at[p]] /\ s \in Steps /\ Statement(p, at[p])
      /\ Past(p) = 1 .. at[p] - 1 /\ Past(p) \subseteq 1 .. Len(S)
      /\ \A i \in Past(p) : S[i].on # s.on
      /\ command[p] \in MigrationCommands
  BY ScriptFacts DEF Step
<1>2. s.on \notin made[p] \cup gone[p]
  BY <1>1 DEF Transaction, NothingElse
<1>3. ASSUME NEW k, NEW n, \E i \in Past(p) : S[i] = Do(k, n)
      PROVE  /\ k = "create" => n \in made[p]
             /\ k \in Removing => n \in gone[p]
             /\ k = "ensure" /\ Undisturbed(p) => n \in Seen(p)
  BY <1>3 DEF Transaction, StatementsDone, Done, Do
<1>4. CASE command[p] = "upgrade"
  <2>1. UpgradeStatement(found[p], S, at[p])
    BY <1>1, <1>4 DEF Statement
  <2>2. s.kind \notin Removing
    BY <1>1, <1>4, StatementKinds
  <2>3. CASE s.kind = "create"
    <3>1. /\ s.on \in TableNames
          /\ \A n \in TableOf(s.on).references : \E i \in Past(p) : S[i] = Do("create", n)
          /\ \A n \in TableOf(s.on).types : \E i \in Past(p) : S[i] = Do("ensure", n)
      BY <1>1, <2>1, <2>3 DEF UpgradeStatement, Do
    <3>2. TableOf(s.on).types \subseteq TypeNames
      BY <3>1, TableOfName, TablesOrdered, TableNamesDiffer DEF Range
    <3> QED BY <3>1, <3>2, <1>1, <1>2, <1>3, <1>4, <2>2, <2>3 DEF Removing
  <2>4. CASE s.kind = "add"
    <3>1. found[p] = "0002" \/ \E i \in Past(p) : S[i] = Do("create", "users")
      BY <1>1, <2>1, <2>4 DEF UpgradeStatement, Do
    <3> QED BY <3>1, <1>1, <1>2, <1>3, <1>4, <2>2, <2>4 DEF Removing
  <2> QED BY <1>1, <1>2, <2>2, <2>3, <2>4 DEF Removing
<1>5. CASE command[p] = "downgrade"
  <2>1. DowngradeStatement(found[p], S, at[p])
    BY <1>1, <1>5 DEF Statement, MigrationCommands
  <2>2. s.kind \notin {"create", "add"}
    BY <2>1, <1>1 DEF DowngradeStatement, Do
  <2>3. CASE s.kind = "drop"
    <3>1. \A t \in Range(Tables) : s.on \in t.references =>
             \E i \in Past(p) : S[i] = Do("drop", t.name)
      <4>1. \A k, n : Do(k, n).kind = k
        BY DEF Do
      <4>2. \A t \in Range(Tables) : S[at[p]].on \in t.references =>
               \E i \in 1 .. at[p] - 1 : S[i] = Do("drop", t.name)
        BY <1>1, <2>1, <2>3, <4>1 DEF DowngradeStatement
      <4> QED BY <1>1, <4>2
    <3> QED BY <3>1, <1>1, <1>2, <1>3, <1>5, <2>2, <2>3 DEF Removing
  <2>4. CASE s.kind = "remove"
    <3>1. \A n \in TableNames : \E i \in Past(p) : S[i] = Do("drop", n)
      BY <1>1, <2>1, <2>4 DEF DowngradeStatement, Do
    <3> QED BY <3>1, <1>1, <1>2, <1>3, <1>5, <2>2, <2>4 DEF Removing
  <2> QED BY <1>1, <1>2, <2>2, <2>3, <2>4
<1> QED BY <1>1, <1>4, <1>5 DEF MigrationCommands

\* The plan of a session.
LEMMA PlanFacts ==
    ASSUME TypeOK, RolesKept, NEW s \in Sessions, s \in Running
    PROVE  /\ s \in Processes /\ s \notin Migrators
           /\ \/ command[s] = "request" /\ Script(s) = ClientPlan
              \/ command[s] = "seed" /\ Script(s) = SeedPlan
           /\ Script(s) \in Seq(TableNames)
           /\ HasStep(s) => at[s] \in 1 .. Len(Script(s)) /\ Step(s) \in TableNames
<1>1. s \in Processes /\ s \notin Migrators
  BY ProcessesDiffer DEF Processes
<1>2. command[s] \in {"request", "seed"} /\ at[s] \in Nat \ {0}
  BY <1>1 DEF RolesKept, TypeOK
<1>3. \/ command[s] = "request" /\ Script(s) = ClientPlan
      \/ command[s] = "seed" /\ Script(s) = SeedPlan
  BY <1>2 DEF Script
<1>4. Script(s) \in Seq(TableNames)
  BY <1>3, PlansAre
<1>5. HasStep(s) => at[s] \in 1 .. Len(Script(s)) /\ Step(s) \in TableNames
  BY <1>2, <1>4 DEF HasStep, Step
<1> QED BY <1>1, <1>3, <1>4, <1>5

-----------------------------------------------------------------------------
(* A statement of one process leaves alone what it has not written to.      *)

\* A statement of a run ends and starts no run.
LEMMA RunFrame ==
    ASSUME UNCHANGED <<Committed, Run>>
    PROVE  /\ Running' = Running /\ Migrating' = Migrating
           /\ \A q : Script(q)' = Script(q)
           /\ \A q : Undisturbed(q)' <=> Undisturbed(q)
           /\ UNCHANGED <<schema, versions, runs, pc, command, found, met, elsewhere, raced>>
BY DEF Committed, Run, Running, Migrating, Script, Undisturbed

\* A transaction that is left alone stays as it is, also when another run ends.
LEMMA TransactionFrame ==
    ASSUME schema' = schema, NEW q, Transaction(q),
           q \in Running' <=> q \in Running,
           Undisturbed(q)' => Undisturbed(q),
           command'[q] = command[q], found'[q] = found[q], at'[q] = at[q],
           due'[q] = due[q], made'[q] = made[q], gone'[q] = gone[q], row'[q] = row[q]
    PROVE  Transaction(q)'
<1>1. Script(q)' = Script(q)
  BY DEF Script
<1>2. Past(q)' = Past(q)
  BY <1>1 DEF Past
<1>3. Seen(q)' = Seen(q) /\ (HasStep(q)' <=> HasStep(q)) /\ Step(q)' = Step(q)
      /\ (Written(q)' <=> Written(q))
  BY <1>1 DEF Seen, HasStep, Step, Written
<1>4. \A j \in Past(q) : Done(q, Script(q)[j])'
  BY <1>1, <1>3 DEF Transaction, StatementsDone, Done
<1>5. StatementsDone(q)'
  BY <1>1, <1>2, <1>4 DEF StatementsDone
<1>6. NothingElse(q)'
  BY <1>1, <1>2, <1>3 DEF Transaction, NothingElse
<1>7. LastStamped(q)'
  BY <1>1, <1>3 DEF Transaction, LastStamped
<1>8. DueHolds(q)'
  BY <1>1, <1>3 DEF Transaction, DueHolds
<1> QED BY <1>5, <1>6, <1>7, <1>8 DEF Transaction

-----------------------------------------------------------------------------
(* A statement that is through.                                             *)

\* A stamp at the end of those so far.
LEMMA Appended ==
    ASSUME NEW S, NEW r \in Seq(S), NEW x \in S
    PROVE  /\ Append(r, x) \in Seq(S) /\ Append(r, x) # <<>>
           /\ Range(Append(r, x)) = Range(r) \cup {x}
           /\ Last(Append(r, x)) = x
<1>1. /\ Append(r, x) \in Seq(S) /\ Len(Append(r, x)) = Len(r) + 1 /\ Len(r) \in Nat
      /\ \A i \in 1 .. Len(r) : Append(r, x)[i] = r[i]
      /\ Append(r, x)[Len(r) + 1] = x
      /\ DOMAIN Append(r, x) = 1 .. Len(r) + 1 /\ DOMAIN r = 1 .. Len(r)
  OBVIOUS
<1>2. Append(r, x) # <<>>
  <2>1. Len(Append(r, x)) # Len(<<>>)
    BY <1>1
  <2> QED BY <2>1
<1>3. Range(Append(r, x)) = Range(r) \cup {x}
  <2> DEFINE a == Append(r, x)
  <2> HIDE DEF a
  <2>1. /\ DOMAIN a = 1 .. Len(r) + 1 /\ DOMAIN r = 1 .. Len(r) /\ Len(r) \in Nat
        /\ \A i \in 1 .. Len(r) : a[i] = r[i]
        /\ a[Len(r) + 1] = x
    BY <1>1 DEF a
  <2>2. \A i \in DOMAIN a : i \in DOMAIN r \/ i = Len(r) + 1
    BY <2>1
  <2>3. \A i \in DOMAIN r : i \in DOMAIN a
    BY <2>1
  <2>4. Len(r) + 1 \in DOMAIN a
    BY <2>1
  <2>5. Range(a) = Range(r) \cup {x}
    BY <2>1, <2>2, <2>3, <2>4 DEF Range
  <2> QED BY <2>5 DEF a
<1> QED BY <1>1, <1>2, <1>3 DEF Last

\* A statement that leaves what it should leave behind keeps the transaction in
\* step with its script.
LEMMA Advanced ==
    ASSUME TypeOK, RolesKept, NEW p \in Migrating, Transaction(p), HasStep(p),
           UNCHANGED <<schema, Run>>,
           NEW s, s = Step(p), Done(p, s)',
           at'[p] = at[p] + 1, ~due'[p],
           made[p] \subseteq made'[p], gone[p] \subseteq gone'[p],
           \A n \in made'[p] \ made[p] : s.kind \in Adding /\ s.on = n,
           \A n \in gone'[p] \ gone[p] : s.kind \in Removing /\ s.on = n,
           row'[p] = IF s.kind = "stamp" THEN Append(row[p], s.on) ELSE row[p]
    PROVE  Transaction(p)' /\ at'[p] <= Len(Script(p)') + 1
<1> DEFINE S == Script(p)
           a == at[p]
<1>1. /\ Script(p)' = S /\ (Undisturbed(p)' <=> Undisturbed(p))
  BY DEF Run, Script, Undisturbed
<1>2. /\ S \in Seq(Steps) /\ Len(S) \in Nat /\ a \in 1 .. Len(S) /\ s = S[a]
      /\ Past(p) = 1 .. a - 1
      /\ p \in Processes /\ command[p] \in MigrationCommands
  BY ScriptFacts DEF Step
<1>3. DOMAIN S = 1 .. Len(S)
  BY <1>2
<1> HIDE DEF S, a
<1>4. Past(p)' = 1 .. a
  <2>1. Past(p)' = {j \in DOMAIN S : j < a + 1}
    BY <1>1 DEF Past, a
  <2> QED BY <2>1, <1>2, <1>3
<1>5. a \in Past(p)' /\ Past(p) \subseteq Past(p)' /\ \A j \in Past(p)' : j \in Past(p) \/ j = a
  BY <1>2, <1>4
<1>6. row[p] \in Seq(Range(Revisions)) /\ (s.kind = "stamp" => s.on \in Range(Revisions))
  BY <1>2, StatementKinds DEF TypeOK, S
<1>7. /\ Range(row[p]) \subseteq Range(row'[p])
      /\ s.kind = "stamp" => row'[p] # <<>> /\ Last(row'[p]) = s.on
      /\ s.kind # "stamp" => row'[p] = row[p]
  BY <1>6, Appended
<1>8. ASSUME NEW j \in Past(p), S[j].kind = "ensure", S[j].on \in Seen(p)
      PROVE  S[j].on \in Seen(p)'
  <2>1. j \in 1 .. Len(S)
    BY <1>2
  <2>2. S[j].on = VersionTable \/ command[p] = "upgrade"
    BY <2>1, <1>8, StatementKinds DEF S, Adding
  <2>3. s.kind \in Removing => command[p] = "downgrade" /\ s.on # VersionTable
    BY <1>2, StatementKinds, NamesDiffer DEF S, Removing, Domain
  <2>4. S[j].on \notin gone'[p] \ gone[p]
    BY <2>2, <2>3
  <2> QED BY <2>4, <1>8 DEF Seen
<1>9. ASSUME NEW j \in Past(p)
      PROVE  Done(p, S[j])'
  <2>1. Done(p, S[j])
    BY DEF Transaction, StatementsDone, S
  <2>2. S[j].kind = "ensure" /\ (S[j].on = VersionTable \/ Undisturbed(p)')
           => S[j].on \in Seen(p)'
    BY <2>1, <1>1, <1>8 DEF Done
  <2> QED BY <2>1, <2>2, <1>1, <1>7 DEF Done, S, Removing
<1>10. StatementsDone(p)'
  BY <1>1, <1>2, <1>5, <1>9 DEF StatementsDone, S
<1>11. NothingElse(p)'
  <2>1. /\ \A n \in made'[p] : \E j \in Past(p)' : S[j].kind \in Adding /\ S[j].on = n
        /\ \A n \in gone'[p] : \E j \in Past(p)' : S[j].kind \in Removing /\ S[j].on = n
    BY <1>2, <1>5 DEF Transaction, NothingElse, S
  <2>2. Written(p)' => \E j \in Past(p)' : S[j].kind = "stamp"
    BY <1>2, <1>5, <1>7 DEF Transaction, NothingElse, S, Written
  <2> QED BY <2>1, <2>2, <1>1 DEF NothingElse
<1>12. LastStamped(p)'
  <2>1. at'[p] - 1 = a
    BY <1>2 DEF a
  <2> QED BY <2>1, <1>1, <1>2, <1>7 DEF LastStamped, Written
<1>13. DueHolds(p)'
  BY DEF DueHolds
<1>14. at'[p] <= Len(Script(p)') + 1
  BY <1>1, <1>2 DEF a
<1> QED BY <1>10, <1>11, <1>12, <1>13, <1>14 DEF Transaction

\* What a statement of p leaves alone.
LEMMA StatementFrame ==
    ASSUME Inv, NEW p \in Migrating, UNCHANGED <<Committed, Run>>,
           \A q \in Processes \ {p} :
              /\ at'[q] = at[q] /\ due'[q] = due[q] /\ made'[q] = made[q]
              /\ gone'[q] = gone[q] /\ row'[q] = row[q] /\ locks'[q] = locks[q],
           Transaction(p)', at'[p] <= Len(Script(p)') + 1
    PROVE  /\ CatalogMatchesRevision' /\ RolesKept' /\ TransactionsKept'
           /\ HistoryKept' /\ SessionsHold'
           /\ made' = made /\ gone' = gone => NamesExclusive'
           /\ locks' = locks /\ made' = made /\ gone' = gone => LocksExclusive'
           /\ row' = row => RowsExclusive'
<1>1. /\ Running' = Running /\ Migrating' = Migrating
      /\ \A q : Script(q)' = Script(q)
      /\ \A q : Undisturbed(q)' <=> Undisturbed(q)
      /\ schema' = schema /\ versions' = versions /\ runs' = runs /\ pc' = pc
      /\ command' = command /\ found' = found /\ met' = met
      /\ elsewhere' = elsewhere /\ raced' = raced
  BY RunFrame
<1>2. /\ p \in Processes /\ p \in Running /\ p \in Migrators
      /\ command[p] \in MigrationCommands
      /\ p \notin Sessions /\ Sessions \subseteq Processes
      /\ Migrating \subseteq Processes
  BY ScriptFacts, ProcessesDiffer DEF Inv, Migrating, Processes
<1>3. CatalogMatchesRevision'
  BY <1>1 DEF Inv, CatalogMatchesRevision
<1>4. RolesKept'
  BY <1>1, <1>2 DEF Inv, RolesKept
<1>5. TransactionsKept'
  <2>1. ASSUME NEW q \in Migrating, q # p
        PROVE  Transaction(q)'
    BY <2>1, <1>1, <1>2, TransactionFrame DEF Inv, TransactionsKept
  <2> QED BY <2>1, <1>1 DEF TransactionsKept
<1>6. HistoryKept'
  BY <1>1 DEF Inv, HistoryKept
<1>7. SessionsHold'
  BY <1>1, <1>2 DEF Inv, SessionsHold
<1>8. made' = made /\ gone' = gone => NamesExclusive'
  BY <1>1 DEF Inv, NamesExclusive
<1>9. locks' = locks /\ made' = made /\ gone' = gone => LocksExclusive'
  BY <1>1 DEF Inv, LocksExclusive
<1>10. row' = row => RowsExclusive'
  <2> SUFFICES ASSUME row' = row
               PROVE  RowsExclusive'
    OBVIOUS
  <2>1. \A q : Written(q)' <=> Written(q)
    BY DEF Written
  <2> QED BY <2>1, <1>1 DEF Inv, RowsExclusive
<1> QED BY <1>3, <1>4, <1>5, <1>6, <1>7, <1>8, <1>9, <1>10

\* A type that a downgrade is to drop is there: so were the tables it has dropped.
LEMMA RemoveFindsType ==
    ASSUME Inv, NEW p \in Migrating, HasStep(p), Step(p).kind = "remove"
    PROVE  Step(p).on \in Seen(p)
<1>1. TableNames \subseteq gone[p] /\ Step(p).on \notin made[p] \cup gone[p]
  BY StepFacts DEF Inv, TransactionsKept
<1>2. p \in Processes
  BY ScriptFacts DEF Inv
<1>3. "users" \in schema /\ "users" \in Domain
  BY <1>1, <1>2, NamesDiffer DEF Inv, NamesExclusive, Domain
<1>4. Step(p).on \in Domain
  BY StepFacts, StatementKinds DEF Inv, TransactionsKept, Domain
<1> QED BY <1>1, <1>3, <1>4, CatalogFacts DEF Inv, Seen

\* checkfirst reads what the transaction sees; until the statement is through
\* only an overlapping run can change the answer.
LEMMA CheckFirstKeeps ==
    ASSUME Inv, NEW p \in Migrators, CheckFirst(p)
    PROVE  Inv'
<1>1. /\ HasStep(p) /\ Step(p).kind \in {"ensure", "remove"} /\ ~due[p]
      /\ UNCHANGED <<Committed, Run>>
      /\ made' = made /\ gone' = gone /\ row' = row /\ locks' = locks
  BY DEF CheckFirst
<1>2. /\ p \in Migrating /\ p \in Processes /\ Transaction(p)
      /\ at \in [Processes -> Nat \ {0}] /\ due \in [Processes -> BOOLEAN]
      /\ row[p] \in Seq(Range(Revisions))
  BY <1>1 DEF Inv, Migrating, TransactionsKept, TypeOK, HasStep, Processes
<1>3. /\ at[p] \in 1 .. Len(Script(p))
      /\ Script(p)[at[p]] = Step(p)
  BY <1>1, <1>2, StepFacts DEF Inv
<1> DEFINE there == Step(p).kind = "ensure" <=> Step(p).on \in Seen(p)
<1>4. /\ there => at' = [at EXCEPT ![p] = @ + 1] /\ due' = due
      /\ ~there => due' = [due EXCEPT ![p] = TRUE] /\ at' = at
  BY DEF CheckFirst, Advance
<1>5. \A q \in Processes \ {p} :
         /\ at'[q] = at[q] /\ due'[q] = due[q] /\ made'[q] = made[q]
         /\ gone'[q] = gone[q] /\ row'[q] = row[q] /\ locks'[q] = locks[q]
  BY <1>1, <1>2, <1>4
<1>6. /\ schema' = schema /\ Script(p)' = Script(p)
      /\ Running' = Running /\ Seen(p)' = Seen(p)
      /\ (Undisturbed(p)' <=> Undisturbed(p))
  BY <1>1, RunFrame DEF Seen
<1>7. Transaction(p)' /\ at'[p] <= Len(Script(p)') + 1
  <2>1. CASE there
    <3>1. Step(p).kind = "ensure"
      BY <2>1, <1>1, <1>2, RemoveFindsType
    <3>2. Step(p).on \in Seen(p)
      BY <2>1, <3>1
    <3>3. PICK s : s = Step(p)
      OBVIOUS
    <3>4. Done(p, s)'
      BY <3>1, <3>2, <3>3, <1>6 DEF Done, Removing
    <3>5. at'[p] = at[p] + 1 /\ ~due'[p]
      BY <2>1, <1>1, <1>2, <1>4
    <3>6. UNCHANGED <<schema, Run>>
      BY <1>1 DEF Committed
    <3>7. row'[p] = IF s.kind = "stamp" THEN Append(row[p], s.on) ELSE row[p]
      BY <3>1, <3>3, <1>1
    <3>8. TypeOK /\ RolesKept
      BY DEF Inv
    <3> QED BY <3>3, <3>4, <3>5, <3>6, <3>7, <3>8, <1>1, <1>2, Advanced
  <2>2. CASE ~there
    <3>1. at' = at /\ due'[p]
      BY <2>2, <1>2, <1>4
    <3>2. Past(p)' = Past(p) /\ (HasStep(p)' <=> HasStep(p)) /\ Step(p)' = Step(p)
      BY <3>1, <1>6 DEF Past, HasStep, Step
    <3>3. \A j \in Past(p) : Done(p, Script(p)[j])'
      BY <1>1, <1>2, <1>6 DEF Transaction, StatementsDone, Done
    <3>4. StatementsDone(p)'
      BY <3>2, <3>3, <1>6 DEF StatementsDone
    <3>5. NothingElse(p)' /\ LastStamped(p)'
      BY <3>1, <3>2, <1>1, <1>2, <1>6 DEF Transaction, NothingElse, LastStamped, Written
    <3>6. DueHolds(p)'
      BY <2>2, <3>2, <1>1, <1>6 DEF DueHolds
    <3>7. at[p] <= Len(Script(p)) + 1
      BY <1>2 DEF Inv, RolesKept
    <3> QED BY <3>1, <3>4, <3>5, <3>6, <3>7, <1>6 DEF Transaction
  <2> QED BY <2>1, <2>2
<1>8. TypeOK'
  <2>1. at' \in [Processes -> Nat \ {0}] /\ due' \in [Processes -> BOOLEAN]
    <3> HIDE DEF there
    <3>1. at[p] + 1 \in Nat \ {0}
      BY <1>2
    <3> QED BY <3>1, <1>2, <1>4
  <2> QED BY <2>1, <1>1, RunFrame DEF Inv, TypeOK
<1> QED BY <1>1, <1>2, <1>5, <1>7, <1>8, StatementFrame DEF Inv

-----------------------------------------------------------------------------
(* The other statements of a migration.                                     *)

\* Which table a statement has to lock next; upgrades and single column changes
\* lock users only.
LEMMA NextLockFacts ==
    ASSUME Inv, NEW p \in Migrating, HasStep(p)
    PROVE  /\ NextLock(p) \subseteq TableNames
           /\ Step(p).kind \in {"add", "discard"} /\ NextLock(p) = {} => "users" \in locks[p]
           /\ Step(p).kind = "drop" /\ NextLock(p) = {} => Step(p).on \in locks[p]
           /\ Step(p).kind \notin {"add", "discard", "drop"} => NextLock(p) = {}
           /\ command[p] = "upgrade" \/ found[p] # "0002" => NextLock(p) \subseteq {"users"}
<1> DEFINE s == Step(p)
           rest == TableOf(s.on).references \ locks[p]
<1>1. s.kind = "drop" => s.on \in TableNames /\ found[p] = "0002" /\ command[p] = "downgrade"
  <2>1. at[p] \in 1 .. Len(Script(p)) /\ s = Script(p)[at[p]]
    BY StepFacts DEF Inv, TransactionsKept
  <2> QED BY <2>1, StatementKinds DEF Inv, Removing
<1>2. s.kind = "drop" => rest \subseteq TableNames
  <2> SUFFICES ASSUME s.kind = "drop"
               PROVE  TableOf(s.on).references \subseteq TableNames
    OBVIOUS
  <2>1. PICK k \in 1 .. Len(Tables) : TableOf(s.on) = Tables[k]
    BY <1>1, TableOfName, TableNamesDiffer DEF Range
  <2> QED BY <2>1, TablesOrdered, TableNamesDiffer
<1>4. "users" \in TableNames
  BY NamesDiffer
<1>5. CASE s.kind \in {"add", "discard"}
  <2>1. NextLock(p) = {"users"} \ locks[p]
    BY <1>5 DEF NextLock
  <2> QED BY <2>1, <1>4, <1>5
<1>6. CASE s.kind = "drop"
  <2>1. \/ s.on \notin locks[p] /\ NextLock(p) = {s.on}
        \/ s.on \in locks[p] /\ NextLock(p) \subseteq rest
    BY <1>6 DEF NextLock
  <2> QED BY <2>1, <1>1, <1>2, <1>6
<1>7. CASE s.kind \notin {"add", "discard", "drop"}
  <2>1. NextLock(p) = {}
    BY <1>7 DEF NextLock
  <2> QED BY <2>1, <1>7
<1> QED BY <1>5, <1>6, <1>7

\* Nobody is in the way of a statement that is ready.
LEMMA Unblocked ==
    ASSUME NEW p \in Migrators, Ready(p), NEW q \in Processes, q # p
    PROVE  /\ NextLock(p) \cap locks[q] = {}
           /\ Step(p).kind = "create" \/ (Step(p).kind = "ensure" /\ due[p])
                => Step(p).on \notin made[q] \ Seen(p)
           /\ Step(p).kind = "remove" /\ due[p] => Step(p).on \notin gone[q]
           /\ Step(p).kind = "stamp" => ~RowConflict(p, q)
<1>1. HasStep(p) /\ q \notin BlockMigrator(p)
  BY DEF Ready, Blocking
<1> QED BY <1>1 DEF BlockMigrator

\* A migration's lock on a table is granted only while nobody else has one.
LEMMA LockTableKeeps ==
    ASSUME Inv, NEW p \in Migrators, LockTable(p)
    PROVE  Inv'
<1>1. /\ HasStep(p) /\ Ready(p) /\ locks' = [locks EXCEPT ![p] = @ \cup NextLock(p)]
      /\ UNCHANGED <<Committed, Run>>
      /\ at' = at /\ due' = due /\ made' = made /\ gone' = gone /\ row' = row
  BY DEF LockTable, Ready
<1>2. /\ p \in Migrating /\ p \in Processes /\ Transaction(p)
      /\ locks \in [Processes -> SUBSET TableNames]
  BY <1>1, TableOfName DEF Inv, Migrating, TransactionsKept, TypeOK, HasStep, Processes
<1>3. /\ locks'[p] = locks[p] \cup NextLock(p)
      /\ \A q \in Processes \ {p} : locks'[q] = locks[q] /\ NextLock(p) \cap locks[q] = {}
  BY <1>1, <1>2, Unblocked
<1>4. Transaction(p)' /\ at'[p] <= Len(Script(p)') + 1
  <2>1. Transaction(p)'
    BY <1>1, <1>2, RunFrame, TransactionFrame
  <2>2. at[p] <= Len(Script(p)) + 1 /\ Script(p)' = Script(p)
    BY <1>1, <1>2, RunFrame DEF Inv, RolesKept
  <2> QED BY <2>1, <2>2, <1>1
<1>5. TypeOK'
  <2>1. locks' \in [Processes -> SUBSET {t.name : t \in Range(Tables)}]
    BY <1>1, <1>2, NextLockFacts, TableOfName
  <2> QED BY <2>1, <1>1, RunFrame DEF Inv, TypeOK
<1>6. LocksExclusive'
  <2>1. ASSUME NEW q \in Migrators, NEW r \in Processes, q # r
        PROVE  locks'[q] \cap locks'[r] = {}
    BY <2>1, <1>2, <1>3 DEF Inv, LocksExclusive, Processes
  <2>2. ASSUME NEW q \in Migrating
        PROVE  /\ \A t \in gone[q] : t \in {u.name : u \in Range(Tables)} => t \in locks'[q]
               /\ Hash \in made[q] \cup gone[q] => "users" \in locks'[q]
               /\ command[q] = "upgrade" \/ found[q] # "0002" => locks'[q] \subseteq {"users"}
    <3>1. CASE q = p
      BY <3>1, <1>1, <1>2, <1>3, NextLockFacts DEF Inv, LocksExclusive
    <3>2. CASE q # p
      BY <3>2, <1>3 DEF Inv, LocksExclusive, Migrating, Processes
    <3> QED BY <3>1, <3>2
  <2> QED BY <2>1, <2>2, <1>1, RunFrame DEF LocksExclusive
<1> QED BY <1>1, <1>2, <1>3, <1>4, <1>5, <1>6, StatementFrame DEF Inv

\* Whoever runs no migration has written nothing.
LEMMA Bystander ==
    ASSUME RolesKept, NEW q \in Processes \ Migrating
    PROVE  made[q] = {} /\ gone[q] = {} /\ row[q] = <<>>
BY DEF RolesKept, Migrating, Processes

\* CREATE TABLE, CREATE TYPE and ADD COLUMN are possible only for a name that
\* nobody has, and wait for a transaction that creates it.
LEMMA CreateKeeps ==
    ASSUME Inv, NEW p \in Migrators, Create(p)
    PROVE  Inv'
<1>1. PICK s : s = Step(p)
  OBVIOUS
<1>2. /\ HasStep(p) /\ Ready(p) /\ Possible(p) /\ NextLock(p) = {}
      /\ s.kind \in {"create", "add"} \/ (s.kind = "ensure" /\ due[p])
      /\ made' = [made EXCEPT ![p] = @ \cup {s.on}]
      /\ due' = [due EXCEPT ![p] = FALSE] /\ at' = [at EXCEPT ![p] = @ + 1]
      /\ UNCHANGED <<Committed, Run>> /\ gone' = gone /\ row' = row /\ locks' = locks
  BY <1>1 DEF Create, Ready, Advance
<1>3. /\ p \in Migrating /\ p \in Processes /\ Transaction(p)
      /\ at \in [Processes -> Nat \ {0}] /\ due \in [Processes -> BOOLEAN]
      /\ made \in [Processes -> SUBSET Names]
  BY <1>2 DEF Inv, Migrating, TransactionsKept, TypeOK, HasStep, Processes
<1>4. /\ at'[p] = at[p] + 1 /\ ~due'[p] /\ made'[p] = made[p] \cup {s.on}
      /\ \A q \in Processes \ {p} :
            at'[q] = at[q] /\ due'[q] = due[q] /\ made'[q] = made[q]
  BY <1>2, <1>3
<1>5. s.on \notin made[p] \cup gone[p] /\ s \in Steps
  BY <1>1, <1>2, <1>3, StepFacts DEF Inv
<1>6. /\ s.kind = "add" => s.on = Hash
      /\ s.kind = "create" => s.on \in TableNames /\ command[p] = "upgrade"
      /\ s.kind = "ensure" => s.on \in TypeNames \cup {VersionTable}
  <2>1. at[p] \in 1 .. Len(Script(p)) /\ s = Script(p)[at[p]]
    BY <1>1, <1>2, <1>3, StepFacts DEF Inv
  <2>2. s.kind = "create" => command[p] = "upgrade"
    BY <1>1, <1>2, <1>3, StepFacts DEF Inv
  <2> QED BY <2>1, <2>2, <1>3, StatementKinds DEF Inv
<1>7. s.on \notin Seen(p)
  BY <1>1, <1>2, <1>6 DEF Possible
<1>8. s.on \notin schema
  BY <1>5, <1>7 DEF Seen
<1>9. ASSUME NEW q \in Processes, q # p
      PROVE  s.on \notin made[q]
  <2>1. CASE s.kind \in {"create", "ensure"}
    BY <2>1, <1>1, <1>2, <1>7, <1>9, Unblocked
  <2>2. CASE s.kind = "add"
    <3>1. "users" \in locks[p] /\ s.on = Hash
      BY <2>2, <1>1, <1>2, <1>3, <1>6, NextLockFacts
    <3>2. CASE q \in Migrating
      BY <3>1, <3>2, <1>3, <1>9 DEF Inv, LocksExclusive
    <3>3. CASE q \notin Migrating
      BY <3>3, Bystander DEF Inv
    <3> QED BY <3>2, <3>3
  <2> QED BY <2>1, <2>2, <1>2
<1>10. Transaction(p)' /\ at'[p] <= Len(Script(p)') + 1
  <2>1. s.kind = "create" => TableOf(s.on).types \subseteq made[p]
    <3> SUFFICES ASSUME s.kind = "create"
                 PROVE  TableOf(s.on).types \subseteq made[p]
      OBVIOUS
    <3>1. TableOf(s.on).types \subseteq Seen(p) /\ TableOf(s.on).types \subseteq TypeNames
      BY <1>1, <1>2, <1>3, StepFacts DEF Possible, Inv
    <3>2. s.on \in Domain /\ TypeNames \subseteq Domain
      BY <1>6 DEF Domain
    <3>3. schema \cap Domain = {}
      BY <3>2, <1>8, CatalogFacts DEF Inv
    <3> QED BY <3>1, <3>2, <3>3 DEF Seen
  <2>2. Done(p, s)'
    BY <2>1, <1>2, <1>4 DEF Done, Seen, Removing
  <2>3. TypeOK /\ RolesKept /\ UNCHANGED <<schema, Run>>
    BY <1>2 DEF Inv, Committed
  <2>4. s.kind # "stamp" /\ s.kind \in Adding
    BY <1>2 DEF Adding
  <2> QED BY <2>2, <2>3, <2>4, <1>1, <1>2, <1>3, <1>4, Advanced
<1>11. TypeOK'
  <2>1. s.on \in Names
    BY <1>2, <1>6, NamesAre DEF Domain
  <2>2. at[p] + 1 \in Nat \ {0}
    BY <1>3
  <2>3. /\ at' \in [Processes -> Nat \ {0}] /\ due' \in [Processes -> BOOLEAN]
        /\ made' \in [Processes -> SUBSET Names]
    BY <2>1, <2>2, <1>2, <1>3
  <2> QED BY <2>3, <1>2, RunFrame DEF Inv, TypeOK
<1>12. NamesExclusive'
  BY <1>2, <1>3, <1>4, <1>8, <1>9, RunFrame DEF Inv, NamesExclusive
<1>13. LocksExclusive'
  <2>1. ASSUME NEW q \in Migrating, Hash \in made'[q]
        PROVE  "users" \in locks[q]
    <3>1. CASE q = p /\ s.on = Hash
      <4>1. s.kind = "add"
        BY <3>1, <1>2, <1>6, NamesDiffer DEF Domain
      <4> QED BY <4>1, <3>1, <1>1, <1>2, <1>3, NextLockFacts
    <3>2. CASE ~(q = p /\ s.on = Hash)
      <4>1. Hash \in made[q]
        BY <2>1, <3>2, <1>4 DEF Migrating, Processes
      <4> QED BY <4>1 DEF Inv, LocksExclusive
    <3> QED BY <3>1, <3>2
  <2> QED BY <2>1, <1>2, RunFrame DEF Inv, LocksExclusive
<1> QED BY <1>2, <1>3, <1>4, <1>10, <1>11, <1>12, <1>13, StatementFrame DEF Inv

\* DROP waits for locks; what is dropped was there, and nobody else drops it.
LEMMA DropKeeps ==
    ASSUME Inv, NEW p \in Migrators, Drop(p)
    PROVE  Inv'
<1>1. PICK s : s = Step(p)
  OBVIOUS
<1>2. /\ HasStep(p) /\ Ready(p) /\ Possible(p) /\ NextLock(p) = {}
      /\ s.kind \in {"drop", "discard"} \/ (s.kind = "remove" /\ due[p])
      /\ gone' = [gone EXCEPT ![p] = @ \cup {s.on}]
      /\ due' = [due EXCEPT ![p] = FALSE] /\ at' = [at EXCEPT ![p] = @ + 1]
      /\ UNCHANGED <<Committed, Run>> /\ made' = made /\ row' = row /\ locks' = locks
  BY <1>1 DEF Drop, Ready, Advance
<1>3. /\ p \in Migrating /\ p \in Processes /\ Transaction(p)
      /\ at \in [Processes -> Nat \ {0}] /\ due \in [Processes -> BOOLEAN]
      /\ gone \in [Processes -> SUBSET Names]
  BY <1>2 DEF Inv, Migrating, TransactionsKept, TypeOK, HasStep, Processes
<1>4. /\ at'[p] = at[p] + 1 /\ ~due'[p] /\ gone'[p] = gone[p] \cup {s.on}
      /\ \A q \in Processes \ {p} :
            at'[q] = at[q] /\ due'[q] = due[q] /\ gone'[q] = gone[q]
  BY <1>2, <1>3
<1>5. s.on \notin made[p] \cup gone[p] /\ s \in Steps
  BY <1>1, <1>2, <1>3, StepFacts DEF Inv
<1>6. /\ s.kind = "drop" => s.on \in TableNames
      /\ s.kind = "remove" => s.on \in TypeNames
      /\ s.kind = "discard" => s.on = Hash
  <2>1. at[p] \in 1 .. Len(Script(p)) /\ s = Script(p)[at[p]]
    BY <1>1, <1>2, <1>3, StepFacts DEF Inv
  <2> QED BY <2>1, <1>3, StatementKinds DEF Inv
<1>7. /\ s.kind = "drop" => s.on \in locks[p]
      /\ s.kind = "discard" => "users" \in locks[p]
  BY <1>1, <1>2, <1>3, NextLockFacts
<1>8. s.on \in schema
  <2>1. s.on \in Seen(p)
    BY <1>1, <1>2, <1>6 DEF Possible
  <2> QED BY <2>1, <1>5 DEF Seen
<1>9. ASSUME NEW q \in Processes, q # p
      PROVE  s.on \notin gone[q]
  <2>1. CASE s.kind = "remove"
    BY <2>1, <1>1, <1>2, <1>9, Unblocked
  <2>2. CASE s.kind = "drop"
    <3>1. CASE q \in Migrating
      BY <2>2, <3>1, <1>3, <1>6, <1>7, <1>9, TableOfName DEF Inv, LocksExclusive
    <3>2. CASE q \notin Migrating
      BY <3>2, Bystander DEF Inv
    <3> QED BY <3>1, <3>2
  <2>3. CASE s.kind = "discard"
    <3>1. CASE q \in Migrating
      BY <2>3, <3>1, <1>3, <1>6, <1>7, <1>9 DEF Inv, LocksExclusive
    <3>2. CASE q \notin Migrating
      BY <3>2, Bystander DEF Inv
    <3> QED BY <3>1, <3>2
  <2> QED BY <2>1, <2>2, <2>3, <1>2
<1>10. Transaction(p)' /\ at'[p] <= Len(Script(p)') + 1
  <2>1. Done(p, s)'
    BY <1>2, <1>4 DEF Done, Seen, Removing
  <2>2. TypeOK /\ RolesKept /\ UNCHANGED <<schema, Run>>
    BY <1>2 DEF Inv, Committed
  <2>3. s.kind # "stamp" /\ s.kind \in Removing
    BY <1>2 DEF Removing
  <2> QED BY <2>1, <2>2, <2>3, <1>1, <1>2, <1>3, <1>4, Advanced
<1>11. TypeOK'
  <2>1. s.on \in Names
    BY <1>2, <1>6, NamesAre DEF Domain
  <2>2. at[p] + 1 \in Nat \ {0}
    BY <1>3
  <2>3. /\ at' \in [Processes -> Nat \ {0}] /\ due' \in [Processes -> BOOLEAN]
        /\ gone' \in [Processes -> SUBSET Names]
    BY <2>1, <2>2, <1>2, <1>3
  <2> QED BY <2>3, <1>2, RunFrame DEF Inv, TypeOK
<1>12. NamesExclusive'
  BY <1>2, <1>3, <1>4, <1>8, <1>9, RunFrame DEF Inv, NamesExclusive
<1>13. LocksExclusive'
  <2>1. ASSUME NEW q \in Migrating, NEW t \in gone'[q]
        PROVE  /\ t \in {u.name : u \in Range(Tables)} => t \in locks[q]
               /\ t = Hash => "users" \in locks[q]
    <3>1. CASE q = p /\ t = s.on
      <4>1. /\ t \in TableNames => s.kind = "drop"
            /\ t = Hash => s.kind = "discard"
        BY <3>1, <1>2, <1>6, NamesDiffer DEF Domain
      <4> QED BY <4>1, <3>1, <1>7, TableOfName
    <3>2. CASE ~(q = p /\ t = s.on)
      <4>1. t \in gone[q]
        BY <2>1, <3>2, <1>4 DEF Migrating, Processes
      <4> QED BY <4>1 DEF Inv, LocksExclusive
    <3> QED BY <3>1, <3>2
  <2> QED BY <2>1, <1>2, RunFrame DEF Inv, LocksExclusive
<1> QED BY <1>2, <1>3, <1>4, <1>10, <1>11, <1>12, <1>13, StatementFrame DEF Inv

\* Whoever writes from an empty alembic_version writes the row of 0001 first.
LEMMA FirstStamp ==
    ASSUME Inv, NEW p \in Migrating, found[p] = "base"
    PROVE  /\ Written(p) => command[p] = "upgrade" /\ "0001" \in Range(row[p])
           /\ HasStep(p) /\ Step(p).kind = "stamp" /\ ~Written(p) => Step(p).on = "0001"
<1>1. /\ Transaction(p) /\ command[p] \in MigrationCommands
      /\ Past(p) = 1 .. at[p] - 1 /\ at[p] \in 1 .. Len(Script(p)) + 1
      /\ Len(Script(p)) \in Nat
      /\ command[p] = "upgrade" => Script(p) = UpgradeFrom["base"]
  BY ScriptFacts DEF Inv, TransactionsKept
<1>2. command[p] = "upgrade" =>
         Script(p)[2].kind = "stamp" /\ Script(p)[2].on = "0001"
  BY <1>1, UpgradeOfBase DEF Do
<1>3. ASSUME command[p] = "upgrade", at[p] > 2
      PROVE  "0001" \in Range(row[p])
  <2>1. 2 \in Past(p)
    BY <1>1, <1>3
  <2> QED BY <2>1, <1>1, <1>2, <1>3 DEF Transaction, StatementsDone, Done
<1>4. Written(p) => command[p] = "upgrade" /\ "0001" \in Range(row[p])
  <2> SUFFICES ASSUME Written(p)
               PROVE  command[p] = "upgrade" /\ "0001" \in Range(row[p])
    OBVIOUS
  <2>1. command[p] = "upgrade"
    BY <1>1, TransactionFacts DEF Inv, Transaction, MigrationCommands
  <2>2. PICK j \in Past(p) : Script(p)[j].kind = "stamp"
    BY <1>1 DEF Transaction, NothingElse
  <2>3. j \in 1 .. Len(Script(p)) /\ j <= at[p] - 1
    BY <2>2, <1>1
  <2>4. j >= 2
    BY <2>1, <2>2, <2>3, StatementKinds DEF Inv
  <2>5. at[p] > 2
    BY <2>3, <2>4, <1>1
  <2> QED BY <2>1, <2>5, <1>3
<1>5. ASSUME HasStep(p), Step(p).kind = "stamp", ~Written(p)
      PROVE  Step(p).on = "0001"
  <2>1. at[p] \in 1 .. Len(Script(p)) /\ Step(p) = Script(p)[at[p]]
    BY <1>1, <1>5, StepFacts DEF Inv
  <2>2. command[p] = "upgrade" /\ at[p] >= 2
    BY <2>1, <1>1, <1>5, StatementKinds DEF Inv, MigrationCommands
  <2>3. row[p] = <<>>
    BY <1>5 DEF Written
  <2>4. Range(row[p]) = {}
    BY <2>3 DEF Range
  <2>5. at[p] = 2
    BY <2>1, <2>2, <2>4, <1>1, <1>3
  <2> QED BY <2>1, <2>2, <2>5, <1>2
<1> QED BY <1>4, <1>5

\* UPDATE alembic_version finds the row it expects, or the run fails; a second
\* writer waits for the row.
LEMMA StampKeeps ==
    ASSUME Inv, NEW p \in Migrators, Stamp(p)
    PROVE  Inv'
<1>1. PICK s : s = Step(p)
  OBVIOUS
<1>2. /\ HasStep(p) /\ Ready(p) /\ Possible(p) /\ s.kind = "stamp"
      /\ row' = [row EXCEPT ![p] = Append(@, s.on)] /\ at' = [at EXCEPT ![p] = @ + 1]
      /\ UNCHANGED <<Committed, Run>>
      /\ due' = due /\ made' = made /\ gone' = gone /\ locks' = locks
  BY <1>1 DEF Stamp, Ready, Advance
<1>3. /\ p \in Migrating /\ p \in Processes /\ Transaction(p)
      /\ at \in [Processes -> Nat \ {0}]
      /\ row \in [Processes -> Seq(Range(Revisions))]
  BY <1>2 DEF Inv, Migrating, TransactionsKept, TypeOK, HasStep, Processes
<1>4. /\ at'[p] = at[p] + 1 /\ row'[p] = Append(row[p], s.on)
      /\ \A q \in Processes \ {p} : at'[q] = at[q] /\ row'[q] = row[q]
  BY <1>2, <1>3
<1>5. s.on \in Range(Revisions)
  <2>1. at[p] \in 1 .. Len(Script(p)) /\ s = Script(p)[at[p]]
    BY <1>1, <1>2, <1>3, StepFacts DEF Inv
  <2> QED BY <2>1, <1>2, <1>3, StatementKinds DEF Inv
<1>6. row[p] \in Seq(Range(Revisions))
  BY <1>3
<1>7. /\ row'[p] \in Seq(Range(Revisions)) /\ row'[p] # <<>>
      /\ Range(row'[p]) = Range(row[p]) \cup {s.on} /\ Last(row'[p]) = s.on
  BY <1>4, <1>5, <1>6, Appended
<1>8. Transaction(p)' /\ at'[p] <= Len(Script(p)') + 1
  <2>1. Done(p, s)'
    BY <1>2, <1>7 DEF Done, Removing
  <2>2. TypeOK /\ RolesKept /\ UNCHANGED <<schema, Run>>
    BY <1>2 DEF Inv, Committed
  <2>3. ~due'[p]
    BY <1>1, <1>2, <1>3 DEF Transaction, DueHolds
  <2> QED BY <2>1, <2>2, <2>3, <1>1, <1>2, <1>3, <1>4, Advanced
<1>9. TypeOK'
  <2>1. at[p] + 1 \in Nat \ {0}
    BY <1>3
  <2>2. at' \in [Processes -> Nat \ {0}] /\ row' \in [Processes -> Seq(Range(Revisions))]
    BY <2>1, <1>2, <1>3, <1>4, <1>7
  <2> QED BY <2>2, <1>2, RunFrame DEF Inv, TypeOK
<1>10. IF found[p] = "base" THEN "0001" \notin versions ELSE versions = {found[p]}
  <2>1. CASE Written(p)
    BY <2>1, <1>3 DEF Inv, RowsExclusive
  <2>2. CASE ~Written(p)
    <3>1. /\ found[p] # "base" => found[p] \in versions
          /\ s.on \notin versions \ {found[p]}
      BY <2>2, <1>1, <1>2 DEF Possible
    <3>2. found[p] = "base" => s.on = "0001"
      BY <2>2, <1>1, <1>2, <1>3, FirstStamp
    <3> QED BY <3>1, <3>2, CatalogFacts DEF Inv
  <2> QED BY <2>1, <2>2
<1>11. ASSUME NEW q \in Processes, q # p, Written(q)
       PROVE  /\ Range(row'[p]) \cap Range(row[q]) \subseteq {"base"}
              /\ found[p] = "base" \/ found[q] = "base"
  <2>1. ~RowConflict(p, q)
    BY <1>1, <1>2, <1>11, Unblocked
  <2>2. s.on # "base" => s.on \notin Range(row[q])
    <3>1. s.on # "base" => ~Contains(<<found[q]>> \o row[q], s.on)
      BY <2>1, <1>1, <1>11 DEF RowConflict
    <3>2. row[q] \in Seq(Range(Revisions)) /\ found[q] \in Range(Revisions)
      BY <1>3, <1>11 DEF Inv, TypeOK
    <3> DEFINE r == row[q]
               c == <<found[q]>> \o r
    <3>3. /\ c \in Seq(Range(Revisions)) /\ Len(c) = 1 + Len(r)
          /\ \A i \in 1 .. Len(r) : c[1 + i] = r[i]
      BY <3>2, Prefixed
    <3>4. r \in Seq(Range(Revisions))
      BY <3>2
    <3> HIDE DEF c, r
    <3>5. ASSUME NEW x \in Range(r)
          PROVE  \E i \in 1 .. Len(c) : c[i] = x
      <4>1. PICK i \in 1 .. Len(r) : r[i] = x
        BY <3>4 DEF Range
      <4>2. 1 + i \in 1 .. Len(c)
        BY <3>3, <3>4
      <4> QED BY <4>1, <4>2, <3>3
    <3> QED BY <3>1, <3>5 DEF Contains, c, r
  <2>3. CASE Written(p)
    BY <2>2, <2>3, <1>3, <1>7, <1>11 DEF Inv, RowsExclusive
  <2>4. CASE ~Written(p)
    <3>1. row[p] = <<>>
      BY <2>4 DEF Written
    <3>2. Range(row[p]) = {}
      BY <3>1 DEF Range
    <3>3. found[p] # "base" => found[p] # found[q]
      BY <2>1, <2>4, <1>1, <1>11 DEF RowConflict
    <3>4. found[q] # "base" => versions = {found[q]}
      BY <1>11 DEF Inv, RowsExclusive
    <3> QED BY <3>2, <3>3, <3>4, <2>2, <1>7, <1>10
  <2> QED BY <2>3, <2>4
<1>12. RowsExclusive'
  <2>1. ASSUME NEW q \in Processes, Written(q)'
        PROVE  IF found[q] = "base" THEN "0001" \notin versions ELSE versions = {found[q]}
    <3>1. CASE q = p BY <3>1, <1>10
    <3>2. CASE q # p BY <2>1, <3>2, <1>4 DEF Inv, RowsExclusive, Written
    <3> QED BY <3>1, <3>2
  <2>2. ASSUME NEW q \in Processes, NEW r \in Processes, q # r, Written(q)', Written(r)'
        PROVE  /\ Range(row'[q]) \cap Range(row'[r]) \subseteq {"base"}
               /\ found[q] = "base" \/ found[r] = "base"
    <3>1. CASE q = p BY <3>1, <2>2, <1>4, <1>11 DEF Written
    <3>2. CASE r = p BY <3>2, <2>2, <1>4, <1>11 DEF Written
    <3>3. CASE q # p /\ r # p
      BY <3>3, <2>2, <1>4 DEF Inv, RowsExclusive, Written
    <3> QED BY <3>1, <3>2, <3>3
  <2> QED BY <2>1, <2>2, <1>2, RunFrame DEF RowsExclusive
<1> QED BY <1>2, <1>3, <1>4, <1>8, <1>9, <1>12, StatementFrame DEF Inv

-----------------------------------------------------------------------------
(* Statements of sessions.                                                  *)

\* A session locks a table only while no migration has locked it.
LEMMA UseKeeps ==
    ASSUME Inv, NEW s \in Sessions, Use(s)
    PROVE  Inv'
<1>1. /\ HasStep(s) /\ Blocking(s) = {} /\ s \in Running
      /\ Step(s) \in schema /\ (Step(s) = "users" => Hash \in schema)
      /\ locks' = [locks EXCEPT ![s] = @ \cup {Step(s)}]
      /\ at' = [at EXCEPT ![s] = @ + 1]
      /\ UNCHANGED <<Committed, Run>>
      /\ due' = due /\ made' = made /\ gone' = gone /\ row' = row
  BY DEF Use, Ready, HasStep, Advance
<1>2. /\ s \in Processes /\ s \notin Migrators /\ s \notin Migrating
      /\ Step(s) \in TableNames /\ at[s] \in 1 .. Len(Script(s))
      /\ command[s] = "request" => Script(s) = ClientPlan
  BY <1>1, PlanFacts DEF Inv, Migrating
<1>3. at \in [Processes -> Nat \ {0}] /\ locks \in [Processes -> SUBSET TableNames]
  BY TableOfName DEF Inv, TypeOK
<1>4. /\ at'[s] = at[s] + 1 /\ locks'[s] = locks[s] \cup {Step(s)}
      /\ \A q \in Processes \ {s} : at'[q] = at[q] /\ locks'[q] = locks[q]
  BY <1>1, <1>2, <1>3
<1>5. /\ Running' = Running /\ Migrating' = Migrating
      /\ \A q : Script(q)' = Script(q)
      /\ \A q : Undisturbed(q)' <=> Undisturbed(q)
      /\ schema' = schema /\ versions' = versions /\ runs' = runs /\ pc' = pc
      /\ command' = command /\ found' = found /\ met' = met
      /\ elsewhere' = elsewhere /\ raced' = raced
  BY <1>1, RunFrame
<1>6. TypeOK'
  <2>1. at[s] + 1 \in Nat \ {0}
    BY <1>2, <1>3
  <2>2. at' \in [Processes -> Nat \ {0}] /\ locks' \in [Processes -> SUBSET TableNames]
    BY <2>1, <1>1, <1>2, <1>3
  <2> QED BY <2>2, <1>1, <1>5, TableOfName DEF Inv, TypeOK
<1>7. CatalogMatchesRevision' /\ HistoryKept'
  BY <1>5 DEF Inv, CatalogMatchesRevision, HistoryKept
<1>8. RolesKept'
  BY <1>1, <1>2, <1>4, <1>5 DEF Inv, RolesKept
<1>9. TransactionsKept'
  <2>1. ASSUME NEW q \in Migrating
        PROVE  Transaction(q)'
    <3>1. q \in Processes /\ q # s
      BY <1>2 DEF Migrating, Processes
    <3> QED BY <3>1, <1>1, <1>4, <1>5, TransactionFrame DEF Inv, TransactionsKept
  <2> QED BY <2>1, <1>5 DEF TransactionsKept
<1>10. NamesExclusive' /\ RowsExclusive'
  <2>1. \A q : Written(q)' <=> Written(q)
    BY <1>1 DEF Written
  <2> QED BY <2>1, <1>1, <1>5 DEF Inv, NamesExclusive, RowsExclusive
<1>11. LocksExclusive'
  <2>1. \A q \in Migrators : Step(s) \notin locks[q]
    BY <1>1, <1>2 DEF Blocking
  <2>2. ASSUME NEW q \in Migrators, NEW r \in Processes, q # r
        PROVE  locks'[q] \cap locks'[r] = {}
    <3>1. q \in Processes /\ q # s
      BY <1>2 DEF Processes
    <3>2. locks[q] \cap locks[r] = {}
      BY <2>2 DEF Inv, LocksExclusive
    <3> QED BY <2>1, <3>1, <3>2, <1>4
  <2>3. \A q \in Migrating : locks'[q] = locks[q]
    BY <1>2, <1>4 DEF Migrating, Processes
  <2> QED BY <2>2, <2>3, <1>1, <1>5 DEF Inv, LocksExclusive
<1>12. SessionsHold'
  <2>1. ASSUME NEW q \in Sessions \cap Running
        PROVE  /\ "users" \in locks'[q] => Hash \in schema
               /\ at'[q] = 1 => locks'[q] = {}
               /\ command[q] = "request" /\ at'[q] > 1 => "users" \in locks'[q]
    <3>1. CASE q # s
      BY <3>1, <1>4 DEF Inv, SessionsHold, Processes
    <3>2. CASE q = s
      <4>1. "users" \in locks'[s] => Hash \in schema
        BY <1>1, <1>4 DEF Inv, SessionsHold
      <4>2. at'[s] # 1
        BY <1>2, <1>4
      <4>3. command[s] = "request" => "users" \in locks'[s]
        <5>1. CASE at[s] = 1
          BY <5>1, <1>2, <1>4, PlansAre DEF Step
        <5>2. CASE at[s] > 1
          BY <5>2, <1>1, <1>4 DEF Inv, SessionsHold
        <5> QED BY <5>1, <5>2, <1>2
      <4> QED BY <3>2, <4>1, <4>2, <4>3
    <3> QED BY <3>1, <3>2
  <2> QED BY <2>1, <1>5 DEF SessionsHold
<1> QED BY <1>6, <1>7, <1>8, <1>9, <1>10, <1>11, <1>12 DEF Inv

-----------------------------------------------------------------------------
(* Ends of runs and sessions.                                               *)

\* What is left when the transaction of p is over.
LEMMA EndFrame ==
    ASSUME TypeOK, NEW p \in Running, NEW how \in {"ended", "failed"}, EndAs(p, how)
    PROVE  /\ Running' = Running \ {p} /\ Migrating' = Migrating \ {p}
           /\ at'[p] = 1 /\ ~due'[p] /\ locks'[p] = {}
           /\ made'[p] = {} /\ gone'[p] = {} /\ row'[p] = <<>>
           /\ raced' = raced /\ runs' = runs
           /\ \A q \in Processes \ {p} :
                 /\ at'[q] = at[q] /\ due'[q] = due[q] /\ made'[q] = made[q]
                 /\ gone'[q] = gone[q] /\ row'[q] = row[q] /\ locks'[q] = locks[q]
                 /\ command'[q] = command[q] /\ found'[q] = found[q] /\ met'[q] = met[q]
                 /\ q \in Running' <=> q \in Running
                 /\ Undisturbed(q)' <=> Undisturbed(q)
                 /\ Script(q)' = Script(q) /\ (Written(q)' <=> Written(q))
<1>1. /\ p \in Processes
      /\ pc \in [Processes -> {"idle", "running", "ended", "failed"}]
      /\ command \in [Processes -> Commands] /\ found \in [Processes -> Range(Revisions)]
      /\ at \in [Processes -> Nat \ {0}] /\ due \in [Processes -> BOOLEAN]
      /\ made \in [Processes -> SUBSET Names] /\ gone \in [Processes -> SUBSET Names]
      /\ row \in [Processes -> Seq(Range(Revisions))]
      /\ locks \in [Processes -> SUBSET {t.name : t \in Range(Tables)}]
      /\ met \in [Processes -> SUBSET Commands]
  BY DEF TypeOK, Running
<1>2. /\ at'[p] = 1 /\ ~due'[p] /\ locks'[p] = {}
      /\ made'[p] = {} /\ gone'[p] = {} /\ row'[p] = <<>>
      /\ raced' = raced /\ runs' = runs /\ pc'[p] = how
  BY <1>1 DEF EndAs, Kept
<1>3. \A q \in Processes \ {p} :
         /\ at'[q] = at[q] /\ due'[q] = due[q] /\ made'[q] = made[q]
         /\ gone'[q] = gone[q] /\ row'[q] = row[q] /\ locks'[q] = locks[q]
         /\ command'[q] = command[q] /\ found'[q] = found[q] /\ met'[q] = met[q]
         /\ pc'[q] = pc[q]
  BY <1>1 DEF EndAs
<1>4. Running' = Running \ {p}
  BY <1>2, <1>3 DEF Running
<1>5. Migrating' = Migrating \ {p}
  BY <1>4 DEF Migrating
<1>6. \A q \in Processes \ {p} :
         /\ Undisturbed(q)' <=> Undisturbed(q)
         /\ Script(q)' = Script(q) /\ (Written(q)' <=> Written(q))
  BY <1>3 DEF Undisturbed, Script, Written
<1> QED BY <1>2, <1>3, <1>4, <1>5, <1>6

\* An end keeps what the others rely on as long as the database it leaves does.
LEMMA EndKeeps ==
    ASSUME Inv, NEW p \in Running, NEW how \in {"ended", "failed"}, EndAs(p, how),
           schema' \subseteq Names, versions' \subseteq Range(Revisions) \ {"base"},
           CatalogMatchesRevision',
           \A q \in Migrating \ {p} : Transaction(q)',
           \A q \in Processes \ {p} : made[q] \cap schema' = {} /\ gone[q] \subseteq schema',
           \A q \in Processes \ {p} : Written(q) =>
               IF found[q] = "base" THEN "0001" \notin versions' ELSE versions' = {found[q]},
           \A q \in Migrating \ {p} : Undisturbed(q) => versions' = {found[q]} \ {"base"},
           \A s \in (Sessions \cap Running) \ {p} : "users" \in locks[s] => Hash \in schema'
    PROVE  Inv'
<1>1. /\ Running' = Running \ {p} /\ Migrating' = Migrating \ {p}
      /\ at'[p] = 1 /\ ~due'[p] /\ locks'[p] = {}
      /\ made'[p] = {} /\ gone'[p] = {} /\ row'[p] = <<>>
      /\ raced' = raced /\ runs' = runs
      /\ \A q \in Processes \ {p} :
            /\ at'[q] = at[q] /\ due'[q] = due[q] /\ made'[q] = made[q]
            /\ gone'[q] = gone[q] /\ row'[q] = row[q] /\ locks'[q] = locks[q]
            /\ command'[q] = command[q] /\ found'[q] = found[q] /\ met'[q] = met[q]
            /\ q \in Running' <=> q \in Running
            /\ Undisturbed(q)' <=> Undisturbed(q)
            /\ Script(q)' = Script(q) /\ (Written(q)' <=> Written(q))
  BY EndFrame DEF Inv
<1>2. /\ p \in Processes /\ Running \subseteq Processes /\ Migrating \subseteq Running
      /\ Migrators \subseteq Processes /\ Sessions \subseteq Processes
      /\ ~Written(p)'
  BY <1>1 DEF Running, Migrating, Processes, Written
<1>3. TypeOK'
  <2>1. /\ pc' \in [Processes -> {"idle", "running", "ended", "failed"}]
        /\ command' \in [Processes -> Commands]
        /\ found' \in [Processes -> Range(Revisions)]
        /\ at' \in [Processes -> Nat \ {0}] /\ due' \in [Processes -> BOOLEAN]
    BY <1>2, RevisionsAre DEF Inv, TypeOK, EndAs, Commands
  <2>2. /\ made' \in [Processes -> SUBSET Names] /\ gone' \in [Processes -> SUBSET Names]
        /\ row' \in [Processes -> Seq(Range(Revisions))]
        /\ locks' \in [Processes -> SUBSET {t.name : t \in Range(Tables)}]
        /\ met' \in [Processes -> SUBSET Commands]
    BY <1>2 DEF Inv, TypeOK, EndAs, Kept
  <2>3. elsewhere' \subseteq Sessions
    BY DEF Inv, TypeOK, EndAs
  <2> QED BY <2>1, <2>2, <2>3, <1>1 DEF Inv, TypeOK
<1>4. RolesKept'
  <2>1. ASSUME NEW q \in Processes \ Running'
        PROVE  /\ at'[q] = 1 /\ ~due'[q] /\ locks'[q] = {}
               /\ made'[q] = {} /\ gone'[q] = {} /\ row'[q] = <<>>
    BY <1>1 DEF Inv, RolesKept
  <2>2. ASSUME NEW q \in Migrating'
        PROVE  command'[q] \in MigrationCommands /\ at'[q] <= Len(Script(q)') + 1
    BY <1>1, <1>2 DEF Inv, RolesKept
  <2>3. ASSUME NEW s \in Sessions
        PROVE  /\ made'[s] = {} /\ gone'[s] = {} /\ row'[s] = <<>>
               /\ s \in Running' => command'[s] \in {"request", "seed"}
    BY <1>1, <1>2 DEF Inv, RolesKept
  <2> QED BY <2>1, <2>2, <2>3 DEF RolesKept
<1>5. TransactionsKept'
  BY <1>1 DEF TransactionsKept
<1>6. NamesExclusive'
  <2>1. ASSUME NEW q \in Processes, NEW r \in Processes, q # r
        PROVE  made'[q] \cap made'[r] = {} /\ gone'[q] \cap gone'[r] = {}
    BY <2>1, <1>1 DEF Inv, NamesExclusive
  <2>2. ASSUME NEW q \in Processes
        PROVE  made'[q] \cap schema' = {} /\ gone'[q] \subseteq schema'
    BY <1>1
  <2> QED BY <2>1, <2>2 DEF NamesExclusive
<1>7. LocksExclusive'
  <2>1. ASSUME NEW q \in Migrators, NEW r \in Processes, q # r
        PROVE  locks'[q] \cap locks'[r] = {}
    BY <2>1, <1>1, <1>2 DEF Inv, LocksExclusive
  <2>2. ASSUME NEW q \in Migrating'
        PROVE  /\ \A t \in gone'[q] : t \in {u.name : u \in Range(Tables)} => t \in locks'[q]
               /\ Hash \in made'[q] \cup gone'[q] => "users" \in locks'[q]
               /\ command'[q] = "upgrade" \/ found'[q] # "0002" => locks'[q] \subseteq {"users"}
    BY <1>1, <1>2 DEF Inv, LocksExclusive
  <2> QED BY <2>1, <2>2 DEF LocksExclusive
<1>8. RowsExclusive'
  <2>1. ASSUME NEW q \in Processes, Written(q)'
        PROVE  IF found'[q] = "base" THEN "0001" \notin versions'
               ELSE versions' = {found'[q]}
    <3>1. q # p /\ Written(q) /\ found'[q] = found[q]
      BY <2>1, <1>1, <1>2
    <3> QED BY <3>1
  <2>2. ASSUME NEW q \in Processes, NEW r \in Processes, q # r, Written(q)', Written(r)'
        PROVE  /\ Range(row'[q]) \cap Range(row'[r]) \subseteq {"base"}
               /\ found'[q] = "base" \/ found'[r] = "base"
    <3>1. q # p /\ r # p /\ Written(q) /\ Written(r)
      BY <2>2, <1>1, <1>2
    <3>2. /\ row'[q] = row[q] /\ row'[r] = row[r]
          /\ found'[q] = found[q] /\ found'[r] = found[r]
      BY <3>1, <1>1
    <3> QED BY <2>2, <3>1, <3>2 DEF Inv, RowsExclusive
  <2> QED BY <2>1, <2>2 DEF RowsExclusive
<1>9. HistoryKept'
  <2>1. ASSUME NEW q \in Running', NEW r \in Running', q # r
        PROVE  command'[r] \in met'[q]
    BY <2>1, <1>1, <1>2 DEF Inv, HistoryKept
  <2>2. ASSUME NEW q \in Migrating'
        PROVE  /\ Undisturbed(q)' => versions' = {found'[q]} \ {"base"}
               /\ ~raced' => Undisturbed(q)'
    BY <1>1, <1>2 DEF Inv, HistoryKept
  <2>3. versions' # {Latest} => Running' \cap Sessions \subseteq elsewhere'
    BY <1>1 DEF EndAs
  <2> QED BY <2>1, <2>2, <2>3 DEF HistoryKept
<1>10. SessionsHold'
  <2>1. ASSUME NEW s \in Sessions \cap Running'
        PROVE  /\ "users" \in locks'[s] => Hash \in schema'
               /\ at'[s] = 1 => locks'[s] = {}
               /\ command'[s] = "request" /\ at'[s] > 1 => "users" \in locks'[s]
    BY <1>1, <1>2 DEF Inv, SessionsHold
  <2> QED BY <2>1 DEF SessionsHold
<1> QED BY <1>3, <1>4, <1>5, <1>6, <1>7, <1>8, <1>9, <1>10 DEF Inv

\* An end that commits nothing.
LEMMA AbortKeeps ==
    ASSUME Inv, NEW p \in Running, NEW how \in {"ended", "failed"},
           UNCHANGED Committed, EndAs(p, how)
    PROVE  Inv'
<1>1. schema' = schema /\ versions' = versions
  BY DEF Committed
<1>2. CatalogMatchesRevision'
  BY <1>1 DEF Inv, CatalogMatchesRevision
<1>3. Running \subseteq Processes /\ Migrating \subseteq Running
  BY DEF Running, Migrating
<1>4. ASSUME NEW q \in Migrating \ {p}
      PROVE  Transaction(q)'
  <2>1. q \in Processes \ {p} /\ Transaction(q)
    BY <1>3 DEF Inv, TransactionsKept
  <2> QED BY <2>1, <1>1, EndFrame, TransactionFrame DEF Inv
<1>5. schema' \subseteq Names /\ versions' \subseteq Range(Revisions) \ {"base"}
  BY <1>1 DEF Inv, TypeOK
<1>6. /\ \A q \in Processes \ {p} : made[q] \cap schema' = {} /\ gone[q] \subseteq schema'
      /\ \A q \in Processes \ {p} : Written(q) =>
            IF found[q] = "base" THEN "0001" \notin versions' ELSE versions' = {found[q]}
      /\ \A q \in Migrating \ {p} : Undisturbed(q) => versions' = {found[q]} \ {"base"}
      /\ \A s \in (Sessions \cap Running) \ {p} : "users" \in locks[s] => Hash \in schema'
  BY <1>1 DEF Inv, NamesExclusive, RowsExclusive, HistoryKept, SessionsHold
<1> QED BY <1>2, <1>4, <1>5, <1>6, EndKeeps

\* A script that is through has executed each of its statements; an upgrade from
\* the head has none.
LEMMA ThroughFacts ==
    ASSUME Inv, NEW p \in Migrating, ~HasStep(p)
    PROVE  LET S == Script(p)
           IN  /\ \A i \in 1 .. Len(S) : Done(p, S[i])
               /\ S = <<>> <=> command[p] = "upgrade" /\ found[p] = "0003"
               /\ S = <<>> => made[p] = {} /\ gone[p] = {} /\ ~Written(p)
               /\ S # <<>> => /\ Len(S) \in 1 .. Len(S)
                              /\ S[Len(S)].kind = "stamp"
                              /\ Written(p) /\ Last(row[p]) = S[Len(S)].on
                              /\ S[Len(S)].on \in Range(row[p])
               /\ ~(command[p] = "downgrade" /\ found[p] = "base")
<1> DEFINE S == Script(p)
<1>1. /\ command[p] \in MigrationCommands /\ found[p] \in Range(Revisions)
      /\ S \in Seq(Steps) /\ Len(S) \in Nat /\ at[p] = Len(S) + 1
      /\ Past(p) = 1 .. at[p] - 1 /\ Transaction(p)
      /\ command[p] = "upgrade" => S = UpgradeFrom[found[p]]
      /\ command[p] = "downgrade" => S = DowngradeFrom[found[p]]
  BY ScriptFacts DEF Inv, TransactionsKept
<1>2. Past(p) = 1 .. Len(S) /\ at[p] - 1 = Len(S)
  BY <1>1
<1>3. \A i \in 1 .. Len(S) : Done(p, S[i])
  BY <1>1, <1>2 DEF Transaction, StatementsDone
<1>4. \A k, n : Do(k, n).kind = k /\ Do(k, n).on = n
  BY DEF Do
<1>5. command[p] = "upgrade" /\ found[p] = "0003" => S = <<>>
  BY <1>1, ShortScripts
<1>6. ~(command[p] = "upgrade" /\ found[p] = "0003") =>
         /\ Len(S) \in Nat \ {0}
         /\ \/ S[Len(S)].kind = "stamp"
            \/ command[p] = "downgrade" /\ found[p] = "base" /\ S[Len(S)].kind = "refuse"
  <2>1. command[p] = "upgrade" /\ found[p] # "0003" =>
           Len(S) \in Nat \ {0} /\ S[Len(S)].kind = "stamp"
    BY <1>1, <1>4, UpgradeThrough
  <2>2. command[p] = "downgrade" =>
           /\ Len(S) \in Nat \ {0}
           /\ S[Len(S)].kind = "stamp" \/ (found[p] = "base" /\ S[Len(S)].kind = "refuse")
    <3> SUFFICES ASSUME command[p] = "downgrade"
                 PROVE  /\ Len(S) \in Nat \ {0}
                        /\ \/ S[Len(S)].kind = "stamp"
                           \/ found[p] = "base" /\ S[Len(S)].kind = "refuse"
      OBVIOUS
    <3>1. S = DowngradeFrom[found[p]] /\ found[p] \in {"base", "0001", "0002", "0003"}
      BY <1>1, RevisionsAre
    <3> HIDE DEF S
    <3>2. CASE found[p] = "base"
      <4>1. Len(S) \in Nat \ {0} /\ S[Len(S)] = Do("refuse", "base")
        BY <3>1, <3>2, DowngradeThrough
      <4> QED BY <4>1, <3>2, <1>4
    <3>3. CASE found[p] # "base"
      <4>1. Len(S) \in Nat \ {0} /\ \E n : S[Len(S)] = Do("stamp", n)
        BY <3>1, <3>3, DowngradeThrough
      <4> QED BY <4>1, <1>4
    <3> QED BY <3>2, <3>3
  <2> QED BY <2>1, <2>2, <1>1 DEF MigrationCommands
<1> HIDE DEF S
<1>7. Len(S) \in Nat \ {0} => Len(S) \in 1 .. Len(S) /\ S # <<>>
  <2>1. Len(<<>>) = 0
    OBVIOUS
  <2> QED BY <2>1
<1>8. ~(command[p] = "downgrade" /\ found[p] = "base")
  <2> SUFFICES ASSUME command[p] = "downgrade", found[p] = "base"
               PROVE  FALSE
    OBVIOUS
  <2>1. Len(S) \in 1 .. Len(S) /\ (S[Len(S)].kind = "stamp" \/ S[Len(S)].kind = "refuse")
    BY <1>6, <1>7
  <2>2. Done(p, S[Len(S)])
    BY <2>1, <1>3
  <2>3. S[Len(S)].kind # "refuse"
    BY <2>2 DEF Done
  <2> QED BY <2>1, <2>3, StatementKinds DEF Inv, S
<1>9. S = <<>> => made[p] = {} /\ gone[p] = {} /\ ~Written(p)
  <2> SUFFICES ASSUME S = <<>>
               PROVE  Past(p) = {}
    BY <1>1 DEF Transaction, NothingElse
  <2>1. Len(S) = 0
    OBVIOUS
  <2> QED BY <2>1, <1>2
<1>10. S # <<>> => /\ Len(S) \in 1 .. Len(S) /\ S[Len(S)].kind = "stamp"
                   /\ Written(p) /\ Last(row[p]) = S[Len(S)].on
                   /\ S[Len(S)].on \in Range(row[p])
  <2> SUFFICES ASSUME S # <<>>
               PROVE  /\ Len(S) \in 1 .. Len(S) /\ S[Len(S)].kind = "stamp"
                      /\ Written(p) /\ Last(row[p]) = S[Len(S)].on
                      /\ S[Len(S)].on \in Range(row[p])
    OBVIOUS
  <2>1. Len(S) \in 1 .. Len(S) /\ S[Len(S)].kind = "stamp" /\ at[p] > 1
    BY <1>1, <1>5, <1>6, <1>7, <1>8
  <2>2. Written(p) /\ Last(row[p]) = S[Len(S)].on
    BY <2>1, <1>1, <1>2 DEF Transaction, LastStamped, S
  <2>3. Done(p, S[Len(S)])
    BY <2>1, <1>3
  <2> QED BY <2>1, <2>2, <2>3 DEF Done
<1>11. S = <<>> <=> command[p] = "upgrade" /\ found[p] = "0003"
  BY <1>5, <1>6, <1>7
<1> QED BY <1>3, <1>8, <1>9, <1>10, <1>11 DEF S

\* An upgrade that is through has created all tables and types, unless they were
\* there, and the column.
LEMMA UpgradeCreates ==
    ASSUME Inv, NEW p \in Migrating, ~HasStep(p), command[p] = "upgrade",
           found[p] # "0003"
    PROVE  /\ Hash \in made[p]
           /\ found[p] \in {"base", "0001"} => Domain \subseteq made[p]
           /\ found[p] = "base" => VersionTable \in Seen(p)
           /\ Written(p) /\ Last(row[p]) = "0003"
<1> DEFINE S == Script(p)
<1>1. /\ \A i \in 1 .. Len(S) : Done(p, S[i])
      /\ S # <<>> /\ Written(p) /\ Last(row[p]) = S[Len(S)].on
  BY ThroughFacts
<1>2. found[p] \in Range(Revisions) /\ S = UpgradeFrom[found[p]]
  BY ScriptFacts DEF Inv
<1>3. /\ Len(S) \in Nat \ {0} /\ S[Len(S)] = Do("stamp", "0003")
      /\ \E i \in 1 .. Len(S) : S[i] = Do("add", Hash)
      /\ found[p] \in {"base", "0001"} =>
            \A n \in TableNames : \E i \in 1 .. Len(S) : S[i] = Do("create", n)
  BY <1>2, UpgradeThrough
<1> HIDE DEF S
<1>4. \A k, n : Do(k, n).kind = k /\ Do(k, n).on = n
  BY DEF Do
<1>5. Hash \in made[p]
  BY <1>1, <1>3, <1>4 DEF Done
<1>6. ASSUME found[p] \in {"base", "0001"}
      PROVE  Domain \subseteq made[p]
  <2>1. ASSUME NEW n \in TableNames
        PROVE  n \in made[p] /\ TableOf(n).types \subseteq made[p]
    BY <1>1, <1>3, <1>4, <1>6 DEF Done
  <2>2. ASSUME NEW n \in TypeNames
        PROVE  n \in made[p]
    <3>1. PICK t \in Range(Tables) : n \in t.types
      BY TypesUsed
    <3>2. t.name \in TableNames /\ TableOf(t.name) = t
      BY TableOfName
    <3> QED BY <3>1, <3>2, <2>1
  <2> QED BY <2>1, <2>2 DEF Domain
<1>7. ASSUME found[p] = "base"
      PROVE  VersionTable \in Seen(p)
  <2>1. S[1] = Do("ensure", VersionTable) /\ 1 \in 1 .. Len(S)
    BY <1>2, <1>3, <1>7, UpgradeOfBase
  <2> QED BY <2>1, <1>1, <1>4 DEF Done
<1>8. Last(row[p]) = "0003"
  BY <1>1, <1>3, <1>4
<1> QED BY <1>1, <1>5, <1>6, <1>7, <1>8

\* A downgrade that is through has dropped what its revision had added.
LEMMA DowngradeDrops ==
    ASSUME Inv, NEW p \in Migrating, ~HasStep(p), command[p] = "downgrade"
    PROVE  /\ Written(p)
           /\ \/ found[p] = "0001" /\ Last(row[p]) = "base"
              \/ /\ found[p] = "0002" /\ Last(row[p]) = "0001" /\ Domain \subseteq gone[p]
                 /\ "0001" \in Range(row[p])
              \/ found[p] = "0003" /\ Last(row[p]) = "0002" /\ Hash \in gone[p]
<1> DEFINE S == Script(p)
<1>1. /\ \A i \in 1 .. Len(S) : Done(p, S[i])
      /\ S # <<>> /\ Written(p) /\ Last(row[p]) = S[Len(S)].on
      /\ S[Len(S)].on \in Range(row[p]) /\ found[p] # "base"
  BY ThroughFacts
<1>2. found[p] \in Range(Revisions) /\ S = DowngradeFrom[found[p]]
  BY ScriptFacts DEF Inv
<1> HIDE DEF S
<1>3. \A k, n : Do(k, n).kind = k /\ Do(k, n).on = n
  BY DEF Do
<1>4. CASE found[p] = "0001"
  BY <1>1, <1>2, <1>3, <1>4, DowngradeThrough
<1>5. CASE found[p] = "0002"
  <2>1. /\ S[Len(S)] = Do("stamp", "0001")
        /\ \A n \in TableNames : \E i \in 1 .. Len(S) : S[i] = Do("drop", n)
        /\ \A n \in TypeNames : \E i \in 1 .. Len(S) : S[i] = Do("remove", n)
    BY <1>2, <1>5, DowngradeThrough
  <2>2. Domain \subseteq gone[p]
    BY <2>1, <1>1, <1>3 DEF Done, Removing, Domain
  <2> QED BY <2>1, <2>2, <1>1, <1>3, <1>5
<1>6. CASE found[p] = "0003"
  <2>1. /\ S[Len(S)] = Do("stamp", "0002")
        /\ \E i \in 1 .. Len(S) : S[i] = Do("discard", Hash)
    BY <1>2, <1>6, DowngradeThrough
  <2>2. Hash \in gone[p]
    BY <2>1, <1>1, <1>3 DEF Done, Removing
  <2> QED BY <2>1, <2>2, <1>1, <1>3, <1>6
<1> QED BY <1>1, <1>2, <1>4, <1>5, <1>6, RevisionsAre

\* The database that a commit leaves, by what the run had found.
LEMMA CommitFacts ==
    ASSUME Inv, NEW p \in Migrating, ~HasStep(p), Written(p)
    PROVE  LET vs == (versions \ {found[p]}) \cup Stamped(p)
               up == vs = {"0003"} /\ Seen(p) = Domain \cup {Hash, VersionTable}
           IN  \/ found[p] = "base" /\ versions = {} /\ up
               \/ found[p] = "0001" /\ up
               \/ found[p] = "0002" /\ up
               \/ found[p] = "0001" /\ vs = {} /\ Seen(p) = {VersionTable}
               \/ /\ found[p] = "0002" /\ vs = {"0001"} /\ Seen(p) = {VersionTable}
                  /\ "0001" \in Range(row[p])
               \/ found[p] = "0003" /\ vs = {"0002"} /\ Seen(p) = Domain \cup {VersionTable}
<1> DEFINE vs == (versions \ {found[p]}) \cup Stamped(p)
           Up == vs = {"0003"} /\ Seen(p) = Domain \cup {Hash, VersionTable}
<1>1. /\ p \in Processes /\ command[p] \in MigrationCommands
      /\ found[p] \in Range(Revisions) /\ Transaction(p)
  BY ScriptFacts DEF Inv, TransactionsKept
<1>2. IF found[p] = "base" THEN "0001" \notin versions ELSE versions = {found[p]}
  BY <1>1 DEF Inv, RowsExclusive
<1>3. made[p] \cap schema = {} /\ gone[p] \subseteq schema
  BY <1>1 DEF Inv, NamesExclusive
<1>4. /\ Hash \notin Domain /\ VersionTable \notin Domain /\ Hash # VersionTable
      /\ "users" \in Domain
  BY NamesDiffer DEF Domain
<1>5. /\ command[p] = "upgrade" => gone[p] = {}
      /\ command[p] = "downgrade" => made[p] \subseteq {VersionTable}
      /\ gone[p] \subseteq Domain \cup {Hash}
      /\ gone[p] \cap Domain # {} => command[p] = "downgrade" /\ found[p] = "0002"
      /\ Hash \in gone[p] => command[p] = "downgrade" /\ found[p] = "0003"
      /\ made[p] \cap Domain # {} => command[p] = "upgrade" /\ found[p] \in {"base", "0001"}
      /\ made[p] \subseteq Domain \cup {Hash, VersionTable}
      /\ VersionTable \in made[p] => found[p] = "base"
  BY <1>1, TransactionFacts DEF Inv, Transaction
<1>6. /\ \/ versions = {} /\ schema \subseteq {VersionTable}
         \/ versions = {"0001"} /\ schema = {VersionTable}
         \/ versions = {"0002"} /\ schema = Domain \cup {VersionTable}
         \/ versions = {"0003"} /\ schema = Domain \cup {Hash, VersionTable}
  BY CatalogFacts DEF Inv
<1>7. CASE command[p] = "upgrade"
  <2>1. found[p] # "0003"
    BY <1>7, ThroughFacts
  <2>2. /\ Hash \in made[p]
        /\ found[p] \in {"base", "0001"} => Domain \subseteq made[p]
        /\ found[p] = "base" => VersionTable \in Seen(p)
        /\ Last(row[p]) = "0003"
    BY <2>1, <1>7, UpgradeCreates
  <2>3. Stamped(p) = {"0003"} /\ Seen(p) = schema \cup made[p]
    BY <2>2, <1>5, <1>7 DEF Stamped, Seen
  <2>4. CASE found[p] = "base"
    <3>1. versions = {} /\ schema \subseteq {VersionTable}
      BY <2>2, <2>4, <1>2, <1>3, <1>4, <1>6
    <3>2. Seen(p) = Domain \cup {Hash, VersionTable}
      BY <3>1, <2>2, <2>3, <2>4, <1>5
    <3> QED BY <3>1, <3>2, <2>3, <2>4
  <2>5. CASE found[p] = "0001"
    <3>1. versions = {"0001"} /\ schema = {VersionTable}
      BY <2>5, <1>2, <1>6
    <3>2. Seen(p) = Domain \cup {Hash, VersionTable}
      BY <3>1, <2>2, <2>3, <2>5, <1>5
    <3> QED BY <3>1, <3>2, <2>3, <2>5
  <2>6. CASE found[p] = "0002"
    <3>1. versions = {"0002"} /\ schema = Domain \cup {VersionTable}
      BY <2>6, <1>2, <1>6
    <3>2. made[p] = {Hash}
      BY <2>2, <2>6, <1>5
    <3> QED BY <3>1, <3>2, <2>3, <2>6
  <2> QED BY <2>1, <2>4, <2>5, <2>6, <1>1, RevisionsAre
<1>8. CASE command[p] = "downgrade"
  <2>1. /\ \/ found[p] = "0001" /\ Last(row[p]) = "base"
           \/ /\ found[p] = "0002" /\ Last(row[p]) = "0001" /\ Domain \subseteq gone[p]
              /\ "0001" \in Range(row[p])
           \/ found[p] = "0003" /\ Last(row[p]) = "0002" /\ Hash \in gone[p]
    BY <1>8, DowngradeDrops
  <2>2. made[p] = {} /\ Seen(p) = schema \ gone[p]
    BY <2>1, <1>5, <1>8 DEF Seen
  <2>3. CASE found[p] = "0001"
    <3>1. versions = {"0001"} /\ schema = {VersionTable} /\ Stamped(p) = {}
      BY <2>1, <2>3, <1>2, <1>6 DEF Stamped
    <3>2. gone[p] = {}
      BY <2>3, <1>5
    <3> QED BY <3>1, <3>2, <2>2, <2>3
  <2>4. CASE found[p] = "0002"
    <3>1. versions = {"0002"} /\ schema = Domain \cup {VersionTable}
          /\ Stamped(p) = {"0001"} /\ "0001" \in Range(row[p])
      BY <2>1, <2>4, <1>2, <1>6 DEF Stamped
    <3>2. gone[p] = Domain
      BY <2>1, <2>4, <1>5
    <3> QED BY <3>1, <3>2, <2>2, <2>4, <1>4
  <2>5. CASE found[p] = "0003"
    <3>1. versions = {"0003"} /\ schema = Domain \cup {Hash, VersionTable}
          /\ Stamped(p) = {"0002"}
      BY <2>1, <2>5, <1>2, <1>6 DEF Stamped
    <3>2. gone[p] = {Hash}
      BY <2>1, <2>5, <1>5
    <3> QED BY <3>1, <3>2, <2>2, <2>5, <1>4
  <2> QED BY <2>1, <2>3, <2>4, <2>5
<1> QED BY <1>1, <1>7, <1>8 DEF MigrationCommands

\* A commit of p shows the others a new database; who overlapped with p knows.
LEMMA CommitTransactions ==
    ASSUME Inv, NEW p \in Migrating, schema' = Seen(p), EndAs(p, "ended"),
           NEW q \in Migrating, q # p
    PROVE  ~Undisturbed(q) /\ Transaction(q)'
<1>1. /\ p \in Running /\ q \in Running /\ q \in Processes
      /\ command[p] \in MigrationCommands
  BY ScriptFacts DEF Inv
<1>2. ~Undisturbed(q)
  BY <1>1 DEF Inv, HistoryKept, Undisturbed
<1>3. /\ at'[q] = at[q] /\ due'[q] = due[q] /\ made'[q] = made[q]
      /\ gone'[q] = gone[q] /\ row'[q] = row[q]
      /\ command'[q] = command[q] /\ found'[q] = found[q]
      /\ q \in Running' <=> q \in Running
      /\ Undisturbed(q)' <=> Undisturbed(q)
      /\ Script(q)' = Script(q) /\ (Written(q)' <=> Written(q))
  BY <1>1, EndFrame DEF Inv
<1>4. Past(q)' = Past(q) /\ (HasStep(q)' <=> HasStep(q)) /\ Step(q)' = Step(q)
  BY <1>3 DEF Past, HasStep, Step
<1>5. VersionTable \in Seen(q) => VersionTable \in Seen(q)'
  <2>1. VersionTable \notin gone[p]
    BY TransactionFacts, NamesDiffer DEF Inv, TransactionsKept, Transaction
  <2> QED BY <2>1, <1>3 DEF Seen
<1>6. Transaction(q)
  BY DEF Inv, TransactionsKept
<1>7. \A j \in Past(q) : Done(q, Script(q)[j])'
  BY <1>2, <1>3, <1>5, <1>6 DEF Transaction, StatementsDone, Done
<1>8. StatementsDone(q)'
  BY <1>3, <1>4, <1>7 DEF StatementsDone
<1>9. NothingElse(q)'
  BY <1>3, <1>4, <1>6 DEF Transaction, NothingElse
<1>10. LastStamped(q)'
  BY <1>3, <1>4, <1>6 DEF Transaction, LastStamped
<1>11. DueHolds(q)'
  BY <1>2, <1>3, <1>4, <1>6 DEF Transaction, DueHolds
<1> QED BY <1>2, <1>8, <1>9, <1>10, <1>11 DEF Transaction

\* A commit at the end of a script leaves the catalog of the new revision, and
\* takes nothing from the transactions that still run.
LEMMA CommitKeeps ==
    ASSUME Inv, NEW p \in Migrators, Commit(p)
    PROVE  Inv'
<1>1. /\ p \in Running /\ p \in Migrating /\ ~HasStep(p) /\ schema' = Seen(p)
      /\ versions' = IF Written(p) THEN (versions \ {found[p]}) \cup Stamped(p)
                     ELSE versions
      /\ EndAs(p, "ended") /\ p \in Processes
  BY DEF Commit, Migrating, Running
<1>2. ~Written(p) => made[p] = {} /\ gone[p] = {} /\ schema' = schema /\ versions' = versions
  BY <1>1, ThroughFacts DEF Seen
<1> DEFINE up == versions' = {"0003"} /\ schema' = Domain \cup {Hash, VersionTable}
<1>3. Written(p) =>
         \/ found[p] = "base" /\ versions = {} /\ up
         \/ found[p] = "0001" /\ up
         \/ found[p] = "0002" /\ up
         \/ found[p] = "0001" /\ versions' = {} /\ schema' = {VersionTable}
         \/ /\ found[p] = "0002" /\ versions' = {"0001"} /\ schema' = {VersionTable}
            /\ "0001" \in Range(row[p])
         \/ found[p] = "0003" /\ versions' = {"0002"} /\ schema' = Domain \cup {VersionTable}
  BY <1>1, CommitFacts
<1>4. CatalogMatchesRevision'
  <2>1. CASE ~Written(p)
    BY <2>1, <1>2 DEF Inv, CatalogMatchesRevision
  <2>2. CASE Written(p)
    BY <2>2, <1>3, NamesAre, RevisionsAre DEF CatalogMatchesRevision
  <2> QED BY <2>1, <2>2
<1>5. schema' \subseteq Names /\ versions' \subseteq Range(Revisions) \ {"base"}
  <2>1. CASE ~Written(p)
    BY <2>1, <1>2 DEF Inv, TypeOK
  <2>2. CASE Written(p)
    BY <2>2, <1>3, NamesAre, RevisionsAre
  <2> QED BY <2>1, <2>2
<1>6. ASSUME NEW q \in Processes \ {p}
      PROVE  made[q] \cap schema' = {} /\ gone[q] \subseteq schema'
  BY <1>1 DEF Inv, NamesExclusive, Seen
<1>7. ASSUME NEW q \in Processes \ {p}, Written(q)
      PROVE  IF found[q] = "base" THEN "0001" \notin versions' ELSE versions' = {found[q]}
  <2>1. IF found[q] = "base" THEN "0001" \notin versions ELSE versions = {found[q]}
    BY <1>7 DEF Inv, RowsExclusive
  <2>2. CASE ~Written(p)
    BY <2>1, <2>2, <1>2
  <2>3. CASE Written(p)
    <3>1. /\ Range(row[p]) \cap Range(row[q]) \subseteq {"base"}
          /\ found[p] = "base" \/ found[q] = "base"
      BY <2>3, <1>1, <1>7 DEF Inv, RowsExclusive
    <3>2. found[q] = "base"
      BY <3>1, <2>1, <2>3, <1>3
    <3>3. q \in Migrating
      BY <1>7, Bystander DEF Inv, Written
    <3>4. "0001" \in Range(row[q])
      BY <3>2, <3>3, <1>7, FirstStamp
    <3> QED BY <3>1, <3>2, <3>4, <2>3, <1>3
  <2> QED BY <2>2, <2>3
<1>8. ASSUME NEW s \in (Sessions \cap Running) \ {p}, "users" \in locks[s]
      PROVE  Hash \in schema'
  <2>1. Hash \in schema
    BY <1>8 DEF Inv, SessionsHold
  <2>2. Hash \notin gone[p]
    BY <1>1, <1>8 DEF Inv, LocksExclusive, Processes
  <2> QED BY <2>1, <2>2, <1>1 DEF Seen
<1>9. \A q \in Migrating \ {p} : Transaction(q)' /\ ~Undisturbed(q)
  BY <1>1, CommitTransactions
<1> QED BY <1>1, <1>4, <1>5, <1>6, <1>7, <1>8, <1>9, EndKeeps

-----------------------------------------------------------------------------
(* Starts.                                                                  *)

\* A start changes no transaction; who runs already learns of the newcomer.
LEMMA StartFrame ==
    ASSUME Inv, NEW p \in Processes \ Running, NEW c \in Commands \ {"none"}, Start(p, c),
           \A q \in Processes \ {p} : found'[q] = found[q]
    PROVE  /\ Running' = Running \cup {p}
           /\ Migrating' = Migrating \cup ({p} \cap Migrators)
           /\ schema' = schema /\ versions' = versions
           /\ at' = at /\ due' = due /\ made' = made /\ gone' = gone
           /\ row' = row /\ locks' = locks
           /\ at[p] = 1 /\ ~due[p] /\ locks[p] = {}
           /\ made[p] = {} /\ gone[p] = {} /\ row[p] = <<>>
           /\ command'[p] = c /\ met'[p] = {command[r] : r \in Running}
           /\ \A q \in Processes \ {p} : command'[q] = command[q]
           /\ \A q \in Running : met'[q] = met[q] \cup {c}
           /\ \A q \in Processes \ {p} :
                 (q \in Running' <=> q \in Running) /\ Script(q)' = Script(q)
           /\ \A q \in Running : Undisturbed(q)' => Undisturbed(q)
           /\ \A q \in Processes : Written(q)' <=> Written(q)
           /\ pc' \in [Processes -> {"idle", "running", "ended", "failed"}]
           /\ command' \in [Processes -> Commands]
           /\ met' \in [Processes -> SUBSET Commands]
<1>1. /\ pc \in [Processes -> {"idle", "running", "ended", "failed"}]
      /\ command \in [Processes -> Commands]
      /\ met \in [Processes -> SUBSET Commands]
      /\ Running \subseteq Processes
  BY DEF Inv, TypeOK, Running
<1>2. /\ pc' = [pc EXCEPT ![p] = "running"] /\ command' = [command EXCEPT ![p] = c]
      /\ met' = [q \in Processes |->
                    IF q = p THEN {command[r] : r \in Running}
                    ELSE IF q \in Running THEN met[q] \cup {c} ELSE met[q]]
      /\ schema' = schema /\ versions' = versions
      /\ at' = at /\ due' = due /\ made' = made /\ gone' = gone
      /\ row' = row /\ locks' = locks
  BY DEF Start, Committed
<1>3. /\ pc'[p] = "running" /\ command'[p] = c /\ met'[p] = {command[r] : r \in Running}
      /\ \A q \in Processes \ {p} : pc'[q] = pc[q] /\ command'[q] = command[q]
      /\ \A q \in Running : met'[q] = met[q] \cup {c}
  BY <1>1, <1>2
<1>4. Running' = Running \cup {p}
  BY <1>3 DEF Running
<1>5. Migrating' = Migrating \cup ({p} \cap Migrators)
  BY <1>4 DEF Migrating
<1>6. /\ at[p] = 1 /\ ~due[p] /\ locks[p] = {}
      /\ made[p] = {} /\ gone[p] = {} /\ row[p] = <<>>
  BY DEF Inv, RolesKept
<1>7. /\ pc' \in [Processes -> {"idle", "running", "ended", "failed"}]
      /\ command' \in [Processes -> Commands]
  BY <1>1, <1>2
<1>8. met' \in [Processes -> SUBSET Commands]
  <2>1. {command[r] : r \in Running} \subseteq Commands
    BY <1>1
  <2> QED BY <2>1, <1>1, <1>2
<1>9. \A q \in Processes \ {p} :
         (q \in Running' <=> q \in Running) /\ Script(q)' = Script(q)
  BY <1>3, <1>4 DEF Script
<1>10. \A q \in Running : Undisturbed(q)' => Undisturbed(q)
  BY <1>3 DEF Undisturbed
<1>11. \A q \in Processes : Written(q)' <=> Written(q)
  BY <1>2 DEF Written
<1> QED BY <1>2, <1>3, <1>4, <1>5, <1>6, <1>7, <1>8, <1>9, <1>10, <1>11

\* A start keeps the invariant if it records what it finds.
LEMMA StartKeeps ==
    ASSUME Inv, NEW p \in Processes \ Running, NEW c \in Commands \ {"none"}, Start(p, c),
           \A q \in Processes \ {p} : found'[q] = found[q],
           found' \in [Processes -> Range(Revisions)], runs' \in 0 .. MaxRuns,
           raced' \in BOOLEAN, raced => raced', elsewhere' \subseteq Sessions,
           p \in Migrators => /\ c \in MigrationCommands
                              /\ versions = {found'[p]} \ {"base"}
                              /\ raced' <=> (raced \/ Migrating # {})
                              /\ elsewhere' = elsewhere,
           p \in Sessions => /\ c \in {"request", "seed"}
                             /\ elsewhere' = IF versions = {Latest} THEN elsewhere
                                             ELSE elsewhere \cup {p}
    PROVE  Inv'
<1>1. /\ Running' = Running \cup {p}
      /\ Migrating' = Migrating \cup ({p} \cap Migrators)
      /\ schema' = schema /\ versions' = versions
      /\ at' = at /\ due' = due /\ made' = made /\ gone' = gone
      /\ row' = row /\ locks' = locks
      /\ at[p] = 1 /\ ~due[p] /\ locks[p] = {}
      /\ made[p] = {} /\ gone[p] = {} /\ row[p] = <<>>
      /\ command'[p] = c /\ met'[p] = {command[r] : r \in Running}
      /\ \A q \in Processes \ {p} : command'[q] = command[q]
      /\ \A q \in Running : met'[q] = met[q] \cup {c}
      /\ \A q \in Processes \ {p} :
            (q \in Running' <=> q \in Running) /\ Script(q)' = Script(q)
      /\ \A q \in Running : Undisturbed(q)' => Undisturbed(q)
      /\ \A q \in Processes : Written(q)' <=> Written(q)
      /\ pc' \in [Processes -> {"idle", "running", "ended", "failed"}]
      /\ command' \in [Processes -> Commands]
      /\ met' \in [Processes -> SUBSET Commands]
  BY StartFrame
<1>2. /\ p \in Processes /\ p \notin Running /\ p \notin Migrating
      /\ Migrating \subseteq Running /\ Running \subseteq Processes
      /\ Migrators \subseteq Processes /\ Sessions \subseteq Processes
      /\ Migrators \cap Sessions = {} /\ (p \in Migrators \/ p \in Sessions)
  BY ProcessesDiffer DEF Running, Migrating, Processes
<1>3. TypeOK'
  BY <1>1 DEF Inv, TypeOK
<1>4. CatalogMatchesRevision'
  BY <1>1 DEF Inv, CatalogMatchesRevision
<1>5. Script(p)' \in Seq(Steps) \/ p \notin Migrators
  <2> SUFFICES ASSUME p \in Migrators
               PROVE  Script(p)' \in Seq(Steps)
    OBVIOUS
  <2>1. /\ command'[p] = "upgrade" => Script(p)' = UpgradeFrom[found'[p]]
        /\ command'[p] = "downgrade" => Script(p)' = DowngradeFrom[found'[p]]
    BY DEF Script
  <2>2. found'[p] \in Range(Revisions)
    BY <1>2
  <2> QED BY <2>1, <2>2, <1>1, UpgradeStatements, DowngradeStatements DEF MigrationCommands
<1>6. RolesKept'
  <2>1. ASSUME NEW q \in Processes \ Running'
        PROVE  /\ at'[q] = 1 /\ ~due'[q] /\ locks'[q] = {}
               /\ made'[q] = {} /\ gone'[q] = {} /\ row'[q] = <<>>
    BY <1>1 DEF Inv, RolesKept
  <2>2. ASSUME NEW q \in Migrating'
        PROVE  command'[q] \in MigrationCommands /\ at'[q] <= Len(Script(q)') + 1
    <3>1. CASE q = p
      <4>1. p \in Migrators
        BY <2>2, <3>1, <1>1, <1>2
      <4>2. Len(Script(p)') \in Nat
        BY <4>1, <1>5
      <4> QED BY <3>1, <4>1, <4>2, <1>1
    <3>2. CASE q # p
      BY <2>2, <3>2, <1>1, <1>2 DEF Inv, RolesKept
    <3> QED BY <3>1, <3>2
  <2>3. ASSUME NEW s \in Sessions
        PROVE  /\ made'[s] = {} /\ gone'[s] = {} /\ row'[s] = <<>>
               /\ s \in Running' => command'[s] \in {"request", "seed"}
    BY <1>1, <1>2 DEF Inv, RolesKept
  <2> QED BY <2>1, <2>2, <2>3 DEF RolesKept
<1>7. TransactionsKept'
  <2>1. ASSUME NEW q \in Migrating
        PROVE  Transaction(q)'
    <3>1. q # p /\ q \in Processes /\ q \in Running /\ Transaction(q)
      BY <1>2 DEF Inv, TransactionsKept
    <3> QED BY <3>1, <1>1, TransactionFrame
  <2>2. Transaction(p)'
    <3>1. Past(p)' = {}
      <4>1. at'[p] = 1
        BY <1>1
      <4>2. CASE p \in Migrators
        <5>1. Script(p)' \in Seq(Steps)
          BY <4>2, <1>5
        <5>2. \A j \in DOMAIN Script(p)' : ~(j < 1)
          BY <5>1
        <5> QED BY <4>1, <5>2 DEF Past
      <4>3. CASE p \in Sessions
        <5>1. Script(p)' = ClientPlan \/ Script(p)' = SeedPlan
          BY <4>3, <1>1 DEF Script
        <5>2. Script(p)' \in Seq(TableNames)
          BY <5>1, PlansAre
        <5>3. \A j \in DOMAIN Script(p)' : ~(j < 1)
          BY <5>2
        <5> QED BY <4>1, <5>3 DEF Past
      <4> QED BY <4>2, <4>3, <1>2
    <3>2. StatementsDone(p)'
      BY <3>1 DEF StatementsDone
    <3>3. NothingElse(p)'
      BY <1>1, <1>2 DEF NothingElse, Written
    <3>4. LastStamped(p)'
      BY <1>1 DEF LastStamped
    <3>5. DueHolds(p)'
      BY <1>1 DEF DueHolds
    <3> QED BY <3>2, <3>3, <3>4, <3>5 DEF Transaction
  <2> QED BY <2>1, <2>2, <1>1 DEF TransactionsKept
<1>8. NamesExclusive'
  BY <1>1 DEF Inv, NamesExclusive
<1>9. LocksExclusive'
  <2>1. ASSUME NEW q \in Migrating'
        PROVE  /\ \A t \in gone'[q] : t \in {u.name : u \in Range(Tables)} => t \in locks'[q]
               /\ Hash \in made'[q] \cup gone'[q] => "users" \in locks'[q]
               /\ command'[q] = "upgrade" \/ found'[q] # "0002" => locks'[q] \subseteq {"users"}
    <3>1. CASE q = p BY <3>1, <1>1
    <3>2. CASE q # p
      <4>1. q \in Migrating /\ q \in Processes \ {p}
        BY <2>1, <3>2, <1>1, <1>2
      <4> QED BY <4>1, <1>1 DEF Inv, LocksExclusive
    <3> QED BY <3>1, <3>2
  <2>2. \A q \in Migrators, r \in Processes : q # r => locks'[q] \cap locks'[r] = {}
    BY <1>1 DEF Inv, LocksExclusive
  <2> QED BY <2>1, <2>2 DEF LocksExclusive
<1>10. RowsExclusive'
  <2>1. ASSUME NEW q \in Processes, Written(q)'
        PROVE  Written(q) /\ found'[q] = found[q]
    BY <2>1, <1>1 DEF Written
  <2>2. ASSUME NEW q \in Processes, Written(q)'
        PROVE  IF found'[q] = "base" THEN "0001" \notin versions'
               ELSE versions' = {found'[q]}
    <3>1. Written(q) /\ found'[q] = found[q] /\ versions' = versions
      BY <2>1, <2>2, <1>1
    <3>2. IF found[q] = "base" THEN "0001" \notin versions ELSE versions = {found[q]}
      BY <3>1 DEF Inv, RowsExclusive
    <3> QED BY <3>1, <3>2
  <2>3. ASSUME NEW q \in Processes, NEW r \in Processes, q # r, Written(q)', Written(r)'
        PROVE  /\ Range(row'[q]) \cap Range(row'[r]) \subseteq {"base"}
               /\ found'[q] = "base" \/ found'[r] = "base"
    <3>1. /\ Written(q) /\ found'[q] = found[q] /\ Written(r) /\ found'[r] = found[r]
          /\ row' = row
      BY <2>1, <2>3, <1>1
    <3>2. /\ Range(row[q]) \cap Range(row[r]) \subseteq {"base"}
          /\ found[q] = "base" \/ found[r] = "base"
      BY <2>3, <3>1 DEF Inv, RowsExclusive
    <3> QED BY <3>1, <3>2
  <2> QED BY <2>2, <2>3 DEF RowsExclusive
<1>11. HistoryKept'
  <2>1. ASSUME NEW q \in Running', NEW r \in Running', q # r
        PROVE  command'[r] \in met'[q]
    <3>1. CASE q = p
      <4>1. r \in Running /\ r \in Processes \ {p}
        BY <2>1, <3>1, <1>1, <1>2
      <4> QED BY <3>1, <4>1, <1>1
    <3>2. CASE q # p
      <4>1. q \in Running /\ met'[q] = met[q] \cup {c}
        BY <3>2, <1>1
      <4>2. r # p => r \in Running /\ command'[r] = command[r]
        BY <1>1, <1>2
      <4> QED BY <2>1, <4>1, <4>2, <1>1 DEF Inv, HistoryKept
    <3> QED BY <3>1, <3>2
  <2>2. ASSUME NEW q \in Migrating'
        PROVE  /\ Undisturbed(q)' => versions' = {found'[q]} \ {"base"}
               /\ ~raced' => Undisturbed(q)'
    <3>1. CASE q = p
      <4>1. p \in Migrators
        BY <2>2, <3>1, <1>1, <1>2
      <4>2. ~raced' => Undisturbed(p)'
        <5> SUFFICES ASSUME ~raced'
                     PROVE  Undisturbed(p)'
          OBVIOUS
        <5>1. Migrating = {}
          BY <4>1
        <5>2. \A r \in Running : command[r] \in {"request", "seed"}
          BY <5>1, <1>2 DEF Inv, RolesKept, Migrating, Processes
        <5>3. met'[p] \cap MigrationCommands = {}
          BY <5>2, <1>1 DEF MigrationCommands
        <5> QED BY <5>3 DEF Undisturbed, MigrationCommands
      <4> QED BY <3>1, <4>1, <4>2, <1>1
    <3>2. CASE q # p
      <4>1. q \in Migrating /\ q \in Running /\ q \in Processes \ {p}
        BY <2>2, <3>2, <1>1, <1>2
      <4>2. Undisturbed(q)' => versions' = {found'[q]} \ {"base"}
        BY <4>1, <1>1 DEF Inv, HistoryKept
      <4>3. ASSUME ~raced'
            PROVE  Undisturbed(q)'
        <5>1. p \notin Migrators
          BY <4>1, <4>3
        <5>2. c \in {"request", "seed"} /\ ~raced
          BY <5>1, <4>3, <1>2
        <5>3. Undisturbed(q)
          BY <4>1, <5>2 DEF Inv, HistoryKept
        <5>4. met'[q] = met[q] \cup {c}
          BY <4>1, <1>1
        <5>5. met'[q] \cap MigrationCommands = {}
          BY <5>2, <5>3, <5>4 DEF Undisturbed, MigrationCommands
        <5> QED BY <5>5 DEF Undisturbed, MigrationCommands
      <4> QED BY <4>2, <4>3
    <3> QED BY <3>1, <3>2
  <2>3. versions' # {Latest} => Running' \cap Sessions \subseteq elsewhere'
    BY <1>1, <1>2 DEF Inv, HistoryKept
  <2> QED BY <2>1, <2>2, <2>3 DEF HistoryKept
<1>12. SessionsHold'
  <2>1. ASSUME NEW s \in Sessions \cap Running'
        PROVE  /\ "users" \in locks'[s] => Hash \in schema'
               /\ at'[s] = 1 => locks'[s] = {}
               /\ command'[s] = "request" /\ at'[s] > 1 => "users" \in locks'[s]
    <3>1. CASE s = p BY <3>1, <1>1
    <3>2. CASE s # p BY <3>2, <1>1, <1>2 DEF Inv, SessionsHold
    <3> QED BY <3>1, <3>2
  <2> QED BY <2>1 DEF SessionsHold
<1> QED BY <1>3, <1>4, <1>6, <1>7, <1>8, <1>9, <1>10, <1>11, <1>12 DEF Inv

\* A new run finds the committed revision and has overlapped with all that run.
LEMMA StartMigrationKeeps ==
    ASSUME Inv, NEW p \in Migrators, StartMigration(p)
    PROVE  Inv'
<1>1. PICK c \in {"upgrade", "downgrade"} : Start(p, c)
  BY DEF StartMigration
<1>2. /\ p \notin Running /\ runs < MaxRuns /\ runs' = runs + 1
      /\ found' = [found EXCEPT ![p] =
                     IF versions = {} THEN "base" ELSE CHOOSE v \in versions : TRUE]
      /\ raced' = (raced \/ Running \cap Migrators # {}) /\ elsewhere' = elsewhere
  BY DEF StartMigration
<1>3. /\ p \in Processes /\ p \notin Sessions
      /\ found \in [Processes -> Range(Revisions)]
      /\ versions \subseteq Range(Revisions) \ {"base"} /\ elsewhere \subseteq Sessions
      /\ runs \in 0 .. MaxRuns /\ raced \in BOOLEAN
  BY ProcessesDiffer DEF Inv, TypeOK, Processes
<1> DEFINE f == IF versions = {} THEN "base" ELSE CHOOSE v \in versions : TRUE
<1>4. f \in Range(Revisions) /\ versions = {f} \ {"base"}
  <2>1. CASE versions = {}
    BY <2>1, RevisionsAre
  <2>2. CASE versions # {}
    <3>1. f \in versions
      BY <2>2
    <3>2. versions = {f}
      BY <3>1, CatalogFacts DEF Inv
    <3> QED BY <3>1, <3>2, <1>3
  <2> QED BY <2>1, <2>2
<1> HIDE DEF f
<1>5. found' = [found EXCEPT ![p] = f]
  BY <1>2 DEF f
<1>6. /\ found' \in [Processes -> Range(Revisions)] /\ found'[p] = f
      /\ \A q \in Processes \ {p} : found'[q] = found[q]
  BY <1>3, <1>4, <1>5
<1>7. runs' \in 0 .. MaxRuns
  BY <1>2, <1>3, RunsBounded
<1>8. /\ raced' \in BOOLEAN /\ (raced => raced')
      /\ raced' <=> (raced \/ Migrating # {})
  BY <1>2, <1>3 DEF Migrating
<1>9. c \in Commands \ {"none"} /\ c \in MigrationCommands
  BY DEF Commands, MigrationCommands
<1>10. versions = {found'[p]} \ {"base"}
  BY <1>4, <1>6
<1> QED BY <1>1, <1>2, <1>3, <1>6, <1>7, <1>8, <1>9, <1>10, StartKeeps

\* A new session has overlapped with all that run.
LEMMA StartSessionKeeps ==
    ASSUME Inv, NEW s \in Sessions, StartSession(s)
    PROVE  Inv'
<1>1. PICK c \in {"request", "seed"} : Start(s, c)
  BY DEF StartSession
<1>2. /\ s \in Processes /\ s \notin Running /\ s \notin Migrators
      /\ elsewhere' = (IF versions = {Latest} THEN elsewhere ELSE elsewhere \cup {s})
      /\ runs' = runs /\ found' = found /\ raced' = raced
  BY ProcessesDiffer DEF StartSession, Processes, Running
<1>3. /\ found' \in [Processes -> Range(Revisions)] /\ runs' \in 0 .. MaxRuns
      /\ raced' \in BOOLEAN /\ elsewhere' \subseteq Sessions
  BY <1>2 DEF Inv, TypeOK
<1>4. c \in Commands \ {"none"}
  BY DEF Commands
<1> QED BY <1>1, <1>2, <1>3, <1>4, StartKeeps

-----------------------------------------------------------------------------
(* The invariant.                                                           *)

\* The empty database, in which nothing runs.
LEMMA InvInit == Init => Inv
<1> SUFFICES ASSUME Init
             PROVE  Inv
  OBVIOUS
<1>1. /\ runs = 0 /\ raced = FALSE /\ elsewhere = {}
      /\ pc = [p \in Processes |-> "idle"] /\ command = [p \in Processes |-> "none"]
      /\ found = [p \in Processes |-> "base"] /\ at = [p \in Processes |-> 1]
      /\ due = [p \in Processes |-> FALSE]
      /\ made = [p \in Processes |-> {}] /\ gone = [p \in Processes |-> {}]
      /\ row = [p \in Processes |-> <<>>] /\ locks = [p \in Processes |-> {}]
      /\ met = [p \in Processes |-> {}]
  BY DEF Init
<1>2. PICK v \in Range(Revisions) :
         /\ versions = {v} \ {"base"}
         /\ schema = Catalog(v) \cup {VersionTable} \/ (v = "base" /\ schema = {})
  BY DEF Init
<1>3. Running = {} /\ Migrating = {}
  BY <1>1 DEF Running, Migrating
<1>4. /\ runs \in 0 .. MaxRuns /\ raced \in BOOLEAN /\ elsewhere \subseteq Sessions
      /\ pc \in [Processes -> {"idle", "running", "ended", "failed"}]
      /\ command \in [Processes -> Commands]
      /\ found \in [Processes -> Range(Revisions)]
      /\ at \in [Processes -> Nat \ {0}] /\ due \in [Processes -> BOOLEAN]
      /\ made \in [Processes -> SUBSET Names] /\ gone \in [Processes -> SUBSET Names]
      /\ row \in [Processes -> Seq(Range(Revisions))]
      /\ locks \in [Processes -> SUBSET {t.name : t \in Range(Tables)}]
      /\ met \in [Processes -> SUBSET Commands]
  <2>1. runs \in 0 .. MaxRuns /\ raced \in BOOLEAN /\ elsewhere \subseteq Sessions
    <3>1. 0 \in 0 .. MaxRuns
      BY RunsBounded
    <3>2. runs = 0 /\ raced = FALSE /\ elsewhere = {}
      BY <1>1
    <3> QED BY <3>1, <3>2
  <2>2. /\ pc \in [Processes -> {"idle", "running", "ended", "failed"}]
        /\ command \in [Processes -> Commands]
        /\ found \in [Processes -> Range(Revisions)]
        /\ at \in [Processes -> Nat \ {0}] /\ due \in [Processes -> BOOLEAN]
    BY <1>1, RevisionsAre DEF Commands
  <2>3. /\ made \in [Processes -> SUBSET Names] /\ gone \in [Processes -> SUBSET Names]
        /\ locks \in [Processes -> SUBSET {t.name : t \in Range(Tables)}]
        /\ met \in [Processes -> SUBSET Commands]
    BY <1>1
  <2>4. row \in [Processes -> Seq(Range(Revisions))]
    <3>1. <<>> \in Seq(Range(Revisions))
      OBVIOUS
    <3> QED BY <3>1, <1>1
  <2> QED BY <2>1, <2>2, <2>3, <2>4
<1>5. schema \subseteq Names /\ versions \subseteq Range(Revisions) \ {"base"}
  BY <1>2, NamesAre, RevisionsAre
<1>6. TypeOK
  BY <1>4, <1>5 DEF TypeOK
<1>7. CatalogMatchesRevision
  BY <1>2, NamesAre, RevisionsAre DEF CatalogMatchesRevision
<1>8. RolesKept /\ TransactionsKept /\ HistoryKept /\ SessionsHold
  BY <1>1, <1>3 DEF RolesKept, TransactionsKept, HistoryKept, SessionsHold, Processes
<1>9. NamesExclusive /\ LocksExclusive /\ RowsExclusive
  BY <1>1, <1>3 DEF NamesExclusive, LocksExclusive, RowsExclusive, Written, Processes
<1> QED BY <1>6, <1>7, <1>8, <1>9 DEF Inv

\* A stuttering step.
LEMMA InvUnchanged ==
    ASSUME Inv, UNCHANGED vars
    PROVE  Inv'
<1>1. /\ schema' = schema /\ versions' = versions /\ runs' = runs /\ pc' = pc
      /\ command' = command /\ found' = found /\ at' = at /\ due' = due
      /\ made' = made /\ gone' = gone /\ row' = row /\ locks' = locks
      /\ met' = met /\ elsewhere' = elsewhere /\ raced' = raced
  BY DEF vars
<1>2. /\ Running' = Running /\ Migrating' = Migrating
      /\ \A q : Script(q)' = Script(q)
      /\ \A q : Undisturbed(q)' <=> Undisturbed(q)
      /\ \A q : Written(q)' <=> Written(q)
  BY <1>1 DEF Running, Migrating, Script, Undisturbed, Written
<1>3. TypeOK' /\ CatalogMatchesRevision'
  BY <1>1 DEF Inv, TypeOK, CatalogMatchesRevision
<1>4. RolesKept' /\ HistoryKept' /\ SessionsHold'
  BY <1>1, <1>2 DEF Inv, RolesKept, HistoryKept, SessionsHold
<1>5. TransactionsKept'
  BY <1>1, <1>2, TransactionFrame DEF Inv, TransactionsKept
<1>6. NamesExclusive' /\ LocksExclusive'
  BY <1>1, <1>2 DEF Inv, NamesExclusive, LocksExclusive
<1>7. RowsExclusive'
  BY <1>1, <1>2 DEF Inv, RowsExclusive
<1> QED BY <1>3, <1>4, <1>5, <1>6, <1>7 DEF Inv

\* Any step of a migration.
LEMMA MigrateKeeps ==
    ASSUME Inv, NEW p \in Migrators, Migrate(p)
    PROVE  Inv'
<1>1. CASE StatementFails(p)
  <2>1. p \in Running /\ UNCHANGED Committed /\ EndAs(p, "failed")
    BY <1>1 DEF StatementFails, Ready, HasStep
  <2> QED BY <2>1, AbortKeeps
<1> QED BY <1>1, CheckFirstKeeps, LockTableKeeps, CreateKeeps, DropKeeps, StampKeeps,
           CommitKeeps DEF Migrate

\* Any step of a session.
LEMMA WorkKeeps ==
    ASSUME Inv, NEW s \in Sessions, Work(s)
    PROVE  Inv'
<1>1. CASE UseFails(s)
  <2>1. s \in Running /\ UNCHANGED Committed /\ EndAs(s, "failed")
    BY <1>1 DEF UseFails, Ready, HasStep
  <2> QED BY <2>1, AbortKeeps
<1>2. CASE EndSession(s)
  BY <1>2, AbortKeeps DEF EndSession
<1> QED BY <1>1, <1>2, UseKeeps DEF Work

\* Any step of the system.
LEMMA InvStep == Inv /\ [Next]_vars => Inv'
<1> SUFFICES ASSUME Inv, [Next]_vars
             PROVE  Inv'
  OBVIOUS
<1>1. CASE \E p \in Migrators : StartMigration(p)
  BY <1>1, StartMigrationKeeps
<1>2. CASE \E s \in Sessions : StartSession(s)
  BY <1>2, StartSessionKeeps
<1>3. CASE \E p \in Migrators : Migrate(p)
  BY <1>3, MigrateKeeps
<1>4. CASE \E s \in Sessions : Work(s)
  BY <1>4, WorkKeeps
<1>5. CASE BreakDeadlock
  <2>1. PICK p \in UNION Circle : EndAs(p, "failed")
    BY <1>5 DEF BreakDeadlock
  <2>2. p \in Running /\ UNCHANGED Committed
    BY <1>5 DEF BreakDeadlock, Circle
  <2> QED BY <2>1, <2>2, AbortKeeps
<1>6. CASE \E p \in Processes : Crash(p)
  BY <1>6, AbortKeeps DEF Crash
<1>7. CASE UNCHANGED vars
  BY <1>7, InvUnchanged
<1> QED BY <1>1, <1>2, <1>3, <1>4, <1>5, <1>6, <1>7 DEF Next, Progress, Quiet

\* The invariant that the others follow from.
THEOREM Invariant == Spec => []Inv
BY InvInit, InvStep, PTL DEF Spec

\* Every variable keeps to its type, for any runs of Alembic and any sessions.
THEOREM TypeCorrect == Spec => []TypeOK
<1>1. Inv => TypeOK
  BY DEF Inv
<1> QED BY <1>1, Invariant, PTL

\* However runs of Alembic overlap, fail or die: at most one row in
\* alembic_version, and the tables, types and columns of exactly that revision.
THEOREM CatalogCorrect == Spec => []CatalogMatchesRevision
<1>1. Inv => CatalogMatchesRevision
  BY DEF Inv
<1> QED BY <1>1, Invariant, PTL

\* At head the database has the tables, foreign keys, types and labels that the
\* entities declare.
THEOREM HeadCorrect == Spec => []HeadServesEntities
<1>1. Inv => HeadServesEntities
  <2> SUFFICES ASSUME Inv, versions = {Latest}
               PROVE  /\ {t \in Range(Tables) : t.name \in schema} = Entities
                      /\ {t \in Range(CreatedTypes) : t.name \in schema} = EnumTypes
    BY DEF HeadServesEntities
  <2>1. Domain \subseteq schema
    BY CatalogFacts DEF Inv, Latest
  <2>2. /\ \A t \in Range(Tables) : t.name \in Domain
        /\ \A t \in Range(CreatedTypes) : t.name \in Domain
    BY EntitiesAre
  <2> QED BY <2>1, <2>2, EntitiesAre
<1> QED BY <1>1, Invariant, PTL

-----------------------------------------------------------------------------
(* Who makes a process fail.                                                *)

\* A process fails by a statement of its own, or to end a deadlock.
LEMMA FailsBy ==
    ASSUME TypeOK, [Next]_vars, NEW p \in Running, pc'[p] = "failed"
    PROVE  \/ p \in Migrators /\ StatementFails(p)
           \/ p \in Sessions /\ UseFails(p)
           \/ p \in UNION Circle
<1>1. /\ p \in Processes /\ pc[p] = "running"
      /\ pc \in [Processes -> {"idle", "running", "ended", "failed"}]
  BY DEF Running, TypeOK
<1>2. pc' # pc
  BY <1>1
<1>3. ASSUME NEW q, NEW how, EndAs(q, how)
      PROVE  q = p /\ how = "failed"
  BY <1>1, <1>3 DEF EndAs
<1>4. ASSUME NEW q, NEW c, Start(q, c)
      PROVE  FALSE
  BY <1>1, <1>4 DEF Start
<1>5. ~(UNCHANGED Run)
  BY <1>2 DEF Run
<1>6. ASSUME NEW q \in Migrators, Migrate(q)
      PROVE  p \in Migrators /\ StatementFails(p)
  <2>1. ~CheckFirst(q) /\ ~LockTable(q) /\ ~Create(q) /\ ~Drop(q) /\ ~Stamp(q)
    BY <1>5 DEF CheckFirst, LockTable, Create, Drop, Stamp
  <2>2. ~Commit(q)
    BY <1>3 DEF Commit
  <2>3. StatementFails(q)
    BY <1>6, <2>1, <2>2 DEF Migrate
  <2>4. EndAs(q, "failed")
    BY <2>3 DEF StatementFails
  <2> QED BY <2>3, <2>4, <1>3
<1>7. ASSUME NEW q \in Sessions, Work(q)
      PROVE  p \in Sessions /\ UseFails(p)
  <2>1. ~Use(q)
    BY <1>5 DEF Use
  <2>2. ~EndSession(q)
    BY <1>3 DEF EndSession
  <2>3. UseFails(q)
    BY <1>7, <2>1, <2>2 DEF Work
  <2>4. EndAs(q, "failed")
    BY <2>3 DEF UseFails
  <2> QED BY <2>3, <2>4, <1>3
<1>8. ASSUME BreakDeadlock
      PROVE  p \in UNION Circle
  BY <1>3, <1>8 DEF BreakDeadlock
<1>9. \A q : ~StartMigration(q) /\ ~StartSession(q)
  BY <1>4 DEF StartMigration, StartSession
<1>10. \A q : ~Crash(q)
  BY <1>3 DEF Crash
<1>11. ~(UNCHANGED vars)
  BY <1>2 DEF vars
<1> QED BY <1>6, <1>7, <1>8, <1>9, <1>10, <1>11 DEF Next, Progress, Quiet

\* Every statement of a run that no other run overlaps with is possible, but for
\* going down from the base.
LEMMA UndisturbedPossible ==
    ASSUME Inv, NEW p \in Migrating, HasStep(p), Undisturbed(p),
           ~(command[p] = "downgrade" /\ found[p] = "base")
    PROVE  Possible(p)
<1>1. PICK s : s = Step(p)
  OBVIOUS
<1>2. /\ Transaction(p) /\ p \in Processes /\ command[p] \in MigrationCommands
      /\ found[p] \in Range(Revisions)
  BY ScriptFacts DEF Inv, TransactionsKept
<1>3. versions = {found[p]} \ {"base"}
  BY DEF Inv, HistoryKept
<1>4. /\ found[p] \in {"base", "0001"} => schema \subseteq {VersionTable}
      /\ found[p] = "0002" => schema = Domain \cup {VersionTable}
      /\ found[p] = "0003" => schema = Domain \cup {Hash, VersionTable}
  BY <1>3, CatalogFacts DEF Inv
<1>5. /\ s \in Steps /\ s.on \notin made[p] \cup gone[p]
      /\ s.kind = "create" =>
            /\ command[p] = "upgrade" /\ TableOf(s.on).references \subseteq made[p]
            /\ TableOf(s.on).types \subseteq Seen(p)
      /\ s.kind = "add" =>
            command[p] = "upgrade" /\ (found[p] = "0002" \/ "users" \in made[p])
      /\ s.kind = "drop" =>
            /\ command[p] = "downgrade"
            /\ \A t \in Range(Tables) : s.on \in t.references => t.name \in gone[p]
      /\ s.kind = "remove" => command[p] = "downgrade" /\ TableNames \subseteq gone[p]
  BY <1>1, <1>2, StepFacts DEF Inv
<1>6. /\ s.kind = "create" => s.on \in TableNames /\ found[p] \in {"base", "0001"}
      /\ s.kind = "add" => s.on = Hash
      /\ s.kind = "drop" => s.on \in TableNames /\ found[p] = "0002"
      /\ s.kind = "remove" => s.on \in TypeNames /\ found[p] = "0002"
      /\ s.kind = "discard" => s.on = Hash /\ found[p] = "0003"
      /\ s.kind # "refuse"
  <2>1. at[p] \in 1 .. Len(Script(p)) /\ s = Script(p)[at[p]]
    BY <1>1, <1>2, StepFacts DEF Inv
  <2> QED BY <2>1, StatementKinds DEF Inv
<1>7. /\ command[p] = "upgrade" => gone[p] = {}
      /\ command[p] = "downgrade" => made[p] \subseteq {VersionTable}
      /\ gone[p] \cap Domain # {} => found[p] = "0002"
      /\ made[p] \cap Domain # {} => found[p] \in {"base", "0001"}
  BY <1>2, TransactionFacts DEF Inv, Transaction
<1>8. /\ Hash \notin Domain /\ VersionTable \notin Domain /\ Hash # VersionTable
      /\ "users" \in Domain /\ TableNames \subseteq Domain /\ TypeNames \subseteq Domain
      /\ \A t \in Range(Tables) : t.name \in TableNames
  BY NamesDiffer, TableOfName DEF Domain
<1> DEFINE others == {t \in Range(Tables) : t.name \in Seen(p) \ {s.on}}
<1>9. CASE s.kind = "create"
  <2>1. s.on \notin Seen(p)
    BY <1>4, <1>5, <1>6, <1>8, <1>9 DEF Seen
  <2>2. TableOf(s.on).references \subseteq Seen(p)
    BY <1>5, <1>9 DEF Seen
  <2> QED BY <2>1, <2>2, <1>1, <1>5, <1>9 DEF Possible
<1>10. CASE s.kind = "ensure"
  <2>1. due[p] => s.on \notin Seen(p)
    BY <1>1, <1>2, <1>10 DEF Transaction, DueHolds
  <2> QED BY <2>1, <1>1, <1>10 DEF Possible
<1>11. CASE s.kind = "drop"
  <2>1. s.on \in Seen(p)
    BY <1>4, <1>5, <1>6, <1>8, <1>11 DEF Seen
  <2>2. \A t \in others : s.on \notin t.references
    BY <1>5, <1>7, <1>8, <1>11 DEF Seen
  <2> QED BY <2>1, <2>2, <1>1, <1>11 DEF Possible
<1>12. CASE s.kind = "remove"
  <2>1. s.on \in Seen(p)
    BY <1>1, <1>12, RemoveFindsType
  <2>2. others = {}
    BY <1>5, <1>7, <1>8, <1>12 DEF Seen
  <2> QED BY <2>1, <2>2, <1>1, <1>12 DEF Possible
<1>13. CASE s.kind = "add"
  <2>1. "users" \in Seen(p)
    BY <1>4, <1>5, <1>7, <1>8, <1>13 DEF Seen
  <2>2. Hash \notin Seen(p)
    <3>1. found[p] \in {"base", "0001", "0002"}
      BY <1>5, <1>7, <1>8, <1>13
    <3> QED BY <3>1, <1>4, <1>5, <1>6, <1>8, <1>13 DEF Seen
  <2> QED BY <2>1, <2>2, <1>1, <1>13 DEF Possible
<1>14. CASE s.kind = "discard"
  <2>1. "users" \in Seen(p) /\ Hash \in Seen(p)
    BY <1>4, <1>5, <1>6, <1>7, <1>8, <1>14 DEF Seen
  <2> QED BY <2>1, <1>1, <1>14 DEF Possible
<1>15. CASE s.kind = "stamp"
  BY <1>1, <1>3, <1>15 DEF Possible
<1>16. s.kind \in Kinds
  BY <1>5 DEF Steps
<1> QED BY <1>6, <1>9, <1>10, <1>11, <1>12, <1>13, <1>14, <1>15, <1>16 DEF Kinds

\* A run that no other overlaps with is in no deadlock, unless it drops tables
\* that a session has used.
LEMMA CircleOfOneRun ==
    ASSUME Inv, NEW p \in Migrating, Undisturbed(p), NEW c \in Circle, p \in c
    PROVE  /\ command[p] = "downgrade" /\ found[p] = "0002" /\ versions = {"0002"}
           /\ \E r \in Sessions \cap Running : locks[r] # {}
<1>1. /\ c \subseteq Running
      /\ Blocking(p) \cap c # {} /\ \E q \in c : p \in Blocking(q)
  BY DEF Circle
<1>2. p \in Processes /\ p \in Running /\ p \in Migrators /\ command[p] \in MigrationCommands
  BY ScriptFacts DEF Inv
<1>3. \A q \in Running \ {p} : q \in Sessions
  <2> SUFFICES ASSUME NEW q \in Running, q # p, q \in Migrators
               PROVE  FALSE
    BY DEF Running, Processes
  <2>1. command[q] \in met[p] /\ command[q] \in MigrationCommands
    BY <1>2 DEF Inv, HistoryKept, RolesKept, Migrating
  <2> QED BY <2>1 DEF Undisturbed
<1>4. HasStep(p) /\ Blocking(p) = BlockMigrator(p)
  BY <1>1, <1>2 DEF Blocking
<1>5. p \notin BlockMigrator(p)
  BY DEF BlockMigrator
<1>6. PICK r \in Sessions \cap Running : r # p /\ r \in BlockMigrator(p)
  BY <1>1, <1>3, <1>4, <1>5
<1>7. NextLock(p) \cap locks[r] # {}
  <2>1. made[r] = {} /\ gone[r] = {} /\ ~Written(r)
    BY DEF Inv, RolesKept, Written
  <2> QED BY <2>1, <1>6 DEF BlockMigrator, RowConflict
<1>8. locks[p] # {}
  <2>1. PICK q \in c : p \in Blocking(q)
    BY <1>1
  <2>2. q # p /\ q \in Sessions
    BY <2>1, <1>1, <1>3, <1>4, <1>5
  <2>3. q \notin Migrators
    BY <2>2, ProcessesDiffer
  <2>4. Step(q) \in locks[p]
    BY <2>1, <2>3 DEF Blocking
  <2> QED BY <2>4
<1>9. command[p] = "downgrade" /\ found[p] = "0002"
  <2> SUFFICES ASSUME command[p] = "upgrade" \/ found[p] # "0002"
               PROVE  FALSE
    BY <1>2 DEF MigrationCommands
  <2>1. locks[p] = {"users"} /\ NextLock(p) \subseteq {"users"}
    BY <1>4, <1>8, NextLockFacts DEF Inv, LocksExclusive
  <2>2. Step(p).kind \in {"add", "discard", "drop"}
    BY <1>4, <1>7, NextLockFacts
  <2>3. Step(p).kind # "drop"
    <3>1. at[p] \in 1 .. Len(Script(p)) /\ Step(p) = Script(p)[at[p]]
      BY <1>4, StepFacts DEF Inv, TransactionsKept
    <3>2. Step(p).kind = "drop" => found[p] = "0002" /\ command[p] = "downgrade"
      BY <3>1, StatementKinds DEF Inv, Removing
    <3> QED BY <3>2
  <2>4. NextLock(p) = {"users"} \ locks[p]
    BY <2>2, <2>3 DEF NextLock
  <2> QED BY <2>1, <2>4, <1>7
<1>10. versions = {"0002"}
  BY <1>9 DEF Inv, HistoryKept
<1> QED BY <1>6, <1>7, <1>9, <1>10

\* A request that holds a lock keeps the database at head.
LEMMA RequestAtHead ==
    ASSUME Inv, NEW s \in Sessions \cap Running, command[s] = "request",
           locks[s] # {} \/ at[s] # 1
    PROVE  versions = {"0003"}
<1>1. at[s] \in Nat \ {0}
  BY DEF Inv, TypeOK, Processes
<1>2. at[s] > 1
  BY <1>1 DEF Inv, SessionsHold
<1>3. Hash \in schema
  BY <1>2 DEF Inv, SessionsHold
<1> QED BY <1>3, CatalogFacts DEF Inv

\* A run of Alembic fails only for another that overlapped with it, for a deadlock
\* between a downgrade of 0002 and a seed, or at the base; never for a request.
THEOREM MigrationFailures == Spec => MigrationsFailFoundedly
<1>1. Inv /\ [Next]_vars => MigrationFailsFoundedly
  <2> SUFFICES ASSUME Inv, [Next]_vars, NEW p \in Migrators, p \in Running,
                      pc'[p] = "failed", met[p] \cap {"upgrade", "downgrade"} = {}
               PROVE  command[p] = "downgrade" /\ ("seed" \in met[p] \/ found[p] = "base")
    BY DEF MigrationFailsFoundedly
  <2>1. p \in Migrating /\ Undisturbed(p) /\ p \notin Sessions
    BY ProcessesDiffer DEF Migrating, Undisturbed, MigrationCommands
  <2>2. CASE StatementFails(p)
    <3>1. HasStep(p) /\ ~Possible(p)
      BY <2>2 DEF StatementFails, Ready
    <3> QED BY <3>1, <2>1, UndisturbedPossible
  <2>3. CASE p \in UNION Circle
    <3>1. PICK c \in Circle : p \in c
      BY <2>3
    <3>2. /\ command[p] = "downgrade" /\ versions = {"0002"}
          /\ \E r \in Sessions \cap Running : locks[r] # {}
      BY <3>1, <2>1, CircleOfOneRun
    <3>3. PICK r \in Sessions \cap Running : locks[r] # {}
      BY <3>2
    <3>4. command[r] \in {"request", "seed"} /\ r # p
      BY <2>1 DEF Inv, RolesKept
    <3>5. command[r] # "request"
      BY <3>2, <3>3, RequestAtHead
    <3>6. command[r] \in met[p]
      BY <3>4 DEF Inv, HistoryKept
    <3> QED BY <3>2, <3>4, <3>5, <3>6
  <2>4. TypeOK
    BY DEF Inv
  <2> QED BY <2>1, <2>2, <2>3, <2>4, FailsBy
<1>2. [Next]_vars /\ Inv => [MigrationFailsFoundedly]_vars
  BY <1>1
<1> QED BY <1>2, Invariant, PTL DEF Spec, MigrationsFailFoundedly

\* Unless runs of Alembic race, a session fails only after it saw another revision
\* than head, and a request only at its first statement, in no deadlock.
THEOREM SessionFailures == Spec => SessionsFailFoundedly
<1>1. Inv /\ [Next]_vars => SessionFailsFoundedly
  <2> SUFFICES ASSUME Inv, [Next]_vars, NEW s \in Sessions, s \in Running,
                      pc'[s] = "failed", ~raced
               PROVE  s \in elsewhere /\ (command[s] = "request" => at[s] = 1)
    BY DEF SessionFailsFoundedly
  <2>1. versions # {"0003"} => s \in elsewhere /\ (command[s] = "request" => at[s] = 1)
    BY RequestAtHead DEF Inv, HistoryKept, Latest
  <2>2. CASE UseFails(s)
    <3>1. HasStep(s) /\ (Step(s) \notin schema \/ Hash \notin schema)
      BY <2>2 DEF UseFails, Ready
    <3>2. Step(s) \in TableNames
      BY <3>1, PlanFacts DEF Inv
    <3>3. versions # {"0003"}
      <4> SUFFICES ASSUME versions = {"0003"}
                   PROVE  schema = Domain \cup {Hash, VersionTable}
        BY <3>1, <3>2 DEF Domain
      <4> QED BY CatalogFacts DEF Inv
    <3> QED BY <3>3, <2>1
  <2>3. CASE s \in UNION Circle
    <3>1. PICK c \in Circle : s \in c
      BY <2>3
    <3>2. c \subseteq Running /\ Blocking(s) \cap c # {}
      BY <3>1 DEF Circle
    <3>3. PICK q \in c : q \in Migrators
      BY <3>2, ProcessesDiffer DEF Blocking
    <3>4. q \in Migrating /\ Undisturbed(q)
      BY <3>2, <3>3 DEF Inv, HistoryKept, Migrating
    <3>5. versions = {"0002"}
      BY <3>3, <3>4, CircleOfOneRun
    <3> QED BY <3>5, <2>1
  <2>4. TypeOK /\ s \notin Migrators
    BY ProcessesDiffer DEF Inv
  <2> QED BY <2>2, <2>3, <2>4, FailsBy
<1>2. [Next]_vars /\ Inv => [SessionFailsFoundedly]_vars
  BY <1>1
<1> QED BY <1>2, Invariant, PTL DEF Spec, SessionsFailFoundedly
=============================================================================
