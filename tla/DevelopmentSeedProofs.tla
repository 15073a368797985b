------------------------ MODULE DevelopmentSeedProofs ------------------------
(***************************************************************************)
(* Proofs about DevelopmentSeed, for any number of runs: over a database   *)
(* that is empty or filled as planned, the one commit and the first        *)
(* unique key make the whole plan atomic.  The inductive invariant is Inv. *)
(* Over any database, AnyInv shows that the demo user can log in after a   *)
(* run, although the row it loaded may be stale when it is flushed, and    *)
(* that only runs which overlap can double a row.                          *)
(***************************************************************************)
EXTENDS DevelopmentSeed, TLAPS

\* A version of the user is written by the transaction that inserts its row or
\* updates the one that is there, and by then the run is past it.
VersionOK(r) ==
    /\ "user" \in pending[r] => written[r] # NoUser
    /\ written[r] # NoUser => at[r] > 3 /\ ("user" \in pending[r] \/ user # NoUser)
    /\ pc[r] = "updating" => at[r] = 3 /\ user # NoUser /\ loaded[r] # NoUser

UserThere ==
    /\ db["user"] > 0 <=> user # NoUser
    /\ \A r \in Runs : VersionOK(r)

Typed == TypeOK /\ UserThere

Inv == Typed /\ AllOnceOrNothing /\ OneRunFillsTheDatabase

\* All that the proofs need of the plan: its rows differ, the first one has a
\* unique key, and its length.
LEMMA PlanFacts ==
    /\ Len(Plan) = 12 /\ DOMAIN Plan = 1 .. 12
    /\ \A i \in 1 .. 12 : Plan[i] \in Keys
    /\ Keys = {Plan[i] : i \in 1 .. 12}
    /\ \A i, j \in 1 .. 12 : Plan[i] = Plan[j] => i = j
    /\ Plan[1] \in UniqueKeys
<1>1. Len(Plan) = 12 /\ DOMAIN Plan = 1 .. 12
  BY DEF Plan
<1>2. /\ Plan[1] = "country" /\ Plan[2] = "role" /\ Plan[3] = "user"
      /\ Plan[4] = "user_role" /\ Plan[5] = "institution" /\ Plan[6] = "program"
      /\ Plan[7] = "student" /\ Plan[8] = "profile" /\ Plan[9] = "education"
      /\ Plan[10] = "course" /\ Plan[11] = "previous_course" /\ Plan[12] = "mapping"
  BY DEF Plan
<1>3. \A i, j \in 1 .. 12 : Plan[i] = Plan[j] => i = j
  BY <1>2
<1> QED BY <1>1, <1>2, <1>3 DEF Keys, UniqueKeys

\* GoOn keeps the types, and never goes back.
LEMMA GoOnTypes ==
    ASSUME TypeOK, NEW r \in Runs, GoOn(r)
    PROVE  /\ pc' \in [Runs -> Places] /\ at' \in [Runs -> DOMAIN Plan]
           /\ pc'[r] \in {"selecting", "committing"} /\ at'[r] >= at[r]
           /\ at[r] = 3 => at'[r] = 4
           /\ \A q \in Runs \ {r} : pc'[q] = pc[q] /\ at'[q] = at[q]
  BY PlanFacts DEF GoOn, TypeOK, CommitsAfter, Places

\* Only the third row of the plan is the user's.
LEMMA ThirdIsUser ==
    ASSUME TypeOK, NEW r \in Runs
    PROVE  /\ Plan[at[r]] = "user" <=> at[r] = 3
           /\ "user" \in Keys /\ "user" \in UniqueKeys /\ at[r] \in 1 .. 12
           /\ Plan[at[r]] \in Keys
<1>1. Plan[3] = "user"
  BY DEF Plan
<1>2. at[r] \in 1 .. 12 /\ Plan[at[r]] \in Keys /\ Plan[3] \in Keys
  BY PlanFacts DEF TypeOK
<1> QED BY <1>1, <1>2, PlanFacts DEF UniqueKeys

\* A row of the user that a run finds is committed.
LEMMA UserFound ==
    ASSUME Typed, NEW r \in Runs, Plan[at[r]] = "user", Found(r, "user") = 1
    PROVE  at[r] = 3 /\ user # NoUser
<1>1. at[r] = 3 /\ "user" \notin pending[r]
  BY ThirdIsUser DEF Typed, UserThere, VersionOK
<1> QED BY <1>1, ThirdIsUser DEF Typed, UserThere, VersionOK, TypeOK, Found

\* Types and the presence of the user are kept by every step.
LEMMA TypedStep ==
    ASSUME Typed, [Next]_vars
    PROVE  Typed'
<1>0. TypeOK /\ UserThere
  BY DEF Typed
<1>1. ASSUME NEW r \in Runs, Start(r) PROVE Typed'
  <2>1. TypeOK'
    BY <1>0, <1>1 DEF Start, TypeOK, Places
  <2>2. \A q \in Runs : pc'[q] # "updating" \/ pc'[q] = pc[q]
    BY <1>0, <1>1 DEF Start, TypeOK
  <2> QED BY <1>0, <1>1, <2>1, <2>2 DEF Start, Typed, UserThere, VersionOK
<1>2. ASSUME NEW r \in Runs, SelectMissing(r) PROVE Typed'
  <2>1. TypeOK'
    BY <1>0, <1>2 DEF SelectMissing, TypeOK, History, Places
  <2>2. \A q \in Runs : pc'[q] # "updating" \/ pc'[q] = pc[q]
    BY <1>0, <1>2 DEF SelectMissing, TypeOK
  <2> QED BY <1>0, <1>2, <2>1, <2>2 DEF SelectMissing, History, Typed, UserThere, VersionOK
<1>3. ASSUME NEW r \in Runs, SelectUser(r) PROVE Typed'
  <2>1. TypeOK'
    BY <1>0, <1>3 DEF SelectUser, TypeOK, History, Places
  <2>2. user # NoUser /\ at[r] = 3
    BY <1>3, UserFound DEF SelectUser
  <2>3. loaded'[r] = user /\ \A q \in Runs \ {r} : pc'[q] = pc[q] /\ loaded'[q] = loaded[q]
    BY <1>0, <1>3 DEF SelectUser, TypeOK
  <2> QED BY <1>0, <1>3, <2>1, <2>2, <2>3
          DEF SelectUser, History, Typed, UserThere, VersionOK
<1>4. ASSUME NEW r \in Runs, SelectTwo(r) \/ InsertConflict(r) \/ Crash(r) PROVE Typed'
  <2>1. TypeOK'
    BY <1>0, <1>4
       DEF TypeOK, RollBack, History, SelectTwo, InsertConflict, Crash, Places
  <2>2. /\ pc'[r] = "failed" /\ pending'[r] = {} /\ written'[r] = NoUser
        /\ db' = db /\ user' = user /\ at' = at
        /\ \A q \in Runs \ {r} : /\ pc'[q] = pc[q] /\ pending'[q] = pending[q]
                                 /\ written'[q] = written[q] /\ loaded'[q] = loaded[q]
    BY <1>0, <1>4 DEF SelectTwo, InsertConflict, Crash, RollBack, TypeOK
  <2> QED BY <1>0, <2>1, <2>2 DEF Typed, UserThere, VersionOK
<1>5. ASSUME NEW r \in Runs, SelectExisting(r) PROVE Typed'
  <2>1. TypeOK'
    BY <1>0, <1>5, GoOnTypes DEF SelectExisting, TypeOK, History
  <2>2. GoOn(r) /\ UNCHANGED <<db, user, pending, loaded, written>>
    BY <1>5 DEF SelectExisting
  <2>3. \A q \in Runs : /\ pc'[q] # "updating" \/ (pc'[q] = pc[q] /\ at'[q] = at[q])
                        /\ at[q] > 3 => at'[q] > 3
    BY <1>0, <2>1, <2>2, GoOnTypes, PlanFacts DEF TypeOK
  <2> QED BY <1>0, <2>1, <2>2, <2>3 DEF Typed, UserThere, VersionOK
<1>6. ASSUME NEW r \in Runs, Insert(r) PROVE Typed'
  <2>1. NewUser(password[r]) \in User /\ Plan[at[r]] \in Keys
    BY <1>0, ThirdIsUser DEF TypeOK, NewUser, User
  <2>2. TypeOK'
    BY <1>0, <1>6, <2>1, GoOnTypes DEF Insert, TypeOK, History
  <2>3. /\ GoOn(r) /\ UNCHANGED <<db, user, loaded>>
        /\ pending'[r] = pending[r] \cup {Plan[at[r]]}
        /\ written'[r] = IF at[r] = 3 THEN NewUser(password[r]) ELSE written[r]
        /\ \A q \in Runs \ {r} : pending'[q] = pending[q] /\ written'[q] = written[q]
    BY <1>0, <1>6, ThirdIsUser DEF Insert, TypeOK
  <2>4. \A q \in Runs : /\ pc'[q] # "updating" \/ (pc'[q] = pc[q] /\ at'[q] = at[q])
                        /\ at[q] > 3 => at'[q] > 3
    BY <1>0, <2>2, <2>3, GoOnTypes, PlanFacts DEF TypeOK
  <2>5. NewUser(password[r]) # NoUser
    BY <2>1, ConstantsAssumption
  <2>6. "user" \in pending'[r] => "user" \in pending[r] \/ at[r] = 3
    BY <1>0, <2>3, ThirdIsUser
  <2>7. at[r] = 3 => "user" \in pending'[r] /\ at'[r] = 4
    BY <1>0, <2>3, GoOnTypes, ThirdIsUser
  <2>8. VersionOK(r)'
    <3>1. CASE at[r] = 3
      BY <1>0, <2>3, <2>4, <2>5, <2>7, <3>1 DEF VersionOK
    <3>2. CASE at[r] # 3
      BY <1>0, <2>3, <2>4, <2>6, <3>2, ThirdIsUser DEF UserThere, VersionOK
    <3> QED BY <3>1, <3>2
  <2>9. ASSUME NEW q \in Runs \ {r} PROVE VersionOK(q)'
    BY <1>0, <2>3, <2>4 DEF UserThere, VersionOK
  <2> QED BY <1>0, <2>2, <2>3, <2>8, <2>9 DEF Typed, UserThere
<1>7. ASSUME NEW r \in Runs, UpdateUser(r) PROVE Typed'
  <2>1. user \in User /\ loaded[r] \in User
    BY <1>0, <1>7 DEF UpdateUser, TypeOK, UserThere, VersionOK
  <2>2. Updated(user, loaded[r], Renewed(loaded[r], password[r])) \in User
    BY <1>0, <2>1 DEF TypeOK, Updated, Renewed, User
  <2>3. TypeOK'
    BY <1>0, <1>7, <2>2, GoOnTypes DEF UpdateUser, TypeOK, History
  <2>4. /\ GoOn(r) /\ UNCHANGED <<db, user, pending>> /\ written'[r] \in User
        /\ \A q \in Runs \ {r} : written'[q] = written[q] /\ loaded'[q] = loaded[q]
    BY <1>0, <1>7, <2>2 DEF UpdateUser, TypeOK
  <2>5. /\ \A q \in Runs \ {r} : pc'[q] = pc[q] /\ at'[q] = at[q]
        /\ pc'[r] # "updating" /\ at'[r] = 4
    BY <1>0, <1>7, <2>3, <2>4, GoOnTypes, PlanFacts
       DEF TypeOK, UserThere, VersionOK, UpdateUser
  <2>6. user # NoUser /\ written'[r] # NoUser
    BY <2>1, <2>4, ConstantsAssumption
  <2>7. VersionOK(r)'
    BY <2>4, <2>5, <2>6 DEF VersionOK
  <2>8. ASSUME NEW q \in Runs \ {r} PROVE VersionOK(q)'
    BY <1>0, <2>4, <2>5 DEF UserThere, VersionOK
  <2> QED BY <1>0, <2>3, <2>4, <2>7, <2>8 DEF Typed, UserThere
<1>8. ASSUME NEW r \in Runs, Commit(r) \/ CommitUnconfirmed(r) PROVE Typed'
  <2>1. db' \in [Keys -> Nat]
    BY <1>0, <1>8 DEF TypeOK, Commit, CommitUnconfirmed
  <2>2. TypeOK'
    BY <1>0, <1>8, <2>1 DEF TypeOK, Commit, CommitUnconfirmed, History, Places
  <2>3. /\ db'["user"] = db["user"] + IF "user" \in pending[r] THEN 1 ELSE 0
        /\ user' = IF written[r] = NoUser THEN user ELSE written[r]
        /\ pc'[r] \in Ended /\ pending'[r] = {} /\ written'[r] = NoUser
        /\ at' = at /\ loaded' = loaded
        /\ \A q \in Runs \ {r} : /\ pc'[q] = pc[q] /\ pending'[q] = pending[q]
                                 /\ written'[q] = written[q]
    BY <1>0, <1>8, ThirdIsUser DEF TypeOK, Commit, CommitUnconfirmed, Ended
  <2>4. db'["user"] > 0 <=> user' # NoUser
    BY <1>0, <2>3, ThirdIsUser DEF TypeOK, UserThere, VersionOK
  <2>5. user # NoUser => user' # NoUser
    BY <2>3
  <2>6. pc'[r] # "updating"
    BY <2>3 DEF Ended
  <2> QED BY <1>0, <2>2, <2>3, <2>4, <2>5, <2>6 DEF Typed, UserThere, VersionOK
<1>9. CASE SetUser
  <2>1. TypeOK'
    BY <1>0, <1>9, ConstantsAssumption DEF TypeOK, SetUser
  <2>2. user # NoUser /\ user' # NoUser
    BY <1>0, <1>9, ConstantsAssumption DEF SetUser
  <2> QED BY <1>0, <1>9, <2>1, <2>2 DEF SetUser, Typed, UserThere, VersionOK
<1>10. CASE UNCHANGED vars
  BY <1>0, <1>10 DEF Typed, TypeOK, UserThere, VersionOK, vars
<1> QED BY <1>1, <1>2, <1>3, <1>4, <1>5, <1>6, <1>7, <1>8, <1>9, <1>10
        DEF Next, Step, Quiet

\* The types and the presence of the user, initially.
LEMMA TypedInit ==
    ASSUME Init
    PROVE  Typed
<1>1. TypeOK
  BY PlanFacts, ConstantsAssumption DEF Init, TypeOK, Places
<1>2. "user" \in Keys /\ "user" \in UniqueKeys
  <2>1. Plan[3] = "user"
    BY DEF Plan
  <2> QED BY <2>1, PlanFacts DEF UniqueKeys
<1>3. db["user"] > 0 <=> user # NoUser
  BY <1>2, ConstantsAssumption DEF Init
<1> QED BY <1>1, <1>3 DEF Init, Typed, UserThere, VersionOK

\* Types are kept without any assumption on the rows.
THEOREM SeedTypes == Spec => []TypeOK
<1>1. Typed => TypeOK
  BY DEF Typed
<1> QED BY <1>1, TypedInit, TypedStep, PTL DEF Spec

\* Run q takes no part in the step.
Same(q) ==
    /\ pc'[q] = pc[q] /\ at'[q] = at[q] /\ password'[q] = password[q]
    /\ pending'[q] = pending[q] /\ full'[q] = full[q]

\* A step of r that leaves the table alone, and in which r inserts nothing or
\* is the only run to have inserted, keeps the invariant if it keeps r's part.
LEMMA OneRun ==
    ASSUME Inv, NEW r \in Runs, Typed', RunOK(r)',
           \A q \in Runs \ {r} : Same(q),
           db' = db, outage \subseteq outage',
           pending'[r] # {} => \A q \in Runs \ {r} : pending[q] = {}
    PROVE  Inv'
<1>1. AllOnceOrNothing'
  BY DEF Inv, AllOnceOrNothing, Empty, Filled
<1>2. ASSUME NEW q \in Runs \ {r} PROVE RunOK(q)'
  <2>1. RunOK(q) /\ Same(q)
    BY DEF Inv, OneRunFillsTheDatabase
  <2> QED BY <2>1 DEF RunOK, Same, Empty, Filled, Ended
<1> QED BY <1>1, <1>2 DEF Inv, OneRunFillsTheDatabase

\* The row that a run deals with, and the table it sees.
LEMMA Here ==
    ASSUME Inv, NEW r \in Runs
    PROVE  /\ TypeOK /\ RunOK(r) /\ (Empty \/ Filled)
           /\ at[r] \in 1 .. 12 /\ Plan[at[r]] \in Keys
           /\ pending[r] # {} /\ pc[r] # "committing" => Plan[at[r]] \notin pending[r]
           /\ pc[r] \notin Ended \cup {"idle"} /\ at[r] > 1 /\ pending[r] = {} => Filled
<1>1. TypeOK /\ RunOK(r) /\ (Empty \/ Filled)
  BY DEF Inv, Typed, OneRunFillsTheDatabase, AllOnceOrNothing
<1>2. at[r] \in 1 .. 12 /\ Plan[at[r]] \in Keys
  BY <1>1, PlanFacts DEF TypeOK
<1>3. pending[r] # {} /\ pc[r] # "committing" => Plan[at[r]] \notin pending[r]
  BY <1>1, <1>2, PlanFacts DEF RunOK
<1> QED BY <1>1, <1>2, <1>3 DEF RunOK

\* SelectTwo never happens, and the other ways to fail keep what is known.
LEMMA FailStep ==
    ASSUME Inv, NEW r \in Runs,
           \/ SelectTwo(r) \/ InsertConflict(r) \/ Crash(r)
    PROVE  Inv'
<1>1. /\ TypeOK /\ RunOK(r) /\ (Empty \/ Filled) /\ Plan[at[r]] \in Keys
      /\ RollBack(r) /\ pc[r] \notin Ended \cup {"idle"}
      /\ pending[r] # {} /\ pc[r] # "committing" => Plan[at[r]] \notin pending[r]
  BY Here DEF SelectTwo, InsertConflict, Crash, Ended
<1>2. Typed'
  BY TypedStep DEF Inv, Next, Step
<1>3. r \in outage' \/ (Filled /\ ~full[r])
  <2>1. CASE Crash(r)
    BY <2>1 DEF Crash
  <2>2. CASE InsertConflict(r)
    BY <1>1, <2>2 DEF InsertConflict, Conflict, Empty, RunOK
  <2>3. CASE SelectTwo(r)
    <3>1. db[Plan[at[r]]] \in {0, 1}
      BY <1>1 DEF Empty, Filled
    <3>2. db[Plan[at[r]]] = 1
      BY <1>1, <2>3, <3>1 DEF SelectTwo, Found
    <3>3. Found(r, Plan[at[r]]) = 1
      <4>1. pending[r] = {}
        BY <1>1, <3>2 DEF RunOK, Empty
      <4> QED BY <3>2, <4>1 DEF Found
    <3> QED BY <2>3, <3>3 DEF SelectTwo
  <2> QED BY <2>1, <2>2, <2>3
<1>4. /\ pc'[r] = "failed" /\ pending'[r] = {} /\ db' = db /\ full' = full
      /\ outage \subseteq outage' /\ \A q \in Runs \ {r} : Same(q)
  BY <1>1 DEF RollBack, History, TypeOK, Same, SelectTwo, InsertConflict, Crash
<1>5. RunOK(r)'
  BY <1>1, <1>3, <1>4 DEF RunOK, Filled, Ended
<1> QED BY <1>2, <1>4, <1>5, OneRun

\* A run that starts notes whether the data is there.
LEMMA StartStep ==
    ASSUME Inv, NEW r \in Runs, Start(r)
    PROVE  Inv'
<1>1. TypeOK /\ RunOK(r) /\ (Empty \/ Filled)
  BY Here
<1>2. /\ at' = at /\ pending' = pending /\ written' = written /\ db' = db /\ user' = user
      /\ outage' = outage /\ touched' = touched /\ changes' = changes
      /\ pc'[r] \in {"selecting", "failed"}
      /\ pc'[r] = "failed" => password'[r] = NoPassword
      /\ full'[r] => \A k \in Keys : db[k] > 0
      /\ \A q \in Runs \ {r} : Same(q)
  BY <1>1 DEF Start, TypeOK, Same
<1>3. Typed'
  BY TypedStep DEF Inv, Next
<1>4. pending[r] = {}
  BY <1>1 DEF Start, RunOK
<1>5. full'[r] => Filled
  <2>1. Plan[1] \in Keys
    BY PlanFacts
  <2> QED BY <1>1, <1>2, <2>1 DEF Empty
<1>6. at'[r] = 1
  BY <1>1, <1>2 DEF RunOK, Start
<1>7. RunOK(r)'
  BY <1>1, <1>2, <1>4, <1>5, <1>6 DEF RunOK, Filled, Ended
<1> QED BY <1>2, <1>3, <1>4, <1>7, OneRun

\* A row that is missing: the first one, or the run has inserted those before.
LEMMA SelectMissingStep ==
    ASSUME Inv, NEW r \in Runs, SelectMissing(r)
    PROVE  Inv'
<1>1. /\ TypeOK /\ RunOK(r) /\ (Empty \/ Filled) /\ at[r] \in 1 .. 12
      /\ Plan[at[r]] \in Keys /\ pc[r] = "selecting"
      /\ at[r] > 1 /\ pending[r] = {} => Filled
  BY Here DEF SelectMissing, Ended
<1>2. ~Filled
  BY <1>1 DEF SelectMissing, Found, Filled
<1>3. Typed'
  BY TypedStep DEF Inv, Next, Step
<1>4. /\ pc'[r] = "inserting" /\ db' = db /\ pending' = pending /\ at' = at
      /\ full' = full /\ outage' = outage
      /\ \A q \in Runs \ {r} : Same(q)
  BY <1>1 DEF SelectMissing, History, TypeOK, Same
<1>5. RunOK(r)'
  BY <1>1, <1>2, <1>4 DEF RunOK, Empty, Filled, Ended
<1> QED BY <1>1, <1>3, <1>4, <1>5, OneRun DEF RunOK

\* A row that is found: the data is in place.
LEMMA FoundMeansFilled ==
    ASSUME Inv, NEW r \in Runs, pc[r] = "selecting", Found(r, Plan[at[r]]) = 1
    PROVE  Filled /\ pending[r] = {}
<1>1. /\ TypeOK /\ RunOK(r) /\ (Empty \/ Filled) /\ Plan[at[r]] \in Keys
      /\ pending[r] # {} => Plan[at[r]] \notin pending[r]
  BY Here
<1>2. ~Empty
  BY <1>1 DEF Found, Empty, RunOK
<1> QED BY <1>1, <1>2 DEF RunOK

\* The run passes a row that is in place.
LEMMA PassStep ==
    ASSUME Inv, NEW r \in Runs, pc[r] \in {"selecting", "updating"},
           Filled, pending[r] = {}, Typed',
           GoOn(r) \/ (pc' = [pc EXCEPT ![r] = "updating"] /\ at' = at),
           UNCHANGED <<db, password, pending, outage, full>>
    PROVE  Inv'
<1>1. TypeOK /\ RunOK(r)
  BY Here
<1>2. /\ pc'[r] \in {"selecting", "updating", "committing"}
      /\ \A q \in Runs \ {r} : Same(q)
  BY <1>1 DEF GoOn, TypeOK, Same
<1>3. RunOK(r)'
  BY <1>1, <1>2 DEF RunOK, Filled, Ended
<1> QED BY <1>2, <1>3, OneRun

\* The two steps after a SELECT that has found the row, and the UPDATE.
LEMMA ExistingStep ==
    ASSUME Inv, NEW r \in Runs, SelectExisting(r) \/ SelectUser(r) \/ UpdateUser(r)
    PROVE  Inv'
<1>1. TypeOK /\ RunOK(r)
  BY Here
<1>2. Typed'
  BY TypedStep DEF Inv, Next, Step
<1>3. Filled /\ pending[r] = {}
  <2>1. CASE SelectExisting(r) \/ SelectUser(r)
    BY <2>1, FoundMeansFilled DEF SelectExisting, SelectUser
  <2>2. CASE UpdateUser(r)
    BY <1>1, <2>2 DEF UpdateUser, RunOK, Ended
  <2> QED BY <2>1, <2>2
<1> QED BY <1>2, <1>3, PassStep DEF SelectExisting, SelectUser, UpdateUser, History

\* An INSERT that goes through: into an empty database, by the one run that
\* has inserted the first row, or that does so now.
LEMMA InsertStep ==
    ASSUME Inv, NEW r \in Runs, Insert(r)
    PROVE  Inv'
<1>1. /\ TypeOK /\ RunOK(r) /\ (Empty \/ Filled) /\ at[r] \in 1 .. 12
      /\ Plan[at[r]] \in Keys /\ pc[r] = "inserting"
  BY Here DEF Insert
<1>2. Empty /\ \A q \in Runs \ {r} : pending[q] = {}
  <2>1. CASE pending[r] # {}
    BY <1>1, <2>1 DEF RunOK
  <2>2. CASE pending[r] = {}
    <3>1. at[r] = 1 /\ Plan[at[r]] \in UniqueKeys
      BY <1>1, <2>2, PlanFacts DEF RunOK, Ended
    <3>2. Empty
      BY <1>1, <3>1 DEF Insert, Conflict, Filled
    <3>3. ASSUME NEW q \in Runs \ {r}, pending[q] # {}
          PROVE  Plan[1] \in pending[q]
      <4>1. /\ RunOK(q) /\ at[q] \in 1 .. 12
            /\ pc[q] # "committing" => Plan[at[q]] \notin pending[q]
        BY <3>3, Here
      <4>2. CASE pc[q] = "committing"
        BY <3>3, <4>1, <4>2, PlanFacts DEF RunOK
      <4>3. CASE pc[q] # "committing"
        <5>1. pending[q] = {Plan[i] : i \in 1 .. (at[q] - 1)}
          BY <3>3, <4>1, <4>3 DEF RunOK
        <5>2. at[q] - 1 >= 1
          BY <3>3, <4>1, <5>1
        <5> QED BY <4>1, <5>1, <5>2
      <4> QED BY <4>2, <4>3
    <3> QED BY <1>1, <3>1, <3>2, <3>3 DEF Insert, MustWait
  <2> QED BY <2>1, <2>2
<1>3. Typed'
  BY TypedStep DEF Inv, Next, Step
<1>4. /\ db' = db /\ full' = full /\ outage' = outage /\ password' = password
      /\ pending'[r] = pending[r] \cup {Plan[at[r]]}
      /\ \A q \in Runs \ {r} : Same(q) /\ pending'[q] = pending[q]
      /\ GoOn(r)
  BY <1>1 DEF Insert, GoOn, History, TypeOK, Same
<1>5. pending[r] = {Plan[i] : i \in 1 .. (at[r] - 1)}
  BY <1>1 DEF RunOK, Filled, Empty, Ended, Insert, Conflict, MustWait
<1>6. pending'[r] = {Plan[i] : i \in 1 .. at[r]}
  BY <1>1, <1>4, <1>5
<1>7. \/ pc'[r] = "committing" /\ at[r] = Len(Plan)
      \/ pc'[r] = "selecting" /\ at'[r] = at[r] + 1
  BY <1>1, <1>4 DEF GoOn, CommitsAfter, TypeOK
<1>8. pending'[r] = {Plan[i] : i \in
                1 .. IF pc'[r] = "committing" THEN Len(Plan) ELSE at'[r] - 1}
  BY SMTT(20), <1>1, <1>6, <1>7
<1>9. RunOK(r)'
  <2>1. Empty' /\ \A q \in Runs \ {r} : pending'[q] = {}
    BY <1>2, <1>4 DEF Empty
  <2>2. pending'[r] # {} /\ ~full[r] /\ pc'[r] \in {"selecting", "committing"}
    BY <1>1, <1>4, <1>7 DEF RunOK
  <2> QED BY <1>4, <1>8, <2>1, <2>2 DEF RunOK
<1> QED BY <1>2, <1>3, <1>4, <1>9, OneRun

\* The commit, confirmed or not: the run brings all of the plan or nothing.
LEMMA CommitStep ==
    ASSUME Inv, NEW r \in Runs, Commit(r) \/ CommitUnconfirmed(r)
    PROVE  Inv'
<1>1. /\ TypeOK /\ RunOK(r) /\ (Empty \/ Filled) /\ pc[r] = "committing"
      /\ \A q \in Runs : RunOK(q)
  BY Here DEF Commit, CommitUnconfirmed, Inv, OneRunFillsTheDatabase
<1>2. /\ db' = [k \in Keys |-> db[k] + IF k \in pending[r] THEN 1 ELSE 0]
      /\ pending' = [pending EXCEPT ![r] = {}] /\ full' = full
      /\ outage \subseteq outage' /\ password' = password /\ at' = at
      /\ \/ pc' = [pc EXCEPT ![r] = "committed"]
         \/ pc' = [pc EXCEPT ![r] = "failed"] /\ r \in outage'
  BY DEF Commit, CommitUnconfirmed, History
<1>3. Filled'
  <2>1. CASE pending[r] = {}
    <3>1. Filled
      BY <1>1, <2>1 DEF RunOK, Ended
    <3> QED BY <1>1, <1>2, <2>1, <3>1 DEF Filled, TypeOK
  <2>2. CASE pending[r] # {}
    <3>1. Empty /\ pending[r] = Keys
      BY <1>1, <2>2, PlanFacts DEF RunOK
    <3> QED BY <1>2, <3>1 DEF Filled, Empty
  <2> QED BY <2>1, <2>2
<1>4. Typed'
  BY TypedStep DEF Inv, Next, Step
<1>5. ASSUME NEW q \in Runs PROVE RunOK(q)'
  <2>1. RunOK(q)
    BY <1>1
  <2>2. CASE q = r
    BY <1>1, <1>2, <1>3, <2>2 DEF RunOK, TypeOK, Ended
  <2>3. CASE q # r
    <3>1. /\ pc'[q] = pc[q] /\ at'[q] = at[q] /\ pending'[q] = pending[q]
          /\ full'[q] = full[q] /\ password'[q] = password[q]
      BY <1>1, <1>2, <2>3 DEF TypeOK
    <3>2. pending[q] = {}
      <4>1. CASE pending[r] # {}
        BY <1>1, <2>3, <4>1 DEF RunOK
      <4>2. CASE pending[r] = {}
        <5>1. Filled
          BY <1>1, <4>2 DEF RunOK, Ended
        <5> QED BY <2>1, <5>1, PlanFacts DEF RunOK, Filled, Empty
      <4> QED BY <4>1, <4>2
    <3> QED BY <1>2, <1>3, <2>1, <3>1, <3>2 DEF RunOK
  <2> QED BY <2>2, <2>3
<1> QED BY <1>3, <1>4, <1>5 DEF Inv, AllOnceOrNothing, OneRunFillsTheDatabase

\* The operator touches the user row only.
LEMMA SetUserStep ==
    ASSUME Inv, SetUser
    PROVE  Inv'
<1>2. Typed'
  BY TypedStep DEF Inv, Next
<1>3. UNCHANGED <<db, pc, at, password, pending, full, outage>>
  BY DEF SetUser
<1> QED
  BY <1>2, <1>3 DEF Inv, AllOnceOrNothing, OneRunFillsTheDatabase, RunOK, Empty, Filled

\* Inv holds at the start, if no rows have been deleted or doubled.
LEMMA InitInv ==
    ASSUME Missing = {}, Doubled = {}, Init
    PROVE  Inv
<1>2. Typed
  BY TypedInit
<1>3. Empty \/ Filled
  BY DEF Init, Empty, Filled
<1>4. \A r \in Runs : RunOK(r)
  BY DEF Init, RunOK, Ended
<1> QED BY <1>2, <1>3, <1>4 DEF Inv, AllOnceOrNothing, OneRunFillsTheDatabase

\* Every step preserves Inv.
LEMMA NextInv ==
    ASSUME Inv, [Next]_vars
    PROVE  Inv'
<1>1. CASE UNCHANGED vars
  BY <1>1 DEF Inv, Typed, TypeOK, UserThere, VersionOK, AllOnceOrNothing,
              OneRunFillsTheDatabase, RunOK, Empty, Filled, vars
<1>2. ASSUME NEW r \in Runs,
             Start(r) \/ Step(r) \/ CommitUnconfirmed(r) \/ Crash(r)
      PROVE  Inv'
  BY <1>2, StartStep, SelectMissingStep, ExistingStep, InsertStep, CommitStep, FailStep
     DEF Step
<1>3. CASE SetUser
  BY <1>3, SetUserStep
<1> QED BY <1>1, <1>2, <1>3 DEF Next, Quiet

\* However many seeds run at once and wherever they crash, the invariant holds.
THEOREM SeedInvariance ==
    ASSUME Missing = {}, Doubled = {}
    PROVE  Spec => []Inv
<1>1. Init => Inv
  BY InitInv
<1>2. Inv /\ [Next]_vars => Inv'
  BY NextInv
<1> QED BY <1>1, <1>2, PTL DEF Spec

\* The database holds nothing of the plan or all of it, each row once.
THEOREM SeedIsAtomic ==
    ASSUME Missing = {}, Doubled = {}
    PROVE  Spec => []AllOnceOrNothing
<1>1. Inv => AllOnceOrNothing
  BY DEF Inv
<1> QED BY <1>1, SeedInvariance, PTL

\* Only one run ever holds uncommitted rows, and it fills an empty database.
THEOREM OneRunFills ==
    ASSUME Missing = {}, Doubled = {}
    PROVE  Spec => []OneRunFillsTheDatabase
<1>1. Inv => OneRunFillsTheDatabase
  BY DEF Inv
<1> QED BY <1>1, SeedInvariance, PTL

\* A run on an empty database fails only because another one has filled it.
THEOREM ConflictsMeanSeeded ==
    ASSUME Missing = {}, Doubled = {}
    PROVE  Spec => []ConflictMeansSeeded
<1>1. Inv => ConflictMeansSeeded
  BY DEF Inv, OneRunFillsTheDatabase, RunOK, Filled, ConflictMeansSeeded
<1> QED BY <1>1, SeedInvariance, PTL

\* Where the data is in place, a seed succeeds unless it is cut off.
THEOREM RepeatedSeedSucceeds ==
    ASSUME Missing = {}, Doubled = {}
    PROVE  Spec => []SeedIsRepeatable
<1>1. Inv => SeedIsRepeatable
  BY DEF Inv, OneRunFillsTheDatabase, RunOK, SeedIsRepeatable
<1> QED BY <1>1, SeedInvariance, PTL
-----------------------------------------------------------------------------
(* Whatever rows have been deleted: who can log in, and who can double rows. *)

\* The password is one of r, or of a run that had not ended when r started.
GoodPassword(r, p) == \E q \in Runs \ before[r] : pc[q] # "idle" /\ p = password[q]

\* The demo user can log in with such a password.
GoodRow(r, u) == u # NoUser /\ u.active /\ GoodPassword(r, u.password)

Running(r) == pc[r] \notin Ended \cup {"idle"}

\* The user as r's transaction sees it.
Seen(r) == IF written[r] = NoUser THEN user ELSE written[r]

\* The version that r has written differs from the committed one in that it is
\* active, or has r's password: nobody else can commit in the meantime.
Follows(r) ==
    /\ written[r].active \/ (user # NoUser /\ ~user.active)
    /\ \/ written[r].password = password[r]
       \/ user # NoUser /\ written[r].password = user.password

\* What was good when r loaded it has remained so, though others may have
\* committed since: what r will not write needs no writing.
LoadedOK(r) ==
    /\ loaded[r].active => user.active
    /\ loaded[r].password = password[r] => GoodPassword(r, user.password)

\* A run that has passed the row of the user has found it good, or written it so.
UserOK(r) ==
    /\ \A q \in before[r] : pc[q] \in Ended
    /\ pending[r] # {} \/ written[r] # NoUser => Running(r)
    /\ pc[r] = "committing" => at[r] = 12
    /\ pc[r] = "idle" => at[r] = 1
    /\ written[r] # NoUser => Follows(r)
    /\ pc[r] = "updating" /\ r \notin touched => LoadedOK(r)
    /\ (pc[r] = "committed" \/ (Running(r) /\ at[r] > 3)) /\ r \notin touched =>
          GoodRow(r, Seen(r))

\* The row lock: one transaction at a time has written the user.
Exclusive == \A r, q \in Runs : r # q => written[r] = NoUser \/ written[q] = NoUser

Overlap ==
    \E r, q \in Runs :
        /\ r # q /\ pc[r] # "idle" /\ pc[q] # "idle"
        /\ r \notin before[q] /\ q \notin before[r]

\* No row twice, but those that were, nor about to be.
Single ==
    /\ \A k \in Keys \ Doubled : db[k] <= 1
    /\ \A r \in Runs : \A k \in pending[r] : db[k] = 0
    /\ \A r \in Runs : pc[r] = "inserting" => db[Plan[at[r]]] = 0

AnyInv == Typed /\ Exclusive /\ (\A r \in Runs : UserOK(r)) /\ (Overlap \/ Single)

\* What a step of r does to the other runs, the user and the table.
LEMMA StepOfOne ==
    ASSUME TypeOK, NEW r \in Runs,
           Start(r) \/ Step(r) \/ CommitUnconfirmed(r) \/ Crash(r)
    PROVE  /\ \A q \in Runs \ {r} : /\ Same(q) /\ written'[q] = written[q]
                                    /\ loaded'[q] = loaded[q] /\ before'[q] = before[q]
           /\ touched' = touched
           /\ pc[r] \notin Ended /\ pc'[r] # "idle"
           /\ Start(r) \/ (Running(r) /\ before' = before /\ password' = password)
           /\ \/ db' = db /\ user' = user
              \/ /\ pc[r] = "committing" /\ pc'[r] \in Ended
                 /\ db' = [k \in Keys |-> db[k] + IF k \in pending[r] THEN 1 ELSE 0]
                 /\ user' = IF written[r] = NoUser THEN user ELSE written[r]
<1>1. CASE Start(r)
  BY <1>1 DEF Start, TypeOK, Same, Ended
<1>2. CASE SelectMissing(r) \/ SelectUser(r)
  BY <1>2 DEF SelectMissing, SelectUser, History, TypeOK, Same, Ended, Running
<1>3. CASE SelectTwo(r) \/ InsertConflict(r) \/ Crash(r)
  BY <1>3 DEF SelectTwo, InsertConflict, Crash, RollBack, History, TypeOK, Same, Ended,
     Running
<1>4. CASE SelectExisting(r) \/ Insert(r) \/ UpdateUser(r)
  BY <1>4 DEF SelectExisting, Insert, UpdateUser, GoOn, History, TypeOK, Same, Ended,
     Running
<1>5. CASE Commit(r) \/ CommitUnconfirmed(r)
  BY <1>5 DEF Commit, CommitUnconfirmed, History, TypeOK, Same, Ended, Running
<1> QED BY <1>1, <1>2, <1>3, <1>4, <1>5 DEF Step
\* Where a run goes on, it has passed the user only if it has dealt with it.
LEMMA WentOn ==
    ASSUME TypeOK, NEW r \in Runs, GoOn(r)
    PROVE  /\ pc'[r] \in {"selecting", "committing"}
           /\ pc'[r] = "committing" => at'[r] = 12
           /\ at'[r] > 3 => at[r] >= 3
  BY PlanFacts DEF GoOn, CommitsAfter, TypeOK

\* Two runs cannot both have written the user: neither inserted, since the key
\* is unique, nor updated, since the row is locked.
LEMMA ExclusiveStep ==
    ASSUME AnyInv, NEW r \in Runs,
           Start(r) \/ Step(r) \/ CommitUnconfirmed(r) \/ Crash(r)
    PROVE  Exclusive'
<1>1. TypeOK /\ UserThere /\ Exclusive
  BY DEF AnyInv, Typed
<1>2. \A q \in Runs \ {r} : written'[q] = written[q]
  BY <1>1, StepOfOne
<1>3. ASSUME written'[r] \notin {NoUser, written[r]}
      PROVE  \A q \in Runs \ {r} : written[q] = NoUser
  <2>1. CASE Insert(r)
    <3>1. Plan[at[r]] = "user"
      BY <1>1, <1>3, <2>1 DEF Insert, TypeOK
    <3>2. db["user"] = 0 /\ \A q \in Runs \ {r} : "user" \notin pending[q]
      BY <1>1, <2>1, <3>1, ThirdIsUser DEF Insert, MustWait, Conflict, TypeOK
    <3>3. user = NoUser
      BY <1>1, <3>2 DEF UserThere
    <3> QED BY <1>1, <3>2, <3>3 DEF UserThere, VersionOK
  <2>2. CASE UpdateUser(r)
    BY <2>2 DEF UpdateUser, Locked
  <2>3. Insert(r) \/ UpdateUser(r)
    BY <1>1, <1>3 DEF Step, Start, SelectMissing, SelectExisting, SelectUser, SelectTwo,
       InsertConflict, Crash, RollBack, Commit, CommitUnconfirmed, TypeOK
  <2> QED BY <2>1, <2>2, <2>3
<1> QED BY <1>1, <1>2, <1>3 DEF Exclusive

\* What is good for a run that is under way, or has ended, remains good: a
\* version that is committed follows the one before it, and its run had not
\* ended when the other one started.
LEMMA StillGood ==
    ASSUME AnyInv, NEW r \in Runs,
           Start(r) \/ Step(r) \/ CommitUnconfirmed(r) \/ Crash(r),
           NEW s \in Runs, before'[s] = before[s], pc[s] # "idle"
    PROVE  /\ \A p : GoodPassword(s, p) => GoodPassword(s, p)'
           /\ user # NoUser => user' # NoUser
           /\ user # NoUser /\ user.active => user'.active
           /\ user # NoUser /\ GoodPassword(s, user.password) =>
                 GoodPassword(s, user.password)'
<1>1. /\ TypeOK /\ UserOK(r) /\ UserOK(s)
      /\ before[s] \subseteq Runs
  BY DEF AnyInv, Typed, TypeOK
<1>2. \A q \in Runs : pc[q] # "idle" => pc'[q] # "idle" /\ password'[q] = password[q]
  BY <1>1, StepOfOne DEF Same, Start
<1>3. \A p : GoodPassword(s, p) => GoodPassword(s, p)'
  BY <1>2 DEF GoodPassword
<1>4. CASE user' = user
  BY <1>3, <1>4 DEF GoodPassword
<1>5. CASE user' # user
  <2>1. /\ pc[r] = "committing" /\ written[r] # NoUser /\ user' = written[r]
    BY <1>1, <1>5, StepOfOne
  <2>2. Follows(r) /\ r \notin before[s]
    BY <1>1, <2>1 DEF UserOK, Ended
  <2>3. GoodPassword(s, password[r])
    BY <2>1, <2>2 DEF GoodPassword
  <2>4. user # NoUser /\ GoodPassword(s, user.password) => GoodPassword(s, user'.password)
    BY <2>1, <2>2, <2>3 DEF Follows
  <2>5. user # NoUser /\ GoodPassword(s, user.password) => GoodPassword(s, user.password)'
    BY <1>2, <2>4 DEF GoodPassword
  <2> QED BY <1>3, <2>1, <2>2, <2>5 DEF Follows
<1> QED BY <1>4, <1>5

\* The runs that r's step is not of.
LEMMA UserOther ==
    ASSUME AnyInv, NEW r \in Runs,
           Start(r) \/ Step(r) \/ CommitUnconfirmed(r) \/ Crash(r),
           NEW s \in Runs \ {r}
    PROVE  UserOK(s)'
<1>1. TypeOK /\ UserThere /\ UserOK(s) /\ before[s] \subseteq Runs /\ Exclusive
  BY DEF AnyInv, Typed, TypeOK
<1>2. /\ Same(s) /\ written'[s] = written[s] /\ before'[s] = before[s]
      /\ loaded'[s] = loaded[s] /\ touched' = touched
  BY <1>1, StepOfOne
<1>3. \A q \in before[s] : pc'[q] \in Ended
  BY <1>1, StepOfOne DEF UserOK, Same
<1>4. written[s] # NoUser => user' = user
  BY <1>1, StepOfOne DEF Exclusive
<1>5. written[s] # NoUser => Follows(s)'
  BY <1>1, <1>2, <1>4 DEF UserOK, Follows, Same
<1>6. ASSUME pc[s] = "updating", s \notin touched
      PROVE  LoadedOK(s)'
  <2>1. user # NoUser /\ LoadedOK(s)
    BY <1>1, <1>6 DEF UserThere, VersionOK, UserOK
  <2> QED BY <1>2, <1>6, <2>1, StillGood DEF LoadedOK, Same
<1>7. ASSUME pc[s] # "idle", GoodRow(s, Seen(s))
      PROVE  GoodRow(s, Seen(s))'
  <2>1. CASE written[s] = NoUser
    BY <1>2, <1>7, <2>1, StillGood DEF GoodRow, Seen
  <2>2. CASE written[s] # NoUser
    <3>1. GoodPassword(s, written[s].password) => GoodPassword(s, written[s].password)'
      BY <1>2, <1>7, StillGood DEF GoodPassword
    <3> QED BY <1>2, <1>7, <2>2, <3>1 DEF GoodRow, Seen
  <2> QED BY <2>1, <2>2
<1> QED BY <1>1, <1>2, <1>3, <1>5, <1>6, <1>7 DEF UserOK, Same, Running, Ended

\* The run whose step it is.
LEMMA UserOwn ==
    ASSUME AnyInv, NEW r \in Runs,
           Start(r) \/ Step(r) \/ CommitUnconfirmed(r) \/ Crash(r)
    PROVE  UserOK(r)'
<1>1. /\ TypeOK /\ UserThere /\ UserOK(r) /\ before[r] \subseteq Runs
      /\ at[r] \in 1 .. 12
  BY ThirdIsUser DEF AnyInv, Typed, TypeOK
<1>2. CASE Start(r)
  <2>1. /\ pc'[r] \in {"selecting", "failed"} /\ at'[r] = 1
        /\ pending'[r] = {} /\ written'[r] = NoUser
        /\ before'[r] = {q \in Runs : pc[q] \in Ended}
    BY <1>1, <1>2 DEF Start, UserOK, TypeOK, Running
  <2>2. \A q \in before'[r] : pc'[q] \in Ended
    BY <1>1, <1>2, <2>1 DEF Start, Ended, TypeOK
  <2> QED BY <2>1, <2>2 DEF UserOK, Running, Ended
<1>3. ASSUME ~Start(r)
      PROVE  /\ Running(r) /\ before' = before /\ password' = password
             /\ touched' = touched /\ \A q \in before'[r] : pc'[q] \in Ended
             /\ pc'[r] # "idle" /\ r \notin before[r]
  BY <1>1, <1>3, StepOfOne DEF UserOK, Same, Running
<1>4. ASSUME ~Start(r), UNCHANGED <<user, written>>, GoodRow(r, Seen(r))
      PROVE  GoodRow(r, Seen(r))'
  <2>1. \A p : GoodPassword(r, p) => GoodPassword(r, p)'
    BY <1>3, <1>4, StillGood DEF Running
  <2> QED BY <1>4, <2>1 DEF GoodRow, Seen, GoodPassword
<1>5. ASSUME ~Start(r)
      PROVE  GoodPassword(r, password[r])'
  BY <1>3, <1>5 DEF GoodPassword
<1>6. CASE SelectMissing(r)
  <2>1. /\ pc'[r] = "inserting" /\ pc[r] = "selecting" /\ ~Start(r)
        /\ UNCHANGED <<at, written, pending, user>>
    BY <1>1, <1>6 DEF SelectMissing, TypeOK, Start
  <2> QED BY <1>1, <1>3, <1>4, <2>1 DEF UserOK, Running, Ended, Follows
<1>7. CASE SelectUser(r)
  <2>1. /\ pc'[r] = "updating" /\ pc[r] = "selecting" /\ ~Start(r) /\ loaded'[r] = user
        /\ at[r] = 3 /\ UNCHANGED <<at, written, pending, user>>
    BY <1>1, <1>7, ThirdIsUser DEF SelectUser, TypeOK, Start
  <2>2. LoadedOK(r)'
    BY <1>3, <1>5, <2>1 DEF LoadedOK, GoodPassword
  <2> QED BY <1>1, <1>3, <2>1, <2>2 DEF UserOK, Running, Ended, Follows
<1>8. CASE SelectTwo(r) \/ InsertConflict(r) \/ Crash(r)
  <2>1. pc'[r] = "failed" /\ pending'[r] = {} /\ written'[r] = NoUser /\ ~Start(r)
    BY <1>1, <1>8 DEF SelectTwo, InsertConflict, Crash, RollBack, TypeOK, Start, Ended
  <2> QED BY <1>3, <2>1 DEF UserOK, Running, Ended
<1>9. CASE SelectExisting(r)
  <2>1. /\ GoOn(r) /\ ~Start(r) /\ UNCHANGED <<written, pending, user>>
        /\ pc[r] = "selecting"
    BY <1>9 DEF SelectExisting, Start
  <2>2. ASSUME at[r] = 3 PROVE GoodRow(r, Seen(r))'
    <3>1. Plan[at[r]] = "user"
      BY <1>1, <2>2, ThirdIsUser
    <3>2. user # NoUser /\ user = Renewed(user, password[r])
      BY <1>9, <3>1, UserFound DEF SelectExisting, AnyInv
    <3>3. user.active /\ user.password = password[r]
      BY <3>2 DEF Renewed
    <3>4. written[r] = NoUser
      BY <1>1, <2>2 DEF UserThere, VersionOK
    <3> QED BY <1>3, <1>5, <2>1, <3>2, <3>3, <3>4 DEF GoodRow, Seen, GoodPassword
  <2>3. /\ pc'[r] \in {"selecting", "committing"}
        /\ pc'[r] = "committing" => at'[r] = 12
        /\ at'[r] > 3 => at[r] >= 3
    BY <1>1, <2>1, WentOn
  <2>4. at'[r] > 3 /\ r \notin touched => GoodRow(r, Seen(r))'
    BY <1>1, <1>3, <1>4, <2>1, <2>2, <2>3 DEF UserOK
  <2> QED BY <1>1, <1>3, <2>1, <2>3, <2>4 DEF UserOK, Running, Ended, Follows
<1>10. CASE Insert(r) \/ UpdateUser(r)
  <2>1. /\ GoOn(r) /\ ~Start(r) /\ UNCHANGED user
        /\ UpdateUser(r) => at[r] = 3
    BY <1>1, <1>10 DEF Insert, UpdateUser, Start, UserThere, VersionOK
  <2>2. /\ pc'[r] \in {"selecting", "committing"}
        /\ pc'[r] = "committing" => at'[r] = 12
        /\ at'[r] > 3 => at[r] >= 3
    BY <1>1, <2>1, WentOn
  <2>3. CASE at[r] # 3
    <3>1. Insert(r) /\ written' = written
      BY <1>1, <1>10, <2>1, <2>3, ThirdIsUser DEF Insert, TypeOK
    <3>2. at'[r] > 3 /\ r \notin touched => GoodRow(r, Seen(r))'
      BY <1>1, <1>3, <1>4, <2>1, <2>2, <2>3, <3>1 DEF UserOK
    <3> QED BY <1>1, <1>3, <2>1, <2>2, <3>1, <3>2 DEF UserOK, Running, Ended, Follows
  <2>4. CASE at[r] = 3 /\ Insert(r)
    <3>1. written'[r] = NewUser(password[r]) /\ NewUser(password[r]) \in User
      BY <1>1, <2>4, ThirdIsUser DEF Insert, TypeOK, NewUser, User
    <3>2. written'[r] # NoUser
      BY <3>1, ConstantsAssumption
    <3>3. written'[r].active /\ written'[r].password = password[r]
      BY <3>1 DEF NewUser
    <3>4. GoodRow(r, Seen(r))' /\ Follows(r)'
      BY <1>3, <1>5, <2>1, <3>2, <3>3 DEF GoodRow, Seen, GoodPassword, Follows
    <3> QED BY <1>3, <2>1, <2>2, <3>4 DEF UserOK, Running, Ended
  <2>5. CASE UpdateUser(r)
    <3>1. /\ user \in User /\ loaded[r] \in User /\ user # NoUser /\ pc[r] = "updating"
      BY <1>1, <2>5 DEF UpdateUser, TypeOK, UserThere, VersionOK
    <3>2. /\ written'[r] = Updated(user, loaded[r], Renewed(loaded[r], password[r]))
          /\ written'[r] \in User
      BY <1>1, <2>5, <3>1 DEF UpdateUser, TypeOK, Updated, Renewed, User
    <3>3. written'[r] # NoUser
      BY <3>2, ConstantsAssumption
    <3>4. /\ loaded[r].active => (written'[r].active <=> user.active)
          /\ ~loaded[r].active => written'[r].active
      <4>1. loaded[r].active \in BOOLEAN /\ user.active \in BOOLEAN
        BY <3>1 DEF User
      <4>2. written'[r].active = IF TRUE = loaded[r].active THEN user.active ELSE TRUE
        <5> DEFINE a == IF TRUE = loaded[r].active THEN user.active ELSE TRUE
                   new == Renewed(loaded[r], password[r])
        <5>1. new.active = TRUE
          BY DEF Renewed
        <5>2. Updated(user, loaded[r], new).active = a
          BY <5>1 DEF Updated
        <5> QED BY <3>2, <5>2
      <4>3. CASE loaded[r].active
        BY <4>1, <4>2, <4>3
      <4>4. CASE ~loaded[r].active
        BY <4>1, <4>2, <4>4
      <4> QED BY <4>3, <4>4
    <3>5. written'[r].password = IF loaded[r].password = password[r]
                                 THEN user.password ELSE password[r]
      BY <3>1, <3>2 DEF Updated, Renewed, User
    <3>6. Follows(r)'
      <4>1. written'[r].active \/ ~user.active
        BY <3>4
      <4> QED BY <1>3, <2>1, <3>1, <3>5, <4>1 DEF Follows
    <3>7. ASSUME r \notin touched PROVE GoodRow(r, Seen(r))'
      <4>1. LoadedOK(r)
        BY <1>1, <3>1, <3>7 DEF UserOK
      <4>2. written'[r].active
        BY <3>4, <4>1 DEF LoadedOK
      <4>3. GoodPassword(r, written[r].password)'
        <5>1. CASE loaded[r].password = password[r]
          <6>1. GoodPassword(r, user.password)
            BY <4>1, <5>1 DEF LoadedOK
          <6> QED BY <1>3, <2>1, <3>1, <3>5, <5>1, <6>1, StillGood DEF GoodPassword, Running
        <5>2. CASE loaded[r].password # password[r]
          BY <1>5, <1>3, <2>1, <3>5, <5>2 DEF GoodPassword
        <5> QED BY <5>1, <5>2
      <4> QED BY <3>3, <4>2, <4>3 DEF GoodRow, Seen
    <3> QED BY <1>3, <2>1, <2>2, <3>6, <3>7 DEF UserOK, Running, Ended
  <2> QED BY <1>10, <2>3, <2>4, <2>5
<1>11. CASE Commit(r) \/ CommitUnconfirmed(r)
  <2>1. /\ pc[r] = "committing" /\ pc'[r] \in Ended /\ pending'[r] = {}
        /\ written'[r] = NoUser /\ ~Start(r) /\ user' = Seen(r)
    BY <1>1, <1>11 DEF Commit, CommitUnconfirmed, TypeOK, Start, Ended, Seen
  <2>2. at[r] = 12
    BY <1>1, <2>1 DEF UserOK
  <2>3. ASSUME r \notin touched PROVE GoodRow(r, Seen(r))'
    <3>1. GoodRow(r, Seen(r))
      BY <1>1, <1>3, <2>1, <2>2, <2>3 DEF UserOK
    <3>2. \A p : GoodPassword(r, p) => GoodPassword(r, p)'
      BY <1>3, <2>1, StillGood DEF Running
    <3>3. GoodPassword(r, user.password)'
      BY <2>1, <3>1, <3>2 DEF GoodRow, GoodPassword
    <3> QED BY <2>1, <3>1, <3>3 DEF GoodRow, Seen
  <2> QED BY <1>3, <2>1, <2>3 DEF UserOK, Running, Ended
<1> QED BY <1>2, <1>6, <1>7, <1>8, <1>9, <1>10, <1>11 DEF Step

\* Runs that have overlapped have overlapped for good.
LEMMA OverlapStays ==
    ASSUME AnyInv, NEW r \in Runs,
           Start(r) \/ Step(r) \/ CommitUnconfirmed(r) \/ Crash(r), Overlap
    PROVE  Overlap'
<1>1. PICK s, q \in Runs :
          /\ s # q /\ pc[s] # "idle" /\ pc[q] # "idle"
          /\ s \notin before[q] /\ q \notin before[s]
  BY DEF Overlap
<1>2. \A t \in Runs : pc[t] # "idle" => pc'[t] # "idle" /\ before'[t] = before[t]
  BY StepOfOne DEF AnyInv, Typed, Same, Start
<1> QED BY <1>1, <1>2 DEF Overlap

\* Without overlap, the run whose step it is is alone.
LEMMA SingleStep ==
    ASSUME AnyInv, NEW r \in Runs,
           Start(r) \/ Step(r) \/ CommitUnconfirmed(r) \/ Crash(r)
    PROVE  (Overlap \/ Single)'
<1> SUFFICES ASSUME ~Overlap PROVE Single'
  BY OverlapStays
<1>1. TypeOK /\ Single /\ (\A q \in Runs : UserOK(q)) /\ Plan[at[r]] \in Keys
  BY ThirdIsUser DEF AnyInv, Typed
<1>2. /\ \A q \in Runs \ {r} : pc'[q] = pc[q] /\ at'[q] = at[q] /\ pending'[q] = pending[q]
      /\ Start(r) \/ Running(r)
  BY <1>1, StepOfOne DEF Same
<1>3. CASE Start(r)
  <2>1. db' = db /\ pending' = pending /\ pc'[r] # "inserting"
    BY <1>1, <1>3 DEF Start, TypeOK
  <2> QED BY <1>1, <1>2, <2>1 DEF Single
<1>4. CASE ~Start(r)
  <2>1. ASSUME NEW q \in Runs \ {r}
        PROVE  ~Running(q)
    BY <1>1, <1>2, <1>4 DEF Overlap, UserOK, Running
  <2>2. \A q \in Runs \ {r} : pending'[q] = {} /\ pc'[q] # "inserting"
    BY <1>1, <1>2, <2>1 DEF UserOK, Running, Ended
  <2>3. CASE Commit(r) \/ CommitUnconfirmed(r)
    <3>1. /\ db' = [k \in Keys |-> db[k] + IF k \in pending[r] THEN 1 ELSE 0]
          /\ pending'[r] = {} /\ pc'[r] # "inserting"
      BY <1>1, <2>3 DEF Commit, CommitUnconfirmed, TypeOK
    <3>2. \A k \in Keys \ Doubled : db'[k] <= 1
      BY <1>1, <3>1 DEF Single, TypeOK
    <3> QED BY <2>2, <3>1, <3>2 DEF Single
  <2>4. CASE Insert(r)
    <3>1. /\ db' = db /\ pending'[r] = pending[r] \cup {Plan[at[r]]}
          /\ pc'[r] # "inserting" /\ pc[r] = "inserting"
      BY <1>1, <2>4, WentOn DEF Insert, TypeOK
    <3> QED BY <1>1, <2>2, <3>1 DEF Single
  <2>5. CASE SelectMissing(r)
    <3>1. /\ db' = db /\ pending' = pending /\ at' = at
          /\ Found(r, Plan[at[r]]) = 0
      BY <2>5 DEF SelectMissing
    <3>2. db[Plan[at[r]]] = 0
      BY <1>1, <3>1 DEF Found, TypeOK
    <3> QED BY <1>1, <2>2, <3>1, <3>2 DEF Single
  <2>6. CASE SelectExisting(r) \/ SelectUser(r) \/ UpdateUser(r)
    <3>1. db' = db /\ pending' = pending /\ pc'[r] # "inserting"
      BY <1>1, <2>6, WentOn DEF SelectExisting, SelectUser, UpdateUser, TypeOK
    <3> QED BY <1>1, <2>2, <3>1 DEF Single
  <2>7. CASE SelectTwo(r) \/ InsertConflict(r) \/ Crash(r)
    <3>1. db' = db /\ pending'[r] = {} /\ pc'[r] # "inserting"
      BY <1>1, <2>7 DEF SelectTwo, InsertConflict, Crash, RollBack, TypeOK
    <3> QED BY <1>1, <2>2, <3>1 DEF Single
  <2> QED BY <1>4, <2>3, <2>4, <2>5, <2>6, <2>7 DEF Step
<1> QED BY <1>3, <1>4

\* For any rows deleted or doubled, any runs and any changes to the user.
THEOREM AnyTableInvariance == Spec => []AnyInv
<1>1. ASSUME Init PROVE AnyInv
  <2>1. Typed /\ Exclusive
    BY <1>1, TypedInit DEF Init, Exclusive
  <2>2. \A r \in Runs : UserOK(r)
    BY <1>1 DEF Init, UserOK, Running, Ended
  <2>3. Single
    BY <1>1 DEF Init, Single
  <2> QED BY <2>1, <2>2, <2>3 DEF AnyInv
<1>2. ASSUME AnyInv, [Next]_vars PROVE AnyInv'
  <2>1. Typed'
    BY <1>2, TypedStep DEF AnyInv
  <2>2. ASSUME NEW r \in Runs,
               Start(r) \/ Step(r) \/ CommitUnconfirmed(r) \/ Crash(r)
        PROVE  AnyInv'
    <3>1. \A s \in Runs : UserOK(s)'
      BY <1>2, <2>2, UserOwn, UserOther
    <3> QED BY <1>2, <2>1, <2>2, <3>1, ExclusiveStep, SingleStep DEF AnyInv
  <2>3. CASE SetUser
    <3>1. /\ UNCHANGED <<db, pc, at, password, pending, loaded, written, before>>
          /\ touched' = {r \in Runs : pc[r] # "idle"}
          /\ \A r \in Runs : written[r] = NoUser
      BY <2>3 DEF SetUser
    <3>2. (Exclusive /\ (Overlap \/ Single))'
      BY <1>2, <3>1 DEF AnyInv, Exclusive, Overlap, Single
    <3>3. ASSUME NEW r \in Runs PROVE UserOK(r)'
      <4>1. UserOK(r)
        BY <1>2 DEF AnyInv
      <4> QED BY <3>1, <4>1 DEF UserOK, Running, Ended
    <3> QED BY <2>1, <3>2, <3>3 DEF AnyInv
  <2>4. CASE UNCHANGED vars
    BY <1>2, <2>1, <2>4
       DEF vars, AnyInv, UserOK, Running, Follows, LoadedOK, GoodRow, GoodPassword, Seen,
           Exclusive, Overlap, Single
  <2> QED BY <1>2, <2>2, <2>3, <2>4 DEF Next, Quiet
<1> QED BY <1>1, <1>2, PTL DEF Spec

\* After a run the demo user can log in, unless an operator stepped in.
THEOREM DemoUserLogsIn == Spec => []DemoUserCanLogIn
<1>1. ASSUME AnyInv PROVE DemoUserCanLogIn
  <2> SUFFICES ASSUME NEW r \in Runs, pc[r] = "committed", r \notin touched
               PROVE  GoodRow(r, user)
    BY DEF GoodRow, GoodPassword, DemoUserCanLogIn
  <2>1. UserOK(r) /\ ~Running(r)
    BY <1>1 DEF AnyInv, Running, Ended
  <2> QED BY <2>1 DEF UserOK, Seen
<1> QED BY AnyTableInvariance, <1>1, PTL

\* Runs one after the other never double a row, whatever had been deleted.
THEOREM NoOverlapNoDuplicates == Spec => []DuplicatesNeedOverlap
<1>1. ASSUME AnyInv PROVE DuplicatesNeedOverlap
  <2> SUFFICES ASSUME NEW k \in Keys \ Doubled, db[k] > 1 PROVE Overlap
    BY DEF DuplicatesNeedOverlap, Overlap
  <2>1. ~Single
    BY <1>1 DEF Single, AnyInv, Typed, TypeOK
  <2> QED BY <1>1, <2>1 DEF AnyInv
<1> QED BY AnyTableInvariance, <1>1, PTL
=============================================================================
