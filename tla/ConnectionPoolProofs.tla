------------------------- MODULE ConnectionPoolProofs -------------------------
(***************************************************************************)
(* Proofs about ConnectionPool, for a pool of any size and any number of   *)
(* requests: records are accounted for, pool and row lock do not deadlock, *)
(* and failures are founded.  The inductive invariant is Inv.              *)
(***************************************************************************)
EXTENDS ConnectionPool, FiniteSetTheorems, TLAPS

Connected == {"open", "locking", "holding"}

\* What a request has at each place.
SessionOK(r) ==
    /\ pc[r] \in Connected \cup {"connecting"} => record[r] # NoRecord
    /\ pc[r] \in {"asking", "waiting"} => record[r] = NoRecord
    /\ pc[r] \notin {"closing", "done"} => code[r] = "none"

\* The row is locked by a transaction that the server knows.
LockOK == lock # Nobody => pc[lock] = "holding" /\ Alive(record[lock])

\* What the history knows of a request under way.
HistoryOK(r) ==
    /\ pc[r] \in Connected /\ ~Alive(record[r]) => r \in excused
    /\ r \in Active /\ ~up => r \in excused
    /\ pc[r] = "closing" /\ code[r] \in {"500", "503"} => r \in excused
    /\ r \in Active /\ kind[r] = "probe" /\ up => r \in sawUp
    /\ pc[r] = "closing" /\ kind[r] = "probe" /\ code[r] = "2xx" => r \in sawUp

Inv ==
    /\ TypeOK /\ RecordsAccounted /\ LockOK
    /\ \A r \in Requests : SessionOK(r) /\ HistoryOK(r)

USE ConstantsAssumption

-----------------------------------------------------------------------------
(* Types. *)

LEMMA CheckInType ==
    ASSUME TypeOK, NEW e \in Records, CheckIn(e), total > 0
    PROVE  queue' \in Seq(Records) /\ total' \in Nat
<1>1. CASE Len(queue) < Size
  <2>1. PICK c \in Records : queue' = Append(queue, c) /\ total' = total
    BY <1>1 DEF CheckIn, HasRoom, Records
  <2> QED BY <2>1 DEF TypeOK
<1>2. CASE ~(Len(queue) < Size)
  BY <1>2 DEF TypeOK, CheckIn, HasRoom
<1> QED BY <1>1, <1>2

\* A request that has a record out is one that total counts.
LEMMA HolderCounted ==
    ASSUME Inv, NEW r \in Requests, record[r] # NoRecord
    PROVE  /\ total > 0 /\ record[r] \in Records
           /\ IsFiniteSet(Holders) /\ Cardinality(Holders) \in Nat \ {0}
<1>1. IsFiniteSet(Holders) /\ r \in Holders
  BY FS_Subset DEF Holders
<1>2. Cardinality(Holders) \in Nat \ {0}
  BY <1>1, FS_CardinalityType, FS_EmptySet
<1>3. Len(queue) \in Nat
  BY DEF Inv, TypeOK
<1> QED BY <1>1, <1>2, <1>3 DEF Inv, RecordsAccounted, TypeOK

LEMMA TypeStep ==
    ASSUME Inv, [Next]_vars
    PROVE  TypeOK'
<1>0. TypeOK
  BY DEF Inv
<1>1. ASSUME NEW r \in Requests, Receive(r) PROVE TypeOK'
  BY <1>0, <1>1 DEF TypeOK, Receive, Server, Pool, Places
<1>2. ASSUME NEW r \in Requests, TakeRecord(r) PROVE TypeOK'
  BY <1>0, <1>2 DEF TypeOK, TakeRecord, Server, History, Places
<1>3. ASSUME NEW r \in Requests, MakeRecord(r) PROVE TypeOK'
  BY <1>0, <1>3 DEF TypeOK, MakeRecord, Server, History, Places, Records
<1>4. ASSUME NEW r \in Requests, Wait(r) \/ TimeOut(r) PROVE TypeOK'
  BY <1>0, <1>4 DEF TypeOK, Wait, TimeOut, Raise, Failure, Server, Pool, History, Places
<1>5. ASSUME NEW r \in Requests, Connect(r) PROVE TypeOK'
  BY <1>0, <1>5 DEF TypeOK, Connect, Server, Pool, History, Places, Records
<1>6. ASSUME NEW r \in Requests, ConnectFails(r) PROVE TypeOK'
  <2>1. total > 0
    BY <1>6, HolderCounted DEF ConnectFails, Inv, SessionOK
  <2>2. queue' \in Seq(Records) /\ total' \in Nat
    <3>1. CASE fresh[r]
      BY <1>0, <1>6, <2>1, <3>1 DEF TypeOK, ConnectFails
    <3>2. CASE ~fresh[r]
      BY <1>0, <1>6, <2>1, <3>2, CheckInType DEF ConnectFails, Records
    <3> QED BY <3>1, <3>2
  <2> QED BY <1>0, <1>6, <2>2 DEF TypeOK, ConnectFails, Raise, Failure, Server, History, Places
<1>7. ASSUME NEW r \in Requests, Select(r) \/ Flush(r) PROVE TypeOK'
  BY <1>0, <1>7 DEF TypeOK, Select, Flush, Server, Pool, History, Places
<1>8. ASSUME NEW r \in Requests, Commit(r) PROVE TypeOK'
  <2>1. total > 0 /\ record[r] \in Records
    BY <1>8, HolderCounted DEF Commit, Inv, SessionOK, Connected
  <2>2. queue' \in Seq(Records) /\ total' \in Nat
    BY <1>0, <1>8, <2>1, CheckInType DEF TypeOK, Commit
  <2> QED BY <1>0, <1>8, <2>2 DEF TypeOK, Commit, Unlocked, Server, History, Places
<1>9. ASSUME NEW r \in Requests, StatementFails(r) PROVE TypeOK'
  BY <1>0, <1>9 DEF TypeOK, StatementFails, Raise, Failure, Server, Pool, History, Places, Records
<1>10. ASSUME NEW r \in Requests, Close(r) PROVE TypeOK'
  <2>1. CASE record[r] = NoRecord
    BY <1>0, <1>10, <2>1 DEF TypeOK, Close, Held, Server, Pool, Places
  <2>2. CASE record[r] # NoRecord
    <3>1. queue' \in Seq(Records) /\ total' \in Nat
      BY <1>0, <1>10, <2>2, HolderCounted, CheckInType DEF TypeOK, Close, Held
    <3> QED BY <1>0, <1>10, <2>2, <3>1 DEF TypeOK, Close, Held, Server, Places
  <2> QED BY <2>1, <2>2
<1>11. ASSUME NEW r \in Requests, Cut(r) PROVE TypeOK'
  BY <1>0, <1>11 DEF TypeOK, Cut, Unlocked, Server, Pool, Records
<1>12. CASE Outage \/ Restart
  <2>1. CASE Outage
    BY <1>0, <2>1 DEF TypeOK, Outage, Pool, Active
  <2>2. CASE Restart
    BY <1>0, <2>2 DEF TypeOK, Restart, Pool, Active
  <2> QED BY <1>12, <2>1, <2>2
<1>13. CASE Crash
  <2>1. queue' \in Seq(Records)
    BY <1>13 DEF Crash
  <2> QED BY <1>0, <1>13, <2>1 DEF TypeOK, Crash, Server, Places
<1>14. CASE UNCHANGED vars
  BY <1>0, <1>14 DEF TypeOK, vars
<1> QED BY <1>1, <1>2, <1>3, <1>4, <1>5, <1>6, <1>7, <1>8, <1>9, <1>10, <1>11,
           <1>12, <1>13, <1>14 DEF Next, Handle, Quiet

-----------------------------------------------------------------------------
(* The records are accounted for. *)

\* What r has changes from nothing to a record, ...
LEMMA HoldersGrow ==
    ASSUME NEW r \in Requests, NEW e, e # NoRecord, DOMAIN record = Requests,
           record[r] = NoRecord, record' = [record EXCEPT ![r] = e]
    PROVE  /\ Holders' = Holders \cup {r}
           /\ Cardinality(Holders') = Cardinality(Holders) + 1
           /\ Cardinality(Holders) \in Nat
<1>1. IsFiniteSet(Holders)
  BY FS_Subset DEF Holders
<1>2. Holders' = Holders \cup {r} /\ r \notin Holders
  BY DEF Holders
<1> QED BY <1>1, <1>2, FS_AddElement, FS_CardinalityType

\* ... from a record to nothing, ...
LEMMA HoldersShrink ==
    ASSUME NEW r \in Requests, record[r] # NoRecord, DOMAIN record = Requests,
           record' = [record EXCEPT ![r] = NoRecord]
    PROVE  /\ Holders' = Holders \ {r}
           /\ Cardinality(Holders') = Cardinality(Holders) - 1
           /\ Cardinality(Holders) \in Nat
<1>1. IsFiniteSet(Holders)
  BY FS_Subset DEF Holders
<1>2. Holders' = Holders \ {r} /\ r \in Holders
  BY DEF Holders
<1> QED BY <1>1, <1>2, FS_RemoveElement, FS_CardinalityType

\* ... or is replaced by another record.
LEMMA HoldersStay ==
    ASSUME NEW r \in Requests, NEW e, e # NoRecord, DOMAIN record = Requests,
           record[r] # NoRecord, record' = [record EXCEPT ![r] = e]
    PROVE  Holders' = Holders
BY DEF Holders

\* A record that is checked in leaves its holder.
LEMMA CheckInAccounts ==
    ASSUME Inv, NEW r \in Requests, record[r] # NoRecord,
           NEW e \in Records, CheckIn(e),
           record' = [record EXCEPT ![r] = NoRecord], Holders' \subseteq Active'
    PROVE  RecordsAccounted'
<1>1. /\ Holders' = Holders \ {r}
      /\ Cardinality(Holders') = Cardinality(Holders) - 1
      /\ Cardinality(Holders) \in Nat
  BY HoldersShrink DEF Inv, TypeOK
<1>2. \/ /\ queue' = Append(queue, IF Alive(e) THEN e ELSE Broken)
         /\ Len(queue) < Size /\ total' = total
      \/ total' = total - 1 /\ queue' = queue
  BY DEF CheckIn, HasRoom
<1>3. Len(queue') = IF Len(queue) < Size /\ total' = total THEN Len(queue) + 1 ELSE Len(queue)
  BY <1>2 DEF Inv, TypeOK, Records, Alive
<1>4. total \in Nat /\ Len(queue) \in Nat
  BY DEF Inv, TypeOK
<1> QED BY <1>1, <1>2, <1>3, <1>4 DEF Inv, RecordsAccounted, Max

LEMMA AccountStep ==
    ASSUME Inv, [Next]_vars
    PROVE  RecordsAccounted'
<1> USE DEF Inv
<1>0. /\ TypeOK /\ RecordsAccounted /\ DOMAIN record = Requests
      /\ total \in Nat /\ Len(queue) \in Nat
      /\ Broken \in Records /\ Broken # NoRecord
  BY DEF TypeOK, Records
<1>1. ASSUME NEW r \in Requests,
             \/ Receive(r) \/ Wait(r) \/ TimeOut(r) \/ Select(r) \/ Flush(r)
      PROVE RecordsAccounted'
  <2>1. UNCHANGED <<queue, total, record>>
    BY <1>1 DEF Receive, Wait, TimeOut, Select, Flush, Pool
  <2>2. Active \subseteq Active'
    BY <1>0, <1>1 DEF Receive, Wait, TimeOut, Raise, Select, Flush, Active, TypeOK
  <2> QED BY <1>0, <2>1, <2>2 DEF RecordsAccounted, Holders
<1>2. ASSUME NEW r \in Requests, TakeRecord(r) PROVE RecordsAccounted'
  <2>1. Head(queue) \in Records /\ Head(queue) # NoRecord
    BY <1>0, <1>2 DEF TakeRecord, TypeOK, Records
  <2>2. Len(queue') = Len(queue) - 1 /\ total' = total
    BY <1>0, <1>2 DEF TakeRecord, TypeOK
  <2>3. record[r] = NoRecord
    BY <1>2 DEF TakeRecord, SessionOK
  <2>4. /\ Holders' = Holders \cup {r}
        /\ Cardinality(Holders') = Cardinality(Holders) + 1
        /\ Cardinality(Holders) \in Nat
    BY <1>0, <1>2, <2>1, <2>3, HoldersGrow DEF TakeRecord
  <2>5. Holders' \subseteq Active'
    BY <1>0, <1>2, <2>4 DEF TakeRecord, RecordsAccounted, Active, TypeOK
  <2> QED BY <1>0, <2>2, <2>4, <2>5 DEF RecordsAccounted
<1>3. ASSUME NEW r \in Requests, MakeRecord(r) PROVE RecordsAccounted'
  <2>1. Len(queue') = Len(queue) /\ total' = total + 1 /\ total < Max
    BY <1>0, <1>3 DEF MakeRecord, MayGrow
  <2>2. record[r] = NoRecord
    BY <1>3 DEF MakeRecord, SessionOK
  <2>3. /\ Holders' = Holders \cup {r}
        /\ Cardinality(Holders') = Cardinality(Holders) + 1
        /\ Cardinality(Holders) \in Nat
    BY <1>0, <1>3, <2>2, HoldersGrow DEF MakeRecord
  <2>4. Holders' \subseteq Active'
    BY <1>0, <1>3, <2>3 DEF MakeRecord, RecordsAccounted, Active, TypeOK
  <2> QED BY <1>0, <2>1, <2>3, <2>4 DEF RecordsAccounted, Max
<1>4. ASSUME NEW r \in Requests, Connect(r) \/ StatementFails(r) \/ Cut(r)
      PROVE RecordsAccounted'
  <2>1. record[r] # NoRecord
    BY <1>4 DEF Connect, StatementFails, Cut, SessionOK, Connected
  <2>2. PICK e : e # NoRecord /\ record' = [record EXCEPT ![r] = e]
    <3>1. CASE Connect(r)
      BY <1>0, <3>1, <2>1 DEF Connect, TypeOK
    <3>2. CASE StatementFails(r) \/ Cut(r)
      BY <1>0, <3>2 DEF StatementFails, Cut
    <3> QED BY <1>4, <3>1, <3>2
  <2>3. Holders' = Holders
    BY <1>0, <2>1, <2>2, HoldersStay
  <2>4. Active \subseteq Active' /\ UNCHANGED <<queue, total>>
    BY <1>0, <1>4 DEF Connect, StatementFails, Raise, Cut, Pool, Active, TypeOK
  <2> QED BY <1>0, <2>3, <2>4 DEF RecordsAccounted
<1>5. ASSUME NEW r \in Requests, ConnectFails(r) PROVE RecordsAccounted'
  <2>1. record[r] # NoRecord /\ record' = [record EXCEPT ![r] = NoRecord]
    BY <1>5 DEF ConnectFails, SessionOK
  <2>2. /\ Holders' = Holders \ {r}
        /\ Cardinality(Holders') = Cardinality(Holders) - 1
        /\ Cardinality(Holders) \in Nat
    BY <1>0, <2>1, HoldersShrink
  <2>3. Holders' \subseteq Active'
    BY <1>0, <1>5, <2>2 DEF ConnectFails, Raise, RecordsAccounted, Active, TypeOK
  <2>4. CASE fresh[r]
    BY <1>0, <1>5, <2>2, <2>3, <2>4 DEF ConnectFails, RecordsAccounted, Max
  <2>5. CASE ~fresh[r]
    BY <1>0, <1>5, <2>1, <2>3, <2>5, CheckInAccounts DEF ConnectFails
  <2> QED BY <2>4, <2>5
<1>6. ASSUME NEW r \in Requests, Commit(r) PROVE RecordsAccounted'
  <2>1. record[r] # NoRecord /\ record[r] \in Records
    BY <1>0, <1>6 DEF Commit, SessionOK, Connected, TypeOK
  <2>2. Holders' \subseteq Active'
    BY <1>0, <1>6, <2>1, HoldersShrink DEF Commit, RecordsAccounted, Active, TypeOK
  <2> QED BY <1>6, <2>1, <2>2, CheckInAccounts DEF Commit
<1>7. ASSUME NEW r \in Requests, Close(r) PROVE RecordsAccounted'
  <2>1. CASE record[r] = NoRecord
    <3>1. UNCHANGED <<queue, total, record>>
      BY <1>7, <2>1 DEF Close, Held, Pool
    <3>2. Holders' = Holders /\ r \notin Holders
      BY <2>1, <3>1 DEF Holders
    <3>3. Active' = Active \ {r}
      BY <1>0, <1>7 DEF Close, Active, TypeOK
    <3> QED BY <1>0, <3>1, <3>2, <3>3 DEF RecordsAccounted
  <2>2. CASE record[r] # NoRecord
    <3>1. record[r] \in Records /\ CheckIn(record[r])
          /\ record' = [record EXCEPT ![r] = NoRecord]
      BY <1>0, <1>7, <2>2 DEF Close, Held, TypeOK
    <3>2. Holders' = Holders \ {r}
      BY <1>0, <2>2, <3>1, HoldersShrink
    <3>3. Active' = Active \ {r}
      BY <1>0, <1>7 DEF Close, Active, TypeOK
    <3> QED BY <1>0, <2>2, <3>1, <3>2, <3>3, CheckInAccounts DEF RecordsAccounted
  <2> QED BY <2>1, <2>2
<1>8. CASE Outage \/ Restart
  BY <1>0, <1>8 DEF Outage, Restart, Pool, RecordsAccounted, Holders, Active
<1>9. CASE Crash
  <2>1. Holders' = {} /\ queue' = <<>> /\ total' = 0
    BY <1>9 DEF Crash, Holders
  <2> QED BY <2>1, FS_EmptySet DEF RecordsAccounted, Max
<1>10. CASE UNCHANGED vars
  BY <1>0, <1>10 DEF vars, RecordsAccounted, Holders, Active
<1> QED BY <1>1, <1>2, <1>3, <1>4, <1>5, <1>6, <1>7, <1>8, <1>9, <1>10
        DEF Next, Handle, Quiet

-----------------------------------------------------------------------------
(* Sessions, the row lock and the history. *)

LEMMA SessionStep ==
    ASSUME Inv, [Next]_vars, NEW q \in Requests
    PROVE  SessionOK(q)'
<1> USE DEF SessionOK, Connected
<1>0. /\ TypeOK /\ SessionOK(q)
      /\ Broken \in Records /\ Broken # NoRecord
      /\ pc[q] \notin {"closing", "done"} => code[q] = "none"
  BY DEF Inv, Records
<1>1. ASSUME NEW r \in Requests,
             \/ Receive(r) \/ Wait(r) \/ TimeOut(r) \/ Select(r) \/ Flush(r)
             \/ MakeRecord(r) \/ StatementFails(r) \/ Cut(r)
      PROVE SessionOK(q)'
  <2>1. pc[r] = "idle" => record[r] = NoRecord
    BY DEF Inv, RecordsAccounted, Holders, Active
  <2> QED BY <1>0, <1>1, <2>1 DEF TypeOK, Receive, Wait, TimeOut, Raise, Select, Flush,
             MakeRecord, StatementFails, Cut
<1>2. ASSUME NEW r \in Requests, TakeRecord(r) PROVE SessionOK(q)'
  <2>1. Head(queue) \in Records /\ Head(queue) # NoRecord
    BY <1>0, <1>2 DEF TakeRecord, TypeOK, Records
  <2> QED BY <1>0, <1>2, <2>1 DEF TakeRecord, TypeOK
<1>3. ASSUME NEW r \in Requests, Connect(r) PROVE SessionOK(q)'
  BY <1>0, <1>3 DEF Connect, TypeOK
<1>4. ASSUME NEW r \in Requests, ConnectFails(r) \/ Commit(r) \/ Close(r)
      PROVE SessionOK(q)'
  BY <1>0, <1>4 DEF ConnectFails, Raise, Commit, Close, TypeOK
<1>5. CASE Outage \/ Restart
  BY <1>0, <1>5 DEF Outage, Restart
<1>6. CASE Crash
  BY <1>0, <1>6 DEF Crash, TypeOK, Active
<1>7. CASE UNCHANGED vars
  BY <1>0, <1>7 DEF vars
<1> QED BY <1>1, <1>2, <1>3, <1>4, <1>5, <1>6, <1>7 DEF Next, Handle, Quiet

LEMMA LockStep ==
    ASSUME Inv, [Next]_vars
    PROVE  LockOK'
<1> USE DEF LockOK, Alive
<1>0. TypeOK /\ LockOK
  BY DEF Inv
<1>1. ASSUME NEW r \in Requests,
             \/ Receive(r) \/ TakeRecord(r) \/ MakeRecord(r) \/ Wait(r) \/ TimeOut(r)
             \/ Connect(r) \/ ConnectFails(r) \/ Select(r) \/ StatementFails(r)
             \/ Close(r)
      PROVE LockOK'
  <2>1. UNCHANGED <<lock, up, epoch>>
    BY <1>1 DEF Receive, TakeRecord, MakeRecord, Wait, TimeOut, Connect, ConnectFails,
                Select, StatementFails, Close, Server
  <2>2. lock # r
    BY <1>0, <1>1 DEF Receive, TakeRecord, MakeRecord, Wait, TimeOut, Connect,
                ConnectFails, Select, StatementFails, Close, TypeOK
  <2>3. \A q \in Requests \ {r} : pc'[q] = pc[q] /\ record'[q] = record[q]
    BY <1>0, <1>1 DEF Receive, TakeRecord, MakeRecord, Wait, TimeOut, Raise, Connect,
                ConnectFails, Select, StatementFails, Close, TypeOK
  <2> QED BY <1>0, <2>1, <2>2, <2>3 DEF TypeOK
<1>2. ASSUME NEW r \in Requests, Flush(r) \/ Commit(r) \/ Cut(r) PROVE LockOK'
  BY <1>0, <1>2 DEF Flush, Commit, Cut, Unlocked, Server, TypeOK
<1>3. CASE Outage \/ Restart \/ Crash
  BY <1>0, <1>3 DEF Outage, Restart, Crash
<1>4. CASE UNCHANGED vars
  BY <1>0, <1>4 DEF vars
<1> QED BY <1>1, <1>2, <1>3, <1>4 DEF Next, Handle, Quiet

LEMMA HistoryStep ==
    ASSUME Inv, [Next]_vars, NEW q \in Requests
    PROVE  HistoryOK(q)'
<1> USE DEF HistoryOK, Connected, Active
<1>0. TypeOK /\ HistoryOK(q) /\ SessionOK(q)
  BY DEF Inv
<1>1. ASSUME NEW r \in Requests, Receive(r) PROVE HistoryOK(q)'
  BY <1>0, <1>1 DEF Receive, Server, TypeOK, Alive, SessionOK
<1>2. ASSUME NEW r \in Requests, TakeRecord(r) \/ MakeRecord(r) \/ Wait(r)
      PROVE HistoryOK(q)'
  BY <1>0, <1>2 DEF TakeRecord, MakeRecord, Wait, Server, History, TypeOK, Alive
<1>3. ASSUME NEW r \in Requests, TimeOut(r) PROVE HistoryOK(q)'
  BY <1>0, <1>3 DEF TimeOut, Raise, Failure, Server, TypeOK, Alive
<1>4. ASSUME NEW r \in Requests, Connect(r) PROVE HistoryOK(q)'
  BY <1>0, <1>4 DEF Connect, Pinged, Server, History, TypeOK, Alive
<1>5. ASSUME NEW r \in Requests, ConnectFails(r) \/ StatementFails(r)
      PROVE HistoryOK(q)'
  BY <1>0, <1>5 DEF ConnectFails, StatementFails, Raise, Failure, Server, History,
                    TypeOK, Alive
<1>6. ASSUME NEW r \in Requests, Select(r) \/ Flush(r) \/ Commit(r)
      PROVE HistoryOK(q)'
  BY <1>0, <1>6 DEF Select, Flush, Commit, Server, History, TypeOK, Alive
<1>7. ASSUME NEW r \in Requests, Close(r) \/ Cut(r) PROVE HistoryOK(q)'
  BY <1>0, <1>7 DEF Close, Cut, Server, TypeOK, Alive
<1>8. CASE Outage \/ Restart \/ Crash
  BY <1>0, <1>8 DEF Outage, Restart, Crash, Server, TypeOK, Alive
<1>9. CASE UNCHANGED vars
  BY <1>0, <1>9 DEF vars, Alive
<1> QED BY <1>1, <1>2, <1>3, <1>4, <1>5, <1>6, <1>7, <1>8, <1>9
        DEF Next, Handle, Quiet

-----------------------------------------------------------------------------
(* The invariant, and what follows from it. *)

\* The pool starts empty and nobody has asked for anything.
LEMMA InitInv == Init => Inv
<1> SUFFICES ASSUME Init PROVE Inv
  OBVIOUS
<1> USE DEF Init
<1>1. TypeOK
  BY DEF TypeOK, Kinds, Places
<1>2. Holders = {}
  BY DEF Holders
<1>3. RecordsAccounted
  BY <1>2, FS_EmptySet DEF RecordsAccounted, Max
<1>4. LockOK /\ \A r \in Requests : SessionOK(r) /\ HistoryOK(r)
  BY DEF LockOK, SessionOK, HistoryOK, Connected, Active
<1> QED BY <1>1, <1>3, <1>4 DEF Inv

\* Every behaviour keeps the invariant.
THEOREM Invariance == Spec => []Inv
<1>1. Inv /\ [Next]_vars => Inv'
  BY TypeStep, AccountStep, SessionStep, LockStep, HistoryStep DEF Inv
<1> QED BY <1>1, InitInv, PTL DEF Spec

\* Type correctness.
THEOREM TypeCorrect == Spec => []TypeOK
<1>1. Inv => TypeOK
  BY DEF Inv
<1> QED BY <1>1, Invariance, PTL

\* No record of the pool leaks, and there are never more than its limit,
\* whatever its size, however many requests there are and whatever fails.
THEOREM NothingLeaks == Spec => []RecordsAccounted
<1>1. Inv => RecordsAccounted
  BY DEF Inv
<1> QED BY <1>1, Invariance, PTL

\* Waiting for the pool and for the row never becomes a circle: when all
\* records are in use there is a holder, and if that one waits for the row then
\* the transaction that holds the row is another holder.
THEOREM NoDeadlock == Spec => []PoolDrains
<1>1. ASSUME Inv PROVE PoolDrains
  <2> SUFFICES ASSUME NEW r \in Requests, queue = <<>>, ~MayGrow
               PROVE  \E q \in Holders :
                         \/ pc[q] \in {"connecting", "open", "holding", "closing"}
                         \/ pc[q] = "locking" /\ (lock = Nobody \/ ~Alive(record[q]))
    BY DEF PoolDrains
  <2>1. Cardinality(Holders) # 0
    BY <1>1 DEF Inv, TypeOK, RecordsAccounted, MayGrow, Max
  <2>2. PICK h \in Holders : TRUE
    BY <2>1, FS_EmptySet
  <2>3. pc[h] \in Places \ {"idle", "done", "asking", "waiting"}
    BY <1>1, <2>2 DEF Inv, TypeOK, RecordsAccounted, Active, Holders, SessionOK
  <2>4. CASE pc[h] = "locking" /\ lock # Nobody
    <3>1. lock \in Requests /\ pc[lock] = "holding"
      BY <1>1, <2>4 DEF Inv, TypeOK, LockOK
    <3>2. lock \in Holders
      BY <1>1, <3>1 DEF Inv, SessionOK, Connected, Holders
    <3> QED BY <3>1, <3>2
  <2> QED BY <2>2, <2>3, <2>4 DEF Places
<1> QED BY <1>1, Invariance, PTL

\* No failure without an outage, a cut or a full pool during the request:
\* pre-ping keeps what is stale from every request.
THEOREM FailuresFounded == Spec => []FailuresAreFounded
<1>1. Inv => FailuresAreFounded
  BY DEF Inv, HistoryOK, FailuresAreFounded
<1> QED BY <1>1, Invariance, PTL

\* The probe does not report a database ready that was down all the time.
THEOREM ReadyTrue == Spec => []ReadyMeansUp
<1>1. Inv => ReadyMeansUp
  BY DEF Inv, HistoryOK, ReadyMeansUp
<1> QED BY <1>1, Invariance, PTL
=============================================================================
