---------------------------- MODULE ConnectionPool ----------------------------
(***************************************************************************)
(* The engine's connection pool, and the requests that share it: endpoints *)
(* that read, endpoints that write a row and the readiness probe.          *)
(*                                                                         *)
(* A session takes a connection at its first statement and keeps it until  *)
(* its transaction ends, while it waits for a row lock too; the probe      *)
(* takes one for its SELECT 1.  The pool keeps Size connections open and   *)
(* lends Overflow more; who finds it empty waits in a queue, for 30        *)
(* seconds at most.  The server may go away and come back: what was        *)
(* connected before is stale, and only pool_pre_ping finds out in time.    *)
(*                                                                         *)
(* The writers contend for one row, the worst case.                        *)
(***************************************************************************)
EXTENDS Naturals, Sequences, FiniteSets

CONSTANTS
    Requests,
    Size,       \* pool_size
    Overflow,   \* max_overflow
    MaxOutages, \* bound on outages of the server
    NoRecord,   \* a request that has nothing of the pool
    Broken,     \* a record of the pool without a connection
    Nobody      \* the row is not locked

ASSUME ConstantsAssumption ==
    /\ IsFiniteSet(Requests) /\ Nobody \notin Requests
    /\ Size \in Nat \ {0} /\ Overflow \in Nat /\ MaxOutages \in Nat
    /\ NoRecord \notin Nat /\ Broken \notin Nat /\ Broken # NoRecord

VARIABLES
    up,         \* the server accepts connections
    epoch,      \* its incarnation
    queue,      \* the records checked in: the server each is connected to
    total,      \* the records there are
    lock,       \* the transaction that holds the row lock
    pc,         \* where each request is
    kind,       \* "read", "write" or "probe"
    record,     \* the record it has checked out
    fresh,      \* that record was made for it
    code,       \* the answer
    excused,    \* history: met a server that was down, a cut or a full pool
    sawUp       \* history: probes during which the server was up
                \* (both are forgotten when the request ends)

vars == <<up, epoch, queue, total, lock, pc, kind, record, fresh, code, excused,
          sawUp>>

Records == Nat \cup {Broken}

Kinds == {"read", "write", "probe"}

Places == {"idle", "asking", "waiting", "connecting", "open", "locking", "holding",
           "closing", "done"}

Max == Size + Overflow

TypeOK ==
    /\ up \in BOOLEAN /\ epoch \in Nat
    /\ queue \in Seq(Records) /\ total \in Nat
    /\ lock \in Requests \cup {Nobody}
    /\ pc \in [Requests -> Places]
    /\ kind \in [Requests -> Kinds]
    /\ record \in [Requests -> Records \cup {NoRecord}]
    /\ fresh \in [Requests -> BOOLEAN]
    /\ code \in [Requests -> {"none", "2xx", "500", "503", "lost"}]
    /\ excused \subseteq Requests /\ sawUp \subseteq Requests

Active == {r \in Requests : pc[r] \notin {"idle", "done"}}

-----------------------------------------------------------------------------
(* Each definition of this section is a later definition with a plausible   *)
(* bug in it; the mutation runs put it in that one's place.                  *)

NotPinged(e) == e # Broken

ProbeNeverFails(k) == IF k = "probe" THEN "2xx" ELSE "500"

LeftOpenOnError(r) == IF code[r] = "2xx" THEN record[r] ELSE NoRecord

UnhandledFailure(k) == IF k = "probe" THEN "exception" ELSE "500"

LockKept(r) == lock

-----------------------------------------------------------------------------
\* A statement on a connection to this incarnation of the server succeeds.
Alive(e) == up /\ e = epoch

\* pool_pre_ping: a record is handed out as it is if the server answers on it.
Pinged(e) == Alive(e)

\* readiness() makes 503 of any exception, the others are answered 500.
Failure(k) == IF k = "probe" THEN "503" ELSE "500"

\* What the end of a session, which rolls back, has to give back.
Held(r) == record[r]

\* A record is closed when Size of them are checked in.
HasRoom(q) == Len(q) < Size

MayGrow == total < Max

\* The end of a transaction releases the row.
Unlocked(r) == IF lock = r THEN Nobody ELSE lock

\* Check-in of e: a connection that does not survive the reset is thrown away,
\* its record is not.
CheckIn(e) ==
    IF HasRoom(queue)
    THEN queue' = Append(queue, IF Alive(e) THEN e ELSE Broken) /\ UNCHANGED total
    ELSE total' = total - 1 /\ UNCHANGED queue

Server == <<up, epoch>>

History == <<excused, sawUp>>

Pool == <<queue, total>>

\* The exception ends the handler; its session is still to be closed.
Raise(r) ==
    /\ pc' = [pc EXCEPT ![r] = "closing"]
    /\ code' = [code EXCEPT ![r] = Failure(kind[r])]

-----------------------------------------------------------------------------
Receive(r) ==
    /\ pc[r] = "idle"
    /\ pc' = [pc EXCEPT ![r] = "asking"]
    /\ \E k \in Kinds :
          /\ kind' = [kind EXCEPT ![r] = k]
          /\ sawUp' = IF up /\ k = "probe" THEN sawUp \cup {r} ELSE sawUp
    /\ excused' = IF up THEN excused ELSE excused \cup {r}
    /\ UNCHANGED <<Server, Pool, lock, record, fresh, code>>

\* The first statement asks the pool.  A record that is checked in goes to
\* whoever comes first, waiting or not.
TakeRecord(r) ==
    /\ pc[r] \in {"asking", "waiting"} /\ queue # <<>>
    /\ record' = [record EXCEPT ![r] = Head(queue)]
    /\ fresh' = [fresh EXCEPT ![r] = FALSE]
    /\ queue' = Tail(queue)
    /\ pc' = [pc EXCEPT ![r] = "connecting"]
    /\ UNCHANGED <<Server, total, lock, kind, code, History>>

\* A waiting request looks at the number of records again only when its 30
\* seconds are over.
MakeRecord(r) ==
    /\ pc[r] \in {"asking", "waiting"} /\ queue = <<>> /\ MayGrow
    /\ total' = total + 1
    /\ record' = [record EXCEPT ![r] = Broken]
    /\ fresh' = [fresh EXCEPT ![r] = TRUE]
    /\ pc' = [pc EXCEPT ![r] = "connecting"]
    /\ UNCHANGED <<Server, queue, lock, kind, code, History>>

Wait(r) ==
    /\ pc[r] = "asking" /\ queue = <<>> /\ ~MayGrow
    /\ pc' = [pc EXCEPT ![r] = "waiting"]
    /\ UNCHANGED <<Server, Pool, lock, kind, record, fresh, code, History>>

\* QueuePool limit reached: the 30 seconds are over and nothing has come back.
TimeOut(r) ==
    /\ pc[r] = "waiting" /\ queue = <<>> /\ ~MayGrow
    /\ Raise(r)
    /\ excused' = excused \cup {r}
    /\ UNCHANGED <<Server, Pool, lock, kind, record, fresh, sawUp>>

Connect(r) ==
    /\ pc[r] = "connecting" /\ (Pinged(record[r]) \/ up)
    /\ record' = [record EXCEPT ![r] = IF Pinged(@) THEN @ ELSE epoch]
    /\ fresh' = [fresh EXCEPT ![r] = FALSE]
    /\ pc' = [pc EXCEPT ![r] = "open"]
    /\ UNCHANGED <<Server, Pool, lock, kind, code, History>>

\* There is no server to connect to: a record made for this request is dropped,
\* another goes back without a connection.
ConnectFails(r) ==
    /\ pc[r] = "connecting" /\ ~Pinged(record[r]) /\ ~up
    /\ Raise(r)
    /\ record' = [record EXCEPT ![r] = NoRecord]
    /\ IF fresh[r] THEN total' = total - 1 /\ UNCHANGED queue ELSE CheckIn(Broken)
    /\ fresh' = [fresh EXCEPT ![r] = FALSE]
    /\ UNCHANGED <<Server, lock, kind, History>>

\* The SELECTs.  What only reads is answered.
Select(r) ==
    /\ pc[r] = "open" /\ Alive(record[r])
    /\ IF kind[r] = "write"
       THEN pc' = [pc EXCEPT ![r] = "locking"] /\ UNCHANGED code
       ELSE pc' = [pc EXCEPT ![r] = "closing"] /\ code' = [code EXCEPT ![r] = "2xx"]
    /\ UNCHANGED <<Server, Pool, lock, kind, record, fresh, History>>

\* The flush of an UPDATE, once the row is free.
Flush(r) ==
    /\ pc[r] = "locking" /\ Alive(record[r]) /\ lock = Nobody
    /\ lock' = r
    /\ pc' = [pc EXCEPT ![r] = "holding"]
    /\ UNCHANGED <<Server, Pool, kind, record, fresh, code, History>>

\* session.commit() ends the transaction and returns the connection at once.
Commit(r) ==
    /\ pc[r] = "holding" /\ Alive(record[r])
    /\ lock' = Unlocked(r)
    /\ CheckIn(record[r])
    /\ record' = [record EXCEPT ![r] = NoRecord]
    /\ code' = [code EXCEPT ![r] = "2xx"]
    /\ pc' = [pc EXCEPT ![r] = "closing"]
    /\ UNCHANGED <<Server, kind, fresh, History>>

\* The connection turns out to be dead: it is invalidated.
StatementFails(r) ==
    /\ pc[r] \in {"open", "locking", "holding"} /\ ~Alive(record[r])
    /\ Raise(r)
    /\ record' = [record EXCEPT ![r] = Broken]
    /\ UNCHANGED <<Server, Pool, lock, kind, fresh, History>>

\* async with: the session, or the probe's connection, is closed.
Close(r) ==
    /\ pc[r] = "closing"
    /\ IF Held(r) = NoRecord THEN UNCHANGED <<Pool, record>>
       ELSE /\ CheckIn(record[r])
            /\ record' = [record EXCEPT ![r] = NoRecord]
    /\ pc' = [pc EXCEPT ![r] = "done"]
    /\ excused' = excused \ {r} /\ sawUp' = sawUp \ {r}
    /\ UNCHANGED <<Server, lock, kind, fresh, code>>

Handle(r) ==
    \/ TakeRecord(r) \/ MakeRecord(r) \/ Wait(r)
    \/ Connect(r) \/ ConnectFails(r)
    \/ Select(r) \/ Flush(r) \/ Commit(r) \/ StatementFails(r)
    \/ Close(r)

-----------------------------------------------------------------------------
\* One connection breaks: the server rolls its transaction back.
Cut(r) ==
    /\ pc[r] \in {"open", "locking", "holding"} /\ Alive(record[r])
    /\ record' = [record EXCEPT ![r] = Broken]
    /\ lock' = Unlocked(r)
    /\ excused' = excused \cup {r}
    /\ UNCHANGED <<Server, Pool, pc, kind, fresh, code, sawUp>>

\* The server goes down, and every transaction with it.
Outage ==
    /\ up /\ epoch < MaxOutages
    /\ up' = FALSE /\ lock' = Nobody
    /\ excused' = excused \cup Active
    /\ UNCHANGED <<epoch, Pool, pc, kind, record, fresh, code, sawUp>>

Restart ==
    /\ ~up
    /\ up' = TRUE /\ epoch' = epoch + 1
    /\ sawUp' = sawUp \cup {r \in Active : kind[r] = "probe"}
    /\ UNCHANGED <<Pool, lock, pc, kind, record, fresh, code, excused>>

\* The process of the application dies and starts with an empty pool.
Crash ==
    /\ Active # {}
    /\ queue' = <<>> /\ total' = 0 /\ lock' = Nobody
    /\ pc' = [r \in Requests |-> IF r \in Active THEN "done" ELSE pc[r]]
    /\ code' = [r \in Requests |-> IF r \in Active THEN "lost" ELSE code[r]]
    /\ record' = [r \in Requests |-> NoRecord]
    /\ fresh' = [r \in Requests |-> FALSE]
    /\ excused' = {} /\ sawUp' = {}
    /\ UNCHANGED <<Server, kind>>

\* Nothing is left to do.
Quiet == (\A r \in Requests : pc[r] = "done") /\ UNCHANGED vars

\* The engine is made at the first use and connects lazily.
Init ==
    /\ up = TRUE /\ epoch = 0
    /\ queue = <<>> /\ total = 0 /\ lock = Nobody
    /\ pc = [r \in Requests |-> "idle"]
    /\ kind = [r \in Requests |-> "read"]
    /\ record = [r \in Requests |-> NoRecord]
    /\ fresh = [r \in Requests |-> FALSE]
    /\ code = [r \in Requests |-> "none"]
    /\ excused = {} /\ sawUp = {}

Next ==
    \/ \E r \in Requests : Receive(r) \/ Handle(r) \/ TimeOut(r) \/ Cut(r)
    \/ Outage \/ Restart \/ Crash
    \/ Quiet

Spec == Init /\ [][Next]_vars

\* The event loop resumes coroutines and the timer of a waiting one fires; that
\* it fires while the pool is full is possible, and nothing relies on it.
FairSpec == Spec /\ \A r \in Requests : WF_vars(Handle(r))

-----------------------------------------------------------------------------
Holders == {r \in Requests : record[r] # NoRecord}

\* Every record is checked in or in the hands of a request under way, whatever
\* fails: none leaks from a session, and there are never more than the limit.
RecordsAccounted ==
    /\ total = Len(queue) + Cardinality(Holders)
    /\ total <= Max /\ Len(queue) <= Size
    /\ Holders \subseteq Active

\* Pool and row lock do not deadlock, although a request that waits for the row
\* keeps its connection: while all records are in use, one of those who use them
\* does not wait for the row, and needs nothing more of the pool.
PoolDrains ==
    \A r \in Requests : pc[r] = "waiting" =>
        \/ queue # <<>> \/ MayGrow
        \/ \E q \in Holders :
              \/ pc[q] \in {"connecting", "open", "holding", "closing"}
              \/ pc[q] = "locking" /\ (lock = Nobody \/ ~Alive(record[q]))

\* A request fails only for what happened while it ran, the server being down
\* or its connection being cut, or because the pool was full for its 30 seconds:
\* a connection that an earlier outage has left stale is never its problem.
FailuresAreFounded ==
    \A r \in Requests :
        pc[r] = "closing" /\ code[r] \in {"500", "503"} => r \in excused

\* The readiness probe says "ready" only if the database was up meanwhile.
ReadyMeansUp ==
    \A r \in Requests :
        pc[r] = "closing" /\ kind[r] = "probe" /\ code[r] = "2xx" => r \in sawUp

\* Every request ends, without the help of the pool's timeout while it is full.
EveryRequestEnds ==
    \A r \in Requests : pc[r] = "asking" ~> pc[r] = "done"
=============================================================================
