------------------------- MODULE StudentProfileProofs -------------------------
(***************************************************************************)
(* Proofs about StudentProfile, for any number of concurrent requests and  *)
(* any students, columns and values: a PATCH changes the fields it names,  *)
(* no acknowledged one is undone by a request that came before it, and the *)
(* answer shows what it changed.                                           *)
(*                                                                         *)
(* The heart of the inductive invariant is WrittenOK: while a transaction  *)
(* holds the row, the version it has written differs from the committed    *)
(* one only in fields it names, because no other transaction can commit.   *)
(***************************************************************************)
EXTENDS StudentProfile, TLAPS

\* The value of f in row is one named by a request that had not ended when r
\* was received.
Recent(row, r, f) ==
    \E q \in Requests \ before[r] :
        caller[q] = caller[r] /\ f \in Named(payload[q]) /\ row[f] = payload[q][f]

\* Who has been received acts for a student, for who had not ended before it.
CallerOK(r) ==
    /\ pc[r] = "idle" => caller[r] = NoStudent /\ before[r] = {}
    /\ pc[r] # "idle" => caller[r] \in Students
    /\ \A q \in before[r] : pc[q] = "done"

\* What the coroutine holds at each place, and what of it the row has.
PlaceOK(r) ==
    LET row == profiles[caller[r]]
    IN  /\ written[r] # NoRow => pc[r] \in {"flushed", "refreshed"}
        /\ pc[r] \in {"loaded", "inserting", "updating", "flushed", "refreshed"} =>
              op[r] = "patch"
        /\ pc[r] \in {"loaded", "updating"} /\ mem[r] # NoRow => row # NoRow
        /\ pc[r] = "loaded" /\ mem[r] # NoRow =>
              \A f \in Named(payload[r]) : row[f] = mem[r][f] \/ Recent(row, r, f)
        /\ pc[r] \in {"inserting", "updating"} => mem[r] # NoRow /\ dirty[r] \subseteq Fields
        /\ pc[r] = "inserting" =>
              mem[r] = Assigned(EmptyProfile, payload[r]) /\ dirty[r] = Fields
        /\ pc[r] = "updating" =>
              /\ dirty[r] \subseteq Named(payload[r])
              /\ \A f \in Named(payload[r]) : mem[r][f] = payload[r][f]
              /\ \A f \in Named(payload[r]) \ dirty[r] : Recent(row, r, f)
        /\ pc[r] \in {"flushed", "refreshed"} /\ written[r] = NoRow =>
              /\ dirty[r] = {} /\ row # NoRow
              /\ \A f \in Named(payload[r]) : Recent(row, r, f)

\* The version that a transaction has written, against the committed one.
WrittenOK(r) ==
    written[r] # NoRow =>
        LET row == profiles[caller[r]]
        IN  /\ \A q \in Requests : caller[q] = caller[r] /\ written[q] # NoRow => q = r
            /\ \A f \in Named(payload[r]) : Recent(written[r], r, f)
            /\ \A f \in dirty[r] \cap Named(payload[r]) : written[r][f] = payload[r][f]
            /\ row # NoRow => \A f \in Fields :
                  written[r][f] = row[f] \/
                  (f \in Named(payload[r]) /\ written[r][f] = payload[r][f])
            /\ row = NoRow => written[r] = Assigned(EmptyProfile, payload[r])

\* What an answer shows, and what it leaves.
AnswerOK(r) ==
    /\ pc[r] \notin {"answering", "done"} => code[r] = "none"
    /\ pc[r] = "refreshed" /\ written[r] # NoRow => mem[r] = written[r]
    /\ pc[r] \in {"answering", "done"} /\ op[r] = "patch" /\ code[r] = "200" =>
          /\ profiles[caller[r]] # NoRow
          /\ \A f \in Named(payload[r]) : Recent(profiles[caller[r]], r, f)
          /\ \A f \in dirty[r] \cap Named(payload[r]) : body[r][f] = payload[r][f]

\* The country is known to be one before anything is assigned.
CountryChecked(r) ==
    /\ pc[r] \in {"inserting", "updating", "flushed", "refreshed"} =>
          CountryOK(payload[r])
    /\ pc[r] \in {"answering", "done"} /\ op[r] = "patch" /\ r \notin outage =>
          CountryOK(payload[r]) \/ code[r] \in {"404", "lost"}

RequestOK(r) ==
    CallerOK(r) /\ PlaceOK(r) /\ WrittenOK(r) /\ AnswerOK(r) /\ CountryChecked(r)

Inv == TypeOK /\ \A r \in Requests : RequestOK(r)

USE ConstantsAssumption

Step(r) == Receive(r) \/ Handle(r) \/ CommitUnconfirmed(r) \/ Fail(r)

-----------------------------------------------------------------------------
LEMMA EmptyIsRow == EmptyProfile \in Row /\ NoRow \notin Row
BY DEF EmptyProfile, Row

LEMMA AssignedIsRow ==
    ASSUME NEW obj \in Row, NEW p \in Payloads
    PROVE  Assigned(obj, p) \in Row
BY DEF Assigned, Row, Payloads

LEMMA InitInv == Init => Inv
<1> SUFFICES ASSUME Init PROVE Inv
  OBVIOUS
<1>1. TypeOK
  BY DEF Init, TypeOK, Places, Codes, Payloads, NoFields, Row
<1>2. \A r \in Requests : RequestOK(r)
  BY DEF Init, RequestOK, CallerOK, PlaceOK, WrittenOK, AnswerOK, CountryChecked
<1> QED BY <1>1, <1>2 DEF Inv

LEMMA TypeStep ==
    ASSUME Inv, [Next]_vars
    PROVE  TypeOK'
<1>0. TypeOK
  BY DEF Inv
<1>1. ASSUME NEW r \in Requests, Receive(r)
      PROVE  TypeOK'
  BY <1>0, <1>1 DEF TypeOK, Receive, Places
<1>2. ASSUME NEW r \in Requests, GetProfile(r)
      PROVE  TypeOK'
  <2>1. caller[r] \in Students
    BY <1>2 DEF Inv, RequestOK, CallerOK, GetProfile
  <2> QED BY <1>0, <1>2, <2>1 DEF TypeOK, GetProfile, Answer, Places, Codes
<1>3. ASSUME NEW r \in Requests, LoadProfile(r)
      PROVE  TypeOK'
  <2>1. caller[r] \in Students
    BY <1>3 DEF Inv, RequestOK, CallerOK, LoadProfile
  <2> QED BY <1>0, <1>3, <2>1 DEF TypeOK, LoadProfile, Places
<1>4. ASSUME NEW r \in Requests, RefuseCountry(r) \/ IntegrityError(r)
      PROVE  TypeOK'
  BY <1>0, <1>4 DEF TypeOK, RefuseCountry, IntegrityError, Answer, Places, Codes
<1>5. ASSUME NEW r \in Requests, Assign(r)
      PROVE  TypeOK'
  <2> DEFINE new == mem[r] = NoRow
             obj == IF new THEN EmptyProfile ELSE mem[r]
             cols == IF new THEN Fields ELSE Changed(obj, payload[r])
  <2>1. obj \in Row /\ payload[r] \in Payloads
    BY <1>0, EmptyIsRow DEF TypeOK
  <2>2. Assigned(obj, payload[r]) \in Row
    BY <2>1, AssignedIsRow
  <2>3. cols \in SUBSET Fields
    BY DEF Changed, Named
  <2>4. /\ mem' = [mem EXCEPT ![r] = Assigned(obj, payload[r])]
        /\ dirty' = [dirty EXCEPT ![r] = cols]
        /\ pc' = [pc EXCEPT ![r] = IF new THEN "inserting"
                                   ELSE IF cols # {} THEN "updating" ELSE "flushed"]
        /\ UNCHANGED <<profiles, caller, op, payload, written, code, body, before, outage>>
    BY <1>5 DEF Assign
  <2> HIDE DEF obj, cols, new
  <2> QED BY <1>0, <2>2, <2>3, <2>4 DEF TypeOK, Places
<1>6. ASSUME NEW r \in Requests, InsertRow(r)
      PROVE  TypeOK'
  BY <1>0, <1>6 DEF TypeOK, InsertRow, Places
<1>7. ASSUME NEW r \in Requests, UpdateRow(r)
      PROVE  TypeOK'
  <2>1. profiles[caller[r]] \in Row /\ mem[r] \in Row
    BY <1>0, <1>7 DEF TypeOK, Inv, RequestOK, CallerOK, PlaceOK, UpdateRow
  <2>2. [f \in Fields |-> IF f \in dirty[r] THEN mem[r][f] ELSE profiles[caller[r]][f]] \in Row
    BY <2>1 DEF Row
  <2> QED BY <1>0, <1>7, <2>2 DEF TypeOK, UpdateRow, Places
<1>8. ASSUME NEW r \in Requests, Refresh(r)
      PROVE  TypeOK'
  <2>1. caller[r] \in Students
    BY <1>8 DEF Inv, RequestOK, CallerOK, Refresh
  <2> QED BY <1>0, <1>8, <2>1 DEF TypeOK, Refresh, Places
<1>9. ASSUME NEW r \in Requests, Commit(r) \/ CommitUnconfirmed(r)
      PROVE  TypeOK'
  BY <1>0, <1>9 DEF TypeOK, Commit, CommitUnconfirmed, Answer, Saved, Places, Codes
<1>10. ASSUME NEW r \in Requests, Respond(r)
      PROVE  TypeOK'
  BY <1>0, <1>10 DEF TypeOK, Respond, Places
<1>11. ASSUME NEW r \in Requests, Fail(r)
      PROVE  TypeOK'
  BY <1>0, <1>11 DEF TypeOK, Fail, Answer, Places, Codes
<1>12. CASE Crash
  BY <1>0, <1>12 DEF TypeOK, Crash, Places, Codes
<1>13. CASE UNCHANGED vars
  BY <1>0, <1>13 DEF TypeOK, vars
<1> QED BY <1>1, <1>2, <1>3, <1>4, <1>5, <1>6, <1>7, <1>8, <1>9, <1>10, <1>11, <1>12,
           <1>13 DEF Next, Handle, Quiet

-----------------------------------------------------------------------------
(* The requests that a step is not of. *)

\* A request keeps what it knows while another one commits to its row: the
\* fields that the other does not name keep their values, and the other had not
\* ended when this one was received.
LEMMA KeptRequest ==
    ASSUME Inv, NEW s \in Requests, pc[s] # "idle",
           pc'[s] = pc[s], caller'[s] = caller[s], op'[s] = op[s],
           payload'[s] = payload[s], mem'[s] = mem[s], dirty'[s] = dirty[s],
           written'[s] = written[s], code'[s] = code[s], body'[s] = body[s],
           before'[s] = before[s], s \in outage' <=> s \in outage,
           \A q \in Requests : pc[q] = "done" => pc'[q] = "done",
           \A q \in Requests : pc[q] # "idle" =>
               caller'[q] = caller[q] /\ payload'[q] = payload[q],
           \A q \in Requests \ {s} : written[s] # NoRow /\ written'[q] # NoRow =>
               caller'[q] # caller[s],
           \/ profiles'[caller[s]] = profiles[caller[s]]
           \/ \E q \in Requests \ {s} :
                 /\ caller[q] = caller[s] /\ pc[q] = "refreshed"
                 /\ written[q] # NoRow /\ profiles'[caller[s]] = written[q]
    PROVE  RequestOK(s)'
<1> DEFINE row == profiles[caller[s]]
           next == profiles'[caller[s]]
           StillRecent(v, f) == \E q \in Requests \ before'[s] :
              caller'[q] = caller'[s] /\ f \in Named(payload'[q]) /\ v[f] = payload'[q][f]
<1>0. RequestOK(s) /\ caller[s] \in Students /\ before[s] \subseteq Requests
  BY DEF Inv, RequestOK, CallerOK, TypeOK
<1>1. ASSUME NEW v, NEW f, Recent(v, s, f)
      PROVE  StillRecent(v, f)
  <2>1. PICK q \in Requests \ before[s] :
            caller[q] = caller[s] /\ f \in Named(payload[q]) /\ v[f] = payload[q][f]
    BY <1>1 DEF Recent
  <2>2. pc[q] # "idle"
    BY <1>0, <2>1 DEF Inv, RequestOK, CallerOK
  <2> QED BY <2>1, <2>2
<1>2. ASSUME NEW f \in Fields, row # NoRow
      PROVE  next # NoRow /\ (next[f] = row[f] \/ Recent(next, s, f))
  <2>1. CASE next = row
    BY <1>2, <2>1
  <2>2. CASE next # row
    <3>1. PICK q \in Requests \ {s} :
              /\ caller[q] = caller[s] /\ pc[q] = "refreshed"
              /\ written[q] # NoRow /\ next = written[q]
      BY <2>2
    <3>2. q \notin before[s]
      BY <1>0, <3>1 DEF RequestOK, CallerOK
    <3>3. \/ written[q][f] = row[f]
          \/ f \in Named(payload[q]) /\ written[q][f] = payload[q][f]
      BY <1>2, <3>1 DEF Inv, RequestOK, WrittenOK
    <3> QED BY <3>1, <3>2, <3>3 DEF Recent
  <2> QED BY <2>1, <2>2
<1>3. ASSUME NEW f \in Fields, row # NoRow, Recent(row, s, f)
      PROVE  Recent(next, s, f)
  BY <1>2, <1>3 DEF Recent
<1>4. CallerOK(s)'
  BY <1>0 DEF RequestOK, CallerOK
<1>5. PlaceOK(s)'
  <2>1. Named(payload[s]) \subseteq Fields
    BY DEF Named
  <2>2. PlaceOK(s)
    BY <1>0 DEF RequestOK
  <2>3. /\ written'[s] # NoRow => pc'[s] \in {"flushed", "refreshed"}
        /\ pc'[s] \in {"loaded", "inserting", "updating", "flushed", "refreshed"} =>
              op'[s] = "patch"
        /\ pc'[s] \in {"loaded", "updating"} /\ mem'[s] # NoRow => next # NoRow
        /\ pc'[s] \in {"inserting", "updating"} => mem'[s] # NoRow /\ dirty'[s] \subseteq Fields
        /\ pc'[s] = "inserting" =>
              mem'[s] = Assigned(EmptyProfile, payload'[s]) /\ dirty'[s] = Fields
    BY <2>2, <1>2 DEF PlaceOK
  <2>4. pc'[s] = "loaded" /\ mem'[s] # NoRow =>
              \A f \in Named(payload[s]) : next[f] = mem[s][f] \/ StillRecent(next, f)
    BY <2>1, <2>2, <1>2, <1>3, <1>1 DEF PlaceOK
  <2>5. pc'[s] = "updating" =>
              /\ dirty[s] \subseteq Named(payload[s])
              /\ \A f \in Named(payload[s]) : mem[s][f] = payload[s][f]
              /\ \A f \in Named(payload[s]) \ dirty[s] : StillRecent(next, f)
    BY <2>1, <2>2, <1>3, <1>1 DEF PlaceOK
  <2>6. pc'[s] \in {"flushed", "refreshed"} /\ written[s] = NoRow =>
              /\ dirty[s] = {} /\ next # NoRow
              /\ \A f \in Named(payload[s]) : StillRecent(next, f)
    BY <2>1, <2>2, <1>2, <1>3, <1>1 DEF PlaceOK
  <2> HIDE DEF next, row
  <2>7. next = profiles'[caller'[s]]
    BY DEF next
  <2> QED BY <2>3, <2>4, <2>5, <2>6, <2>7 DEF PlaceOK, Recent
<1>6. WrittenOK(s)'
  <2> SUFFICES ASSUME written[s] # NoRow PROVE WrittenOK(s)'
    BY DEF WrittenOK
  <2>1. WrittenOK(s)
    BY <1>0 DEF RequestOK
  <2>2. next = row
    BY <2>1 DEF WrittenOK
  <2>3. \A f \in Named(payload[s]) : Recent(written[s], s, f)
    BY <2>1 DEF WrittenOK
  <2>4. \A q \in Requests : caller'[q] = caller'[s] /\ written'[q] # NoRow => q = s
    OBVIOUS
  <2> QED BY <2>1, <2>2, <2>3, <2>4, <1>1 DEF WrittenOK, Recent
<1>7. AnswerOK(s)'
  <2>1. AnswerOK(s) /\ Named(payload[s]) \subseteq Fields
    BY <1>0 DEF RequestOK, Named
  <2>2. pc[s] \in {"answering", "done"} /\ op[s] = "patch" /\ code[s] = "200" =>
          /\ next # NoRow
          /\ \A f \in Named(payload[s]) : Recent(next, s, f)
    <3> HAVE pc[s] \in {"answering", "done"} /\ op[s] = "patch" /\ code[s] = "200"
    <3>1. row # NoRow /\ \A f \in Named(payload[s]) : Recent(row, s, f)
      BY <2>1 DEF AnswerOK
    <3>2. next # NoRow
      BY <3>1, <1>2
    <3> QED BY <3>1, <3>2, <2>1, <1>3
  <2> QED BY <2>1, <2>2, <1>1 DEF AnswerOK, Recent
<1>8. CountryChecked(s)'
  BY <1>0 DEF RequestOK, CountryChecked
<1> QED BY <1>4, <1>5, <1>6, <1>7, <1>8 DEF RequestOK

\* One step of r, seen from another request.
LEMMA OtherRequest ==
    ASSUME Inv, NEW r \in Requests, Step(r), NEW s \in Requests, s # r, pc[s] # "idle"
    PROVE  RequestOK(s)'
<1> USE DEF Inv, TypeOK
<1>1. \A q \in Requests \ {r} :
          /\ pc'[q] = pc[q] /\ caller'[q] = caller[q] /\ op'[q] = op[q]
          /\ payload'[q] = payload[q] /\ mem'[q] = mem[q] /\ dirty'[q] = dirty[q]
          /\ written'[q] = written[q] /\ code'[q] = code[q] /\ body'[q] = body[q]
          /\ before'[q] = before[q] /\ (q \in outage' <=> q \in outage)
  BY DEF Step, Receive, Handle, CommitUnconfirmed, Fail, GetProfile, LoadProfile,
     RefuseCountry, Assign, InsertRow, UpdateRow, IntegrityError, Refresh, Commit,
     Respond, Answer
<1>2. pc[r] # "done"
  BY DEF Step, Receive, Handle, CommitUnconfirmed, Fail, GetProfile, LoadProfile,
     RefuseCountry, Assign, InsertRow, UpdateRow, IntegrityError, Refresh, Commit,
     Respond, Running
<1>3. pc[r] # "idle" => caller' = caller /\ payload' = payload
  BY DEF Step, Receive, Handle, CommitUnconfirmed, Fail, GetProfile, LoadProfile,
     RefuseCountry, Assign, InsertRow, UpdateRow, IntegrityError, Refresh, Commit,
     Respond
<1>4. written[s] # NoRow /\ written'[r] # NoRow => caller'[r] # caller[s]
  <2>1. written[r] # NoRow /\ written[s] # NoRow => caller[r] # caller[s]
    BY DEF RequestOK, WrittenOK
  <2>2. ASSUME InsertRow(r) \/ UpdateRow(r), written[s] # NoRow
        PROVE  caller'[r] # caller[s]
    BY <2>2 DEF InsertRow, UpdateRow, Held
  <2>3. ASSUME ~InsertRow(r), ~UpdateRow(r)
        PROVE  written'[r] \in {written[r], NoRow}
    BY <2>3 DEF Step, Receive, Handle, CommitUnconfirmed, Fail, GetProfile, LoadProfile,
       RefuseCountry, Assign, IntegrityError, Refresh, Commit, Respond, Answer
  <2>4. written[r] # NoRow => caller'[r] = caller[r]
    BY <1>3 DEF RequestOK, PlaceOK
  <2> QED BY <2>1, <2>2, <2>3, <2>4
<1>5. \A q \in Requests \ {s} : written[s] # NoRow /\ written'[q] # NoRow =>
          caller'[q] # caller[s]
  BY <1>1, <1>4 DEF RequestOK, WrittenOK
<1>6. \/ profiles'[caller[s]] = profiles[caller[s]]
      \/ \E q \in Requests \ {s} :
            /\ caller[q] = caller[s] /\ pc[q] = "refreshed"
            /\ written[q] # NoRow /\ profiles'[caller[s]] = written[q]
  <2>1. CASE Commit(r) \/ CommitUnconfirmed(r)
    <3>1. pc[r] = "refreshed" /\ profiles' = Saved(caller[r], written[r])
      BY <2>1 DEF Commit, CommitUnconfirmed
    <3>2. caller[s] \in Students
      BY DEF RequestOK, CallerOK
    <3> QED BY <3>1, <3>2 DEF Saved
  <2>2. CASE ~(Commit(r) \/ CommitUnconfirmed(r))
    BY <2>2 DEF Step, Receive, Handle, Fail, GetProfile, LoadProfile,
       RefuseCountry, Assign, InsertRow, UpdateRow, IntegrityError, Refresh, Respond
  <2> QED BY <2>1, <2>2
<1>7. \A q \in Requests : pc[q] = "done" => pc'[q] = "done"
  BY <1>1, <1>2
<1>8. \A q \in Requests : pc[q] # "idle" =>
          caller'[q] = caller[q] /\ payload'[q] = payload[q]
  BY <1>1, <1>3
<1> HIDE DEF Inv, TypeOK
<1> QED BY <1>1, <1>5, <1>6, <1>7, <1>8, KeptRequest

\* A request that has not arrived has nothing to lose.
LEMMA IdleRequest ==
    ASSUME Inv, NEW s \in Requests, pc'[s] = "idle", caller'[s] = NoStudent,
           before'[s] = {}, written'[s] = NoRow, code'[s] = "none"
    PROVE  RequestOK(s)'
BY DEF RequestOK, CallerOK, PlaceOK, WrittenOK, AnswerOK, CountryChecked
-----------------------------------------------------------------------------
(* The request that a step is of. *)

LEMMA ReceiveStep ==
    ASSUME Inv, NEW r \in Requests, Receive(r)
    PROVE  RequestOK(r)'
<1>1. /\ pc[r] = "idle" /\ written[r] = NoRow /\ code[r] = "none"
  BY DEF Receive, Inv, RequestOK, PlaceOK, AnswerOK
<1>2. /\ pc'[r] = "received" /\ caller'[r] \in Students /\ written'[r] = NoRow
      /\ code'[r] = "none" /\ before'[r] = {q \in Requests : pc[q] = "done"}
  BY <1>1 DEF Receive, Inv, TypeOK
<1>3. \A q \in before'[r] : pc'[q] = "done"
  BY <1>1, <1>2 DEF Receive, Inv, TypeOK
<1> QED BY <1>2, <1>3 DEF RequestOK, CallerOK, PlaceOK, WrittenOK, AnswerOK,
        CountryChecked

\* What RequestOK says of the caller, for every step but Receive.
LEMMA KeptCaller ==
    ASSUME Inv, NEW r \in Requests, pc[r] \notin {"idle", "done"}, NEW place,
           place # "idle", pc' = [pc EXCEPT ![r] = place],
           caller' = caller, before' = before
    PROVE  CallerOK(r)'
<1>1. CallerOK(r) /\ before[r] \subseteq Requests
  BY DEF Inv, TypeOK, RequestOK
<1>2. \A q \in before[r] : pc'[q] = "done"
  BY <1>1 DEF CallerOK, Inv, TypeOK
<1>3. pc'[r] = place
  BY DEF Inv, TypeOK
<1> QED BY <1>1, <1>2, <1>3 DEF CallerOK

\* An answer other than the 200 of a PATCH has only to be the right one.
LEMMA Answered ==
    ASSUME Inv, NEW r \in Requests, pc[r] \notin {"idle", "done"},
           NEW c, NEW b, Answer(r, c, b),
           UNCHANGED <<caller, op, payload, dirty, before>>,
           op[r] = "patch" => c # "200",
           op[r] = "patch" /\ r \notin outage' => CountryOK(payload[r]) \/ c = "404"
    PROVE  RequestOK(r)'
<1>1. pc'[r] = "answering" /\ written'[r] = NoRow /\ code'[r] = c
  BY DEF Answer, Inv, TypeOK
<1>2. CallerOK(r)'
  BY KeptCaller DEF Answer
<1> QED BY <1>1, <1>2 DEF RequestOK, PlaceOK, WrittenOK, AnswerOK, CountryChecked

LEMMA GetProfileStep ==
    ASSUME Inv, NEW r \in Requests, GetProfile(r)
    PROVE  RequestOK(r)'
BY Answered DEF GetProfile

LEMMA LoadProfileStep ==
    ASSUME Inv, NEW r \in Requests, LoadProfile(r)
    PROVE  RequestOK(r)'
<1>1. /\ pc[r] = "received" /\ op[r] = "patch" /\ caller[r] \in Students
      /\ written[r] = NoRow /\ code[r] = "none"
  BY DEF LoadProfile, Inv, RequestOK, CallerOK, PlaceOK, AnswerOK
<1>2. /\ pc'[r] = "loaded" /\ mem'[r] = profiles[caller[r]]
      /\ UNCHANGED <<profiles, caller, op, payload, written, code, before>>
  BY DEF LoadProfile, Inv, TypeOK
<1>3. CallerOK(r)'
  BY <1>1, KeptCaller DEF LoadProfile
<1>4. PlaceOK(r)'
  BY <1>1, <1>2 DEF PlaceOK
<1> QED BY <1>1, <1>2, <1>3, <1>4 DEF RequestOK, WrittenOK, AnswerOK, CountryChecked

LEMMA RefuseCountryStep ==
    ASSUME Inv, NEW r \in Requests, RefuseCountry(r)
    PROVE  RequestOK(r)'
BY Answered DEF RefuseCountry

LEMMA AssignStep ==
    ASSUME Inv, NEW r \in Requests, Assign(r)
    PROVE  RequestOK(r)'
<1> DEFINE row == profiles[caller[r]]
           p == payload[r]
<1>1. /\ pc[r] = "loaded" /\ op[r] = "patch" /\ written[r] = NoRow /\ code[r] = "none"
      /\ mem[r] # NoRow => row # NoRow /\
            \A f \in Named(p) : row[f] = mem[r][f] \/ Recent(row, r, f)
      /\ caller[r] \in Students /\ before[r] \subseteq Requests
      /\ r \notin before[r] /\ CountryOK(p)
  BY DEF Assign, Inv, TypeOK, RequestOK, CallerOK, PlaceOK, AnswerOK
<1>2. /\ UNCHANGED <<profiles, caller, op, payload, written, code, before>>
  BY DEF Assign
<1>3. /\ pc'[r] = IF mem[r] = NoRow THEN "inserting"
                  ELSE IF Changed(mem[r], p) # {} THEN "updating" ELSE "flushed"
      /\ mem'[r] = Assigned(IF mem[r] = NoRow THEN EmptyProfile ELSE mem[r], p)
      /\ dirty'[r] = IF mem[r] = NoRow THEN Fields ELSE Changed(mem[r], p)
  BY DEF Assign, Inv, TypeOK
<1>4. CallerOK(r)'
  BY <1>1, KeptCaller DEF Assign
<1>5. mem'[r] # NoRow
  BY AssignedIsRow, EmptyIsRow, <1>3 DEF Inv, TypeOK
<1>6. ASSUME mem[r] # NoRow, NEW f \in Named(p) \ Changed(mem[r], p)
      PROVE  Recent(row, r, f)
  BY <1>1, <1>6 DEF Changed, Recent
<1>7. PlaceOK(r)'
  <2>1. CASE mem[r] = NoRow
    BY <1>1, <1>2, <1>3, <1>5, <2>1 DEF PlaceOK
  <2>2. CASE mem[r] # NoRow /\ Changed(mem[r], p) # {}
    <3>1. Changed(mem[r], p) \subseteq Named(p) /\ Named(p) \subseteq Fields
      BY DEF Changed, Named
    <3>2. \A f \in Named(p) : mem'[r][f] = p[f]
      BY <1>3, <2>2 DEF Assigned, Named
    <3>3. \A f \in Named(p) \ dirty'[r] : Recent(row, r, f)'
      BY <1>2, <1>3, <1>6, <2>2 DEF Recent
    <3> QED BY <1>1, <1>2, <1>3, <1>5, <2>2, <3>1, <3>2, <3>3 DEF PlaceOK
  <2>3. CASE mem[r] # NoRow /\ Changed(mem[r], p) = {}
    <3>1. \A f \in Named(p) : Recent(row, r, f)'
      BY <1>2, <1>6, <2>3 DEF Recent
    <3> QED BY <1>1, <1>2, <1>3, <1>5, <2>3, <3>1 DEF PlaceOK
  <2> QED BY <2>1, <2>2, <2>3
<1> QED BY <1>1, <1>2, <1>3, <1>4, <1>7
        DEF RequestOK, WrittenOK, AnswerOK, CountryChecked

LEMMA InsertRowStep ==
    ASSUME Inv, NEW r \in Requests, InsertRow(r)
    PROVE  RequestOK(r)'
<1>1. /\ pc[r] = "inserting" /\ op[r] = "patch" /\ code[r] = "none"
      /\ mem[r] # NoRow /\ mem[r] = Assigned(EmptyProfile, payload[r])
      /\ profiles[caller[r]] = NoRow /\ ~Held(caller[r])
      /\ before[r] \subseteq Requests /\ r \notin before[r] /\ CountryOK(payload[r])
  BY DEF InsertRow, Inv, TypeOK, RequestOK, CallerOK, PlaceOK, AnswerOK, CountryChecked
<1>2. /\ UNCHANGED <<profiles, caller, op, payload, code, before, dirty>>
      /\ pc'[r] = "flushed" /\ written' = [written EXCEPT ![r] = mem[r]]
      /\ written'[r] = mem[r]
  BY DEF InsertRow, Inv, TypeOK
<1>3. CallerOK(r)'
  BY <1>1, KeptCaller DEF InsertRow
<1>4. PlaceOK(r)'
  BY <1>1, <1>2 DEF PlaceOK
<1>5. \A f \in Named(payload[r]) : written'[r][f] = payload[r][f]
  BY <1>1, <1>2 DEF Assigned, Named
<1>6. \A q \in Requests : caller[q] = caller[r] /\ written'[q] # NoRow => q = r
  BY <1>1, <1>2 DEF Held, Inv, TypeOK
<1>7. WrittenOK(r)'
  BY <1>1, <1>2, <1>5, <1>6 DEF WrittenOK, Recent
<1> QED BY <1>1, <1>2, <1>3, <1>4, <1>7 DEF RequestOK, AnswerOK, CountryChecked

LEMMA UpdateRowStep ==
    ASSUME Inv, NEW r \in Requests, UpdateRow(r)
    PROVE  RequestOK(r)'
<1> DEFINE row == profiles[caller[r]]
           version == [f \in Fields |-> IF f \in dirty[r] THEN mem[r][f] ELSE row[f]]
<1>1. /\ pc[r] = "updating" /\ op[r] = "patch" /\ code[r] = "none"
      /\ row # NoRow /\ ~Held(caller[r])
      /\ dirty[r] \subseteq Named(payload[r]) /\ Named(payload[r]) \subseteq Fields
      /\ \A f \in Named(payload[r]) : mem[r][f] = payload[r][f]
      /\ \A f \in Named(payload[r]) \ dirty[r] : Recent(row, r, f)
      /\ before[r] \subseteq Requests /\ r \notin before[r] /\ CountryOK(payload[r])
  BY DEF UpdateRow, Inv, TypeOK, RequestOK, CallerOK, PlaceOK, AnswerOK, CountryChecked,
     Named
<1>2. /\ UNCHANGED <<profiles, caller, op, payload, code, before, dirty>>
      /\ pc'[r] = "flushed" /\ written' = [written EXCEPT ![r] = version]
      /\ written'[r] = version
  BY DEF UpdateRow, Inv, TypeOK
<1>3. row \in Row /\ mem[r] \in Row
  BY <1>1 DEF Inv, TypeOK, RequestOK, CallerOK, PlaceOK
<1>4. version # NoRow
  <2>1. version \in Row
    BY <1>3 DEF Row
  <2> QED BY <2>1, EmptyIsRow
<1>5. CallerOK(r)'
  BY <1>1, KeptCaller DEF UpdateRow
<1>6. PlaceOK(r)'
  BY <1>1, <1>2, <1>4 DEF PlaceOK
<1>7. \A f \in Named(payload[r]) : Recent(version, r, f)
  <2> TAKE f \in Named(payload[r])
  <2>1. CASE f \in dirty[r]
    BY <1>1, <2>1 DEF Recent
  <2>2. CASE f \notin dirty[r]
    <3>1. version[f] = row[f] /\ Recent(row, r, f)
      BY <1>1, <2>2
    <3> QED BY <3>1 DEF Recent
  <2> QED BY <2>1, <2>2
<1>8. \A q \in Requests : caller[q] = caller[r] /\ written'[q] # NoRow => q = r
  BY <1>1, <1>2 DEF Held, Inv, TypeOK
<1>9. /\ \A f \in dirty[r] \cap Named(payload[r]) : version[f] = payload[r][f]
      /\ \A f \in Fields : version[f] = row[f] \/
            (f \in Named(payload[r]) /\ version[f] = payload[r][f])
  BY <1>1
<1> HIDE DEF version
<1>10. WrittenOK(r)'
  BY <1>1, <1>2, <1>7, <1>8, <1>9 DEF WrittenOK, Recent
<1> QED BY <1>1, <1>2, <1>5, <1>6, <1>10 DEF RequestOK, AnswerOK, CountryChecked

LEMMA IntegrityErrorStep ==
    ASSUME Inv, NEW r \in Requests, IntegrityError(r)
    PROVE  RequestOK(r)'
<1>1. pc[r] \in {"inserting", "updating"} /\ CountryOK(payload[r])
  BY DEF IntegrityError, Inv, RequestOK, CountryChecked
<1> QED BY <1>1, Answered DEF IntegrityError

LEMMA RefreshStep ==
    ASSUME Inv, NEW r \in Requests, Refresh(r)
    PROVE  RequestOK(r)'
<1>1. RequestOK(r) /\ pc[r] = "flushed"
  BY DEF Refresh, Inv
<1>2. /\ UNCHANGED <<profiles, caller, op, payload, dirty, written, code, before>>
      /\ pc'[r] = "refreshed"
      /\ mem'[r] = IF written[r] # NoRow THEN written[r] ELSE profiles[caller[r]]
  BY DEF Refresh, Inv, TypeOK
<1>3. CallerOK(r)'
  BY <1>1, KeptCaller DEF Refresh
<1>4. PlaceOK(r)' /\ WrittenOK(r)'
  BY <1>1, <1>2 DEF RequestOK, PlaceOK, WrittenOK, Recent
<1> QED BY <1>1, <1>2, <1>3, <1>4 DEF RequestOK, AnswerOK, CountryChecked
LEMMA CommitStep ==
    ASSUME Inv, NEW r \in Requests, Commit(r)
    PROVE  RequestOK(r)'
<1> DEFINE next == profiles'[caller[r]]
<1>1. /\ RequestOK(r) /\ pc[r] = "refreshed" /\ op[r] = "patch"
      /\ caller[r] \in Students /\ CountryOK(payload[r])
  BY DEF Commit, Inv, RequestOK, CallerOK, PlaceOK, CountryChecked
<1>2. /\ UNCHANGED <<caller, op, payload, dirty, before>>
      /\ pc'[r] = "answering" /\ code'[r] = "200" /\ body'[r] = mem[r]
      /\ written'[r] = NoRow
      /\ next = IF written[r] = NoRow THEN profiles[caller[r]] ELSE written[r]
  BY <1>1 DEF Commit, Answer, Saved, Inv, TypeOK
<1>3. CallerOK(r)'
  BY <1>1, KeptCaller DEF Commit, Answer
<1>4. PlaceOK(r)' /\ WrittenOK(r)'
  BY <1>2 DEF PlaceOK, WrittenOK
<1>5. next # NoRow /\ \A f \in Named(payload[r]) : Recent(next, r, f)
  BY <1>1, <1>2 DEF RequestOK, PlaceOK, WrittenOK
<1>6. \A f \in dirty[r] \cap Named(payload[r]) : mem[r][f] = payload[r][f]
  BY <1>1 DEF RequestOK, PlaceOK, WrittenOK, AnswerOK
<1> HIDE DEF next
<1>7. next = profiles'[caller'[r]]
  BY <1>2 DEF next
<1>8. AnswerOK(r)'
  BY <1>2, <1>5, <1>6, <1>7 DEF AnswerOK, Recent
<1> QED BY <1>1, <1>2, <1>3, <1>4, <1>8 DEF RequestOK, CountryChecked

LEMMA FailureStep ==
    ASSUME Inv, NEW r \in Requests, CommitUnconfirmed(r) \/ Fail(r)
    PROVE  RequestOK(r)'
<1>1. pc[r] \notin {"idle", "done"}
  BY DEF CommitUnconfirmed, Fail, Running
<1> QED BY <1>1, Answered DEF CommitUnconfirmed, Fail

LEMMA RespondStep ==
    ASSUME Inv, NEW r \in Requests, Respond(r)
    PROVE  RequestOK(r)'
<1>1. RequestOK(r) /\ pc[r] = "answering"
  BY DEF Respond, Inv
<1>2. /\ UNCHANGED <<profiles, caller, op, payload, mem, dirty, written, code, body,
                     before, outage>>
      /\ pc'[r] = "done"
  BY DEF Respond, Inv, TypeOK
<1>3. CallerOK(r)'
  BY <1>1, KeptCaller DEF Respond
<1> QED BY <1>1, <1>2, <1>3
        DEF RequestOK, PlaceOK, WrittenOK, AnswerOK, CountryChecked, Recent

LEMMA CrashStep ==
    ASSUME Inv, Crash, NEW s \in Requests
    PROVE  RequestOK(s)'
<1>1. /\ RequestOK(s) /\ before[s] \subseteq Requests
      /\ UNCHANGED <<profiles, caller, op, payload, dirty, before, outage>>
      /\ written'[s] = NoRow
  BY DEF Crash, Inv, TypeOK
<1>2. \A q \in Requests : pc'[q] = IF pc[q] = "idle" THEN "idle" ELSE "done"
  BY DEF Crash, Running, Inv, TypeOK
<1>3. CASE pc[s] = "idle"
  <2>1. pc'[s] = "idle" /\ code'[s] = code[s]
    BY <1>2, <1>3 DEF Crash, Running
  <2>2. caller[s] = NoStudent /\ before[s] = {} /\ code[s] = "none"
    BY <1>1, <1>3 DEF RequestOK, CallerOK, AnswerOK
  <2> QED BY <1>1, <2>1, <2>2, IdleRequest
<1>4. CASE pc[s] # "idle"
  <2>1. pc'[s] = "done" /\ (\A q \in before[s] : pc'[q] = "done")
    BY <1>1, <1>2, <1>4 DEF RequestOK, CallerOK
  <2>2. CallerOK(s)'
    BY <1>1, <1>4, <2>1 DEF RequestOK, CallerOK
  <2>3. CASE pc[s] = "done"
    <3>1. code'[s] = code[s] /\ body'[s] = body[s]
      BY <2>3 DEF Crash, Running
    <3> QED BY <1>1, <2>1, <2>2, <2>3, <3>1
            DEF RequestOK, PlaceOK, WrittenOK, AnswerOK, CountryChecked, Recent
  <2>4. CASE pc[s] # "done"
    <3>1. code'[s] = "lost"
      BY <1>4, <2>4 DEF Crash, Running, Inv, TypeOK
    <3> QED BY <1>1, <2>1, <2>2, <3>1
            DEF RequestOK, PlaceOK, WrittenOK, AnswerOK, CountryChecked
  <2> QED BY <2>3, <2>4
<1> QED BY <1>3, <1>4

LEMMA RequestsStep ==
    ASSUME Inv, [Next]_vars
    PROVE  \A s \in Requests : RequestOK(s)'
<1>1. ASSUME NEW r \in Requests, Step(r), NEW s \in Requests
      PROVE  RequestOK(s)'
  <2>1. CASE s = r
    BY <1>1, <2>1, ReceiveStep, GetProfileStep, LoadProfileStep, RefuseCountryStep,
       AssignStep, InsertRowStep, UpdateRowStep, IntegrityErrorStep, RefreshStep,
       CommitStep, FailureStep, RespondStep DEF Step, Handle
  <2>2. CASE s # r /\ pc[s] # "idle"
    BY <1>1, <2>2, OtherRequest
  <2>3. CASE s # r /\ pc[s] = "idle"
    <3>1. /\ caller[s] = NoStudent /\ before[s] = {} /\ written[s] = NoRow
          /\ code[s] = "none"
      BY <2>3 DEF Inv, RequestOK, CallerOK, PlaceOK, AnswerOK
    <3>2. /\ pc'[s] = pc[s] /\ caller'[s] = caller[s] /\ before'[s] = before[s]
          /\ written'[s] = written[s] /\ code'[s] = code[s]
      BY <1>1, <2>3 DEF Step, Receive, Handle, CommitUnconfirmed, Fail, GetProfile,
         LoadProfile, RefuseCountry, Assign, InsertRow, UpdateRow, IntegrityError,
         Refresh, Commit, Respond, Answer, Inv, TypeOK
    <3> QED BY <2>3, <3>1, <3>2, IdleRequest
  <2> QED BY <2>1, <2>2, <2>3
<1>2. CASE Crash
  BY <1>2, CrashStep
<1>3. ASSUME UNCHANGED vars, NEW s \in Requests
      PROVE  RequestOK(s)'
  <2>1. RequestOK(s)
    BY DEF Inv
  <2> QED BY <1>3, <2>1
          DEF vars, RequestOK, CallerOK, PlaceOK, WrittenOK, AnswerOK, CountryChecked,
              Recent
<1> QED BY <1>1, <1>2, <1>3 DEF Next, Step, Quiet

-----------------------------------------------------------------------------
\* Inv is an invariant, whatever the interleaving, failures and crashes.
THEOREM Invariance == Spec => []Inv
<1>1. Inv /\ [Next]_vars => Inv'
  BY TypeStep, RequestsStep DEF Inv
<1> QED BY InitInv, <1>1, PTL DEF Spec

\* Every variable keeps its type.
THEOREM TypeCorrect == Spec => []TypeOK
<1>1. Inv => TypeOK
  BY DEF Inv
<1> QED BY Invariance, <1>1, PTL

\* A commit writes the fields its request names and no other: the partial
\* update of one request never writes back what it has loaded over another's.
THEOREM NamedFieldsOnly == Spec => OnlyNamedFieldsChange
<1>1. ASSUME Inv, [Next]_vars
      PROVE  [FieldStep]_vars
  <2> SUFFICES ASSUME NEW s \in Students, profiles'[s] # profiles[s]
               PROVE  \E r \in Requests :
                         /\ pc[r] = "refreshed" /\ caller[r] = s /\ profiles'[s] # NoRow
                         /\ profiles[s] # NoRow => \A f \in Fields :
                               profiles'[s][f] \in {profiles[s][f], payload[r][f]}
                         /\ profiles[s] = NoRow =>
                               profiles'[s] = Assigned(EmptyProfile, payload[r])
    BY DEF FieldStep
  <2>1. PICK r \in Requests : Commit(r) \/ CommitUnconfirmed(r)
    BY <1>1 DEF Next, Receive, Handle, Fail, GetProfile, LoadProfile, RefuseCountry,
       Assign, InsertRow, UpdateRow, IntegrityError, Refresh, Respond, Crash, Quiet, vars
  <2>2. pc[r] = "refreshed" /\ profiles' = Saved(caller[r], written[r])
    BY <2>1 DEF Commit, CommitUnconfirmed
  <2>3. written[r] # NoRow /\ caller[r] = s /\ profiles'[s] = written[r]
    BY <1>1, <2>2 DEF Saved, Inv, TypeOK
  <2>4. WrittenOK(r)
    BY <1>1 DEF Inv, RequestOK
  <2> QED BY <2>2, <2>3, <2>4 DEF WrittenOK
<1> QED BY Invariance, <1>1, PTL DEF Spec, OnlyNamedFieldsChange

\* No acknowledged PATCH is undone by one that had ended before it came.
THEOREM LastWins == Spec => []LastPatchWins
<1>1. Inv => LastPatchWins
  BY DEF Inv, RequestOK, AnswerOK, LastPatchWins, Recent
<1> QED BY Invariance, <1>1, PTL

\* The answer shows what the PATCH has changed.
THEOREM ChangesAnswered == Spec => []ChangesAreAnswered
<1>1. Inv => ChangesAreAnswered
  <2> SUFFICES ASSUME Inv, NEW r \in Requests,
                      pc[r] = "done", op[r] = "patch", code[r] = "200",
                      NEW f \in dirty[r], payload[r][f] # Unset
               PROVE  body[r][f] = payload[r][f]
    BY DEF ChangesAreAnswered
  <2>1. f \in Named(payload[r])
    BY DEF Inv, TypeOK, Named
  <2> QED BY <2>1 DEF Inv, RequestOK, AnswerOK
<1> QED BY Invariance, <1>1, PTL

\* The foreign key never has to find out that a country is unknown.
THEOREM UnknownCountryNotFound == Spec => []UnknownCountryIs404
<1>1. Inv => UnknownCountryIs404
  BY DEF Inv, RequestOK, CountryChecked, CountryOK, UnknownCountryIs404
<1> QED BY Invariance, <1>1, PTL
=============================================================================
