--------------------- MODULE EnrolmentApplicationsProofs ---------------------
(***************************************************************************)
(* Proofs about EnrolmentApplications for any number of requests, students *)
(* and applications.  The inductive invariant is Inv; each action of a     *)
(* request r is shown to preserve what it says of r, and lemma Frame shows *)
(* that the other requests keep what it says of them.                      *)
(***************************************************************************)
EXTENDS EnrolmentApplications, TLAPS

Inv == TypeOK /\ SessionsAgreeWithTable

\* Request q takes no part in the step.
Same(q) ==
    /\ pc'[q] = pc[q] /\ call'[q] = call[q] /\ app'[q] = app[q]
    /\ mem'[q] = mem[q] /\ written'[q] = written[q]
    /\ code'[q] = code[q] /\ body'[q] = body[q] /\ known'[q] = known[q]

\* A request that takes no part in a step keeps its part of the invariant when
\* rows only move forward, time does not go back, and the row it is about to
\* insert is not inserted by another.
LEMMA Frame ==
    ASSUME TypeOK, NEW q \in Requests, RequestOK(q), Same(q),
           ForwardStep, apps' \in Rows, clock' \in Nat, clock <= clock',
           pc[q] \in Holding /\ call[q].op = "create" => app[q] \notin Existing'
    PROVE  RequestOK(q)'
<1>1. /\ Existing \subseteq Existing' /\ Existing' \subseteq Apps
      /\ \A a \in Existing : /\ apps[a] \in Row /\ apps'[a] \in Row
                             /\ apps'[a].student = apps[a].student
                             /\ apps'[a].program = apps[a].program
                             /\ apps'[a].created = apps[a].created
                             /\ apps[a].status = "SUBMITTED" => apps'[a].status = "SUBMITTED"
  BY DEF TypeOK, ForwardStep, SameApplication, Existing, Rows
<1>2. /\ NoApp \notin Apps /\ clock \in Nat /\ app[q] \in Apps \cup {NoApp}
      /\ NoRow \notin Row
  BY ConstantsAssumption DEF TypeOK
<1>3. SessionOK(q)'
  BY <1>1, <1>2 DEF RequestOK, SessionOK, Same, Holding, Reading
<1>4. ASSUME NEW row \in Row, OwnVersion(q, row)
      PROVE  OwnVersion(q, row)'
  BY <1>1, <1>2, <1>4 DEF OwnVersion, Same, SameApplication, Row
<1>5. ASSUME NEW row \in Row, SubmitVersion(q, row)
      PROVE  SubmitVersion(q, row)'
  <2>1. OwnVersion(q, row)'
    BY <1>4, <1>5 DEF SubmitVersion
  <2> QED BY <2>1, <1>2, <1>5 DEF SubmitVersion, Same, Row, Never
<1>6. ASSUME NEW row \in Row, DraftVersion(q, row), pc[q] \in Holding, call[q].op = "create"
      PROVE  DraftVersion(q, row)'
  BY <1>1, <1>2, <1>6 DEF DraftVersion, Same, Row
<1>7. WorkOK(q)'
  <2>1. WorkOK(q) /\ SessionOK(q)
    BY DEF RequestOK
  <2>2. (pc[q] = "loaded" /\ call[q].op = "submit" /\ mem[q] # NoRow =>
          /\ OwnVersion(q, mem[q])
          /\ app[q] \in known[q] => mem[q].status = "SUBMITTED"
          /\ mem[q].status = "SUBMITTED" => apps[app[q]].status = "SUBMITTED")'
    BY <1>1, <1>2, <1>4, <2>1 DEF WorkOK, OwnVersion, Same
  <2>3. (pc[q] = "loaded" /\ call[q].op = "submit" /\ mem[q] = NoRow =>
          (app[q] \in Existing => apps[app[q]].student # call[q].student))'
    BY <1>1, <1>2, <2>1 DEF WorkOK, SessionOK, Same
  <2>4. (pc[q] = "flushing" => SubmitVersion(q, mem[q]))'
    <3>1. pc[q] = "flushing" => mem[q] \in Row /\ SubmitVersion(q, mem[q])
      BY <2>1 DEF WorkOK, SubmitVersion, OwnVersion
    <3> QED BY <3>1, <1>5 DEF Same, SubmitVersion, OwnVersion
  <2>5. (pc[q] \in Holding /\ call[q].op = "submit" => SubmitVersion(q, written[q]))'
    <3>1. pc[q] \in Holding /\ call[q].op = "submit" =>
             written[q] \in Row /\ SubmitVersion(q, written[q])
      BY <2>1 DEF WorkOK, SubmitVersion, OwnVersion
    <3> QED BY <3>1, <1>5 DEF Same, SubmitVersion, OwnVersion, Holding
  <2>6. (pc[q] \in Holding /\ call[q].op = "create" => DraftVersion(q, written[q]))'
    <3>1. pc[q] \in Holding /\ call[q].op = "create" =>
             written[q] \in Row /\ DraftVersion(q, written[q])
      BY <2>1 DEF WorkOK, DraftVersion
    <3> QED BY <3>1, <1>6 DEF Same, DraftVersion, Holding
  <2>7. (pc[q] = "refreshed" => mem[q] = written[q])'
    BY <2>1 DEF WorkOK, Same
  <2> QED BY <2>2, <2>3, <2>4, <2>5, <2>6, <2>7 DEF WorkOK
<1>8. AnswerOK(q)'
  <2>1. AnswerOK(q) /\ SessionOK(q)
    BY DEF RequestOK
  <2>2. ASSUME NEW a \in Apps, body[q][a] # NoRow
        PROVE  (/\ a \in Existing
                /\ SameApplication(apps[a], body[q][a])
                /\ body[q][a].status = "SUBMITTED" => apps[a].status = "SUBMITTED"
                /\ call[q].student = apps[a].student
                /\ a \in known[q] => body[q][a].status = "SUBMITTED")'
    BY <1>1, <2>1, <2>2 DEF AnswerOK, Same, SameApplication
  <2>3. (code[q] = "404" /\ call[q].op \in {"get", "submit"} =>
            (app[q] \in Existing => apps[app[q]].student # call[q].student))'
    BY <1>1, <1>2, <2>1 DEF AnswerOK, SessionOK, Same
  <2>4. (code[q] = "409" =>
            /\ app[q] \in Existing
            /\ apps[app[q]].student = call[q].student
            /\ apps[app[q]].status = "SUBMITTED")'
    BY <1>1, <2>1 DEF AnswerOK, Same
  <2> QED BY <2>1, <2>2, <2>3, <2>4 DEF AnswerOK, Same, NoRows
<1>9. KnownOK(q)'
  BY <1>1 DEF RequestOK, KnownOK, Same
<1> QED BY <1>3, <1>7, <1>8, <1>9 DEF RequestOK

-----------------------------------------------------------------------------
(* Steps of one request that leave the table alone. *)

\* What is left to show of such a step: the types, and the request's own part.
LEMMA OneRequest ==
    ASSUME Inv, NEW r \in Requests, TypeOK', RequestOK(r)',
           \A q \in Requests \ {r} : Same(q),
           apps' = apps, clock' = clock,
           \/ pc'[r] \notin Holding
           \/ pc[r] \in Holding /\ app'[r] = app[r]
           \/ \A q \in Requests : pc[q] \in Holding => app[q] # app'[r]
    PROVE  Inv'
<1>1. TypeOK /\ TableOK /\ RowLockExclusive /\ \A q \in Requests : RequestOK(q)
  BY DEF Inv, SessionsAgreeWithTable
<1>2. TableOK'
  BY <1>1 DEF TableOK, SubmissionStamped, Existing
<1>3. \A q \in Requests : RequestOK(q)'
  <2>1. SUFFICES ASSUME NEW q \in Requests \ {r}
                 PROVE  RequestOK(q)'
    OBVIOUS
  <2>2. pc[q] \in Holding /\ call[q].op = "create" => app[q] \notin Existing'
    BY <1>1 DEF RequestOK, WorkOK, DraftVersion, Existing
  <2>3. ForwardStep /\ apps' \in Rows /\ clock \in Nat /\ clock' \in Nat /\ clock <= clock'
    BY <1>1, ConstantsAssumption DEF ForwardStep, SameApplication, Existing, TypeOK, Rows
  <2> QED BY <1>1, <2>2, <2>3, Frame
<1>4. RowLockExclusive'
  BY <1>1 DEF RowLockExclusive, Same
<1> QED BY <1>2, <1>3, <1>4 DEF Inv, SessionsAgreeWithTable

\* What the invariant says of the request that moves, and of the constants.
LEMMA Unfold ==
    ASSUME Inv, NEW r \in Requests
    PROVE  /\ TypeOK /\ TableOK /\ RowLockExclusive
           /\ SessionOK(r) /\ WorkOK(r) /\ AnswerOK(r) /\ KnownOK(r)
           /\ clock \in Nat /\ clock >= 1
           /\ NoApp \notin Apps /\ NoRow \notin Row /\ NoRows \in Rows
  BY ConstantsAssumption
     DEF Inv, SessionsAgreeWithTable, RequestOK, TypeOK, NoRows, Rows

\* The rows a SELECT returns.
LEMMA VisibleRow ==
    ASSUME TypeOK, NEW s \in Students, NEW a \in Apps \cup {NoApp}
    PROVE  /\ Visible(s, a) \in Row \cup {NoRow}
           /\ Visible(s, a) # NoRow =>
                 a \in Existing /\ Visible(s, a) = apps[a] /\ apps[a].student = s
           /\ Visible(s, a) = NoRow =>
                 (a \in Existing => apps[a].student # s)
  BY ConstantsAssumption DEF Visible, Existing, TypeOK, Rows

\* A request is received: its session is empty, and it knows what has been reported.
LEMMA ReceiveStep ==
    ASSUME Inv, NEW r \in Requests, Receive(r)
    PROVE  Inv'
<1>1. PICK c \in Calls, a \in Existing \cup {NoApp} :
         /\ Arrive(r, c, a)
         /\ c.op \in {"create", "list"} => a = NoApp
         /\ c.op = "create" => c.program \in Programs
  <2>1. PICK s \in Students :
           \/ \E p \in Programs :
                 Arrive(r, [student |-> s, program |-> p, op |-> "create"], NoApp)
           \/ Arrive(r, [student |-> s, program |-> NoProgram, op |-> "list"], NoApp)
           \/ \E o \in {"get", "submit"}, a \in Existing \cup {NoApp} :
                 Arrive(r, [student |-> s, program |-> NoProgram, op |-> o], a)
    BY DEF Receive
  <2>2. \A p \in Programs \cup {NoProgram}, o \in Ops :
           [student |-> s, program |-> p, op |-> o] \in Calls
    BY DEF Calls
  <2>3. CASE \E p \in Programs :
                Arrive(r, [student |-> s, program |-> p, op |-> "create"], NoApp)
    <3>1. PICK p \in Programs :
             Arrive(r, [student |-> s, program |-> p, op |-> "create"], NoApp)
      BY <2>3
    <3> DEFINE c == [student |-> s, program |-> p, op |-> "create"]
    <3>2. c \in Calls /\ c.op = "create" /\ c.program \in Programs /\ Arrive(r, c, NoApp)
      BY <2>2, <3>1 DEF Ops
    <3> HIDE DEF c
    <3> QED BY <3>2
  <2>4. CASE Arrive(r, [student |-> s, program |-> NoProgram, op |-> "list"], NoApp)
    <3> DEFINE c == [student |-> s, program |-> NoProgram, op |-> "list"]
    <3>1. c \in Calls /\ c.op = "list" /\ Arrive(r, c, NoApp)
      BY <2>2, <2>4 DEF Ops
    <3> HIDE DEF c
    <3> QED BY <3>1
  <2>5. CASE \E o \in {"get", "submit"}, a \in Existing \cup {NoApp} :
                Arrive(r, [student |-> s, program |-> NoProgram, op |-> o], a)
    <3>1. PICK o \in {"get", "submit"}, a \in Existing \cup {NoApp} :
             Arrive(r, [student |-> s, program |-> NoProgram, op |-> o], a)
      BY <2>5
    <3>2. [student |-> s, program |-> NoProgram, op |-> o] \in Calls
      BY <2>2 DEF Ops
    <3> QED BY <3>1, <3>2
  <2> QED BY <2>1, <2>3, <2>4, <2>5
<1>2. TypeOK'
  BY <1>1, Unfold DEF Arrive, TypeOK, Places, ReportedSubmitted, Existing
<1>3. \A q \in Requests \ {r} : Same(q)
  BY <1>1, Unfold DEF Arrive, TypeOK, Same
<1>4. pc[r] = "idle" /\ pc'[r] = "received" /\ call'[r] = c /\ app'[r] = a
      /\ known'[r] = ReportedSubmitted /\ apps' = apps /\ clock' = clock
      /\ code'[r] = code[r] /\ body'[r] = body[r]
  BY <1>1, Unfold DEF Arrive, TypeOK
<1>5. SessionOK(r)'
  BY <1>1, <1>4 DEF SessionOK, Existing, Reading, Holding
<1>6. WorkOK(r)'
  BY <1>4 DEF WorkOK, Holding
<1>7. AnswerOK(r)'
  BY <1>4, Unfold DEF AnswerOK, NoRows
<1>8. KnownOK(r)'
  <2>1. SUFFICES ASSUME NEW x \in ReportedSubmitted
                 PROVE  x \in Existing /\ apps[x].status = "SUBMITTED"
    BY <1>4 DEF KnownOK, Existing
  <2>2. PICK q \in Requests :
           \/ body[q][x] # NoRow /\ body[q][x].status = "SUBMITTED"
           \/ code[q] = "409" /\ app[q] = x
    BY DEF ReportedSubmitted
  <2> QED BY <2>2, Unfold DEF AnswerOK, ReportedSubmitted
<1> QED
  BY <1>2, <1>3, <1>4, <1>5, <1>6, <1>7, <1>8, OneRequest DEF RequestOK, Holding

\* A request that answers without writing: what it answers must be true.
LEMMA AnswerStep ==
    ASSUME Inv, NEW r \in Requests, NEW c \in Codes, NEW b \in Rows,
           Answer(r, c, b), pc[r] # "idle", call[r] \in Calls,
           UNCHANGED <<apps, clock, call, app, known>>, active' \subseteq Programs,
           \A a \in Apps : b[a] # NoRow =>
               /\ a \in Existing /\ b[a] = apps[a] /\ apps[a].student = call[r].student
               /\ c \notin {"none", "404", "409", "500", "lost"},
           c = "409" => /\ app[r] \in Existing
                        /\ apps[app[r]].student = call[r].student
                        /\ apps[app[r]].status = "SUBMITTED",
           c = "404" /\ call[r].op \in {"get", "submit"} =>
               (app[r] \in Existing => apps[app[r]].student # call[r].student),
           c = "200" => call[r].op # "submit"
    PROVE  Inv'
<1>1. TypeOK'
  BY Unfold DEF Answer, TypeOK, Places
<1>2. \A q \in Requests \ {r} : Same(q)
  BY Unfold DEF Answer, TypeOK, Same
<1>3. pc'[r] = "answering" /\ code'[r] = c /\ body'[r] = b
  BY Unfold DEF Answer, TypeOK
<1>4. SessionOK(r)'
  BY <1>3, Unfold DEF SessionOK, Existing, Holding, Reading
<1>5. WorkOK(r)'
  BY <1>3 DEF WorkOK, Holding
<1>6. AnswerOK(r)'
  <2>1. \A a \in Apps : b[a] # NoRow => (a \in known[r] => b[a].status = "SUBMITTED")
    BY Unfold DEF KnownOK
  <2>2. c \in {"none", "404", "409", "500", "lost"} => b = NoRows
    BY Unfold DEF Rows, NoRows
  <2> QED BY <1>3, <2>1, <2>2 DEF AnswerOK, SameApplication, Existing, NoRows
<1>7. KnownOK(r)'
  BY Unfold DEF KnownOK, Existing
<1> QED
  BY <1>1, <1>2, <1>3, <1>4, <1>5, <1>6, <1>7, OneRequest DEF RequestOK, Holding

\* The list of the student's applications is read and answered.
LEMMA ListStep ==
    ASSUME Inv, NEW r \in Requests, List(r)
    PROVE  Inv'
<1> DEFINE b == [a \in Apps |-> Visible(call[r].student, a)]
<1>1. call[r] \in Calls /\ call[r].student \in Students /\ call[r].op = "list"
  BY Unfold DEF List, At, SessionOK, Calls
<1>2. b \in Rows /\ \A a \in Apps : b[a] # NoRow =>
          a \in Existing /\ b[a] = apps[a] /\ apps[a].student = call[r].student
  BY <1>1, Unfold, VisibleRow DEF Rows
<1> QED
  BY <1>1, <1>2, Unfold, AnswerStep DEF List, At, Codes, TypeOK

\* One application is read and answered, or found to be another's or nobody's.
LEMMA GetStep ==
    ASSUME Inv, NEW r \in Requests, Get(r)
    PROVE  Inv'
<1> DEFINE row == Visible(call[r].student, app[r])
<1>1. /\ call[r] \in Calls /\ call[r].student \in Students /\ call[r].op = "get"
      /\ pc[r] = "received" /\ app[r] \in Apps \cup {NoApp} /\ active' \subseteq Programs
      /\ UNCHANGED <<apps, clock, call, app, known>>
  BY Unfold DEF Get, At, SessionOK, Calls, TypeOK
<1>2. /\ row \in Row \cup {NoRow}
      /\ row # NoRow => app[r] \in Existing /\ row = apps[app[r]]
                          /\ apps[app[r]].student = call[r].student
      /\ row = NoRow => (app[r] \in Existing => apps[app[r]].student # call[r].student)
  BY <1>1, Unfold, VisibleRow
<1>3. CASE row = NoRow /\ Answer(r, "404", NoRows)
  <2>1. \A a \in Apps : NoRows[a] = NoRow
    BY DEF NoRows
  <2> QED BY <1>1, <1>2, <1>3, <2>1, Unfold, AnswerStep DEF Codes
<1>4. CASE row # NoRow /\ Answer(r, "200", [NoRows EXCEPT ![app[r]] = row])
  <2> DEFINE b == [NoRows EXCEPT ![app[r]] = row]
  <2>1. b \in Rows /\ \A a \in Apps : b[a] # NoRow =>
            a \in Existing /\ b[a] = apps[a] /\ apps[a].student = call[r].student
    BY <1>2, <1>4, Unfold DEF Rows, NoRows, Existing
  <2>2. Answer(r, "200", b)
    BY <1>4
  <2> HIDE DEF b
  <2> QED BY <1>1, <2>1, <2>2, AnswerStep DEF Codes
<1> QED BY <1>3, <1>4 DEF Get

\* The program is looked up; the draft gets its identity if it is active.
LEMMA CheckProgramStep ==
    ASSUME Inv, NEW r \in Requests, CheckProgram(r)
    PROVE  Inv'
<1>1. /\ call[r] \in Calls /\ call[r].op = "create" /\ pc[r] = "received"
      /\ UNCHANGED <<apps, active, clock, call, app, known>>
      /\ active' \subseteq Programs
  BY Unfold DEF CheckProgram, At, SessionOK, TypeOK
<1>2. CASE Answer(r, "404", NoRows)
  <2>1. \A a \in Apps : NoRows[a] = NoRow
    BY DEF NoRows
  <2> QED BY <1>1, <1>2, <2>1, Unfold, AnswerStep DEF Codes
<1>3. CASE /\ pc' = [pc EXCEPT ![r] = "loaded"]
           /\ UNCHANGED <<code, body, mem, written>>
  <2>1. TypeOK' /\ pc'[r] = "loaded"
    BY <1>1, <1>3, Unfold DEF TypeOK, Places
  <2>2. \A q \in Requests \ {r} : Same(q)
    BY <1>1, <1>3, Unfold DEF TypeOK, Same
  <2>3. SessionOK(r)' /\ WorkOK(r)' /\ AnswerOK(r)' /\ KnownOK(r)'
    BY <1>1, <1>3, <2>1, Unfold
       DEF SessionOK, WorkOK, AnswerOK, KnownOK, Existing, Holding, Reading
  <2> QED BY <1>1, <2>1, <2>2, <2>3, OneRequest DEF RequestOK, Holding
<1> QED BY <1>2, <1>3 DEF CheckProgram

\* The draft is flushed: a version of an application that nobody else inserts.
LEMMA InsertStep ==
    ASSUME Inv, NEW r \in Requests, Insert(r)
    PROVE  Inv'
<1>1. PICK a \in Apps : Fresh(a) /\ app' = [app EXCEPT ![r] = a]
  BY DEF Insert
<1>2. /\ call[r] \in Calls /\ call[r].op = "create" /\ pc[r] = "loaded"
      /\ call[r].student \in Students
      /\ UNCHANGED <<apps, active, clock, call, mem, code, body, known>>
      /\ pc' = [pc EXCEPT ![r] = "flushed"]
      /\ written' = [written EXCEPT ![r] = NewRow(call[r])]
  BY Unfold DEF Insert, At, SessionOK, Calls
<1>3. call[r].program \in Programs
  BY <1>2, Unfold DEF SessionOK
<1>4. NewRow(call[r]) \in Row
  BY <1>2, <1>3, Unfold DEF NewRow, Row, Statuses, Calls, TypeOK
<1>5. TypeOK'
  BY <1>1, <1>2, <1>4, Unfold DEF TypeOK, Places
<1>6. \A q \in Requests \ {r} : Same(q)
  BY <1>1, <1>2, Unfold DEF TypeOK, Same
<1>7. pc'[r] = "flushed" /\ app'[r] = a /\ written'[r] = NewRow(call[r])
  BY <1>1, <1>2, Unfold DEF TypeOK
<1>8. SessionOK(r)' /\ AnswerOK(r)' /\ KnownOK(r)'
  BY <1>2, <1>7, Unfold DEF SessionOK, AnswerOK, KnownOK, Existing, Holding, Reading
<1>9. WorkOK(r)'
  <2>1. DraftVersion(r, written[r])'
    BY <1>1, <1>2, <1>4, <1>7, Unfold DEF DraftVersion, NewRow, Fresh, Existing
  <2> QED BY <1>2, <1>7, <2>1 DEF WorkOK, Holding
<1> QED
  BY <1>1, <1>2, <1>5, <1>6, <1>7, <1>8, <1>9, OneRequest
     DEF RequestOK, Holding, Fresh, Locked

\* The application to submit is read, at the latest committed version.
LEMMA LoadDraftStep ==
    ASSUME Inv, NEW r \in Requests, LoadDraft(r)
    PROVE  Inv'
<1> DEFINE row == Visible(call[r].student, app[r])
<1>1. /\ call[r] \in Calls /\ call[r].op = "submit" /\ pc[r] = "received"
      /\ call[r].student \in Students /\ app[r] \in Apps \cup {NoApp}
      /\ UNCHANGED <<apps, active, clock, call, app, written, code, body, known>>
      /\ pc' = [pc EXCEPT ![r] = "loaded"]
      /\ mem' = [mem EXCEPT ![r] = row]
  BY Unfold DEF LoadDraft, At, SessionOK, Calls, TypeOK
<1>2. /\ row \in Row \cup {NoRow}
      /\ row # NoRow => app[r] \in Existing /\ row = apps[app[r]]
                          /\ apps[app[r]].student = call[r].student
      /\ row = NoRow => (app[r] \in Existing => apps[app[r]].student # call[r].student)
  BY <1>1, Unfold, VisibleRow
<1> HIDE DEF row
<1>3. TypeOK' /\ pc'[r] = "loaded" /\ mem'[r] = row
  BY <1>1, <1>2, Unfold DEF TypeOK, Places
<1>4. \A q \in Requests \ {r} : Same(q)
  BY <1>1, Unfold DEF TypeOK, Same
<1>5. SessionOK(r)' /\ AnswerOK(r)' /\ KnownOK(r)'
  BY <1>1, <1>3, Unfold DEF SessionOK, AnswerOK, KnownOK, Existing, Holding, Reading
<1>6. WorkOK(r)'
  <2>1. row # NoRow => OwnVersion(r, mem[r])'
    BY <1>1, <1>2, <1>3, Unfold DEF OwnVersion, Existing, SameApplication, TableOK
  <2>2. row # NoRow => (app[r] \in known[r] => row.status = "SUBMITTED")
    BY <1>2, Unfold DEF KnownOK
  <2> QED BY <1>1, <1>2, <1>3, <2>1, <2>2 DEF WorkOK, Holding, Existing
<1> QED BY <1>1, <1>3, <1>4, <1>5, <1>6, OneRequest DEF RequestOK, Holding

\* No such application of the student, or not a draft any more.
LEMMA RefuseSubmitStep ==
    ASSUME Inv, NEW r \in Requests, RefuseSubmit(r)
    PROVE  Inv'
<1>1. /\ call[r] \in Calls /\ call[r].op = "submit" /\ pc[r] = "loaded"
      /\ UNCHANGED <<apps, active, clock, call, app, known>>
      /\ active' \subseteq Programs
  BY Unfold DEF RefuseSubmit, At, SessionOK, TypeOK
<1>2. \A a \in Apps : NoRows[a] = NoRow
  BY DEF NoRows
<1>3. CASE mem[r] = NoRow /\ Answer(r, "404", NoRows)
  <2>1. app[r] \in Existing => apps[app[r]].student # call[r].student
    BY <1>1, <1>3, Unfold DEF WorkOK
  <2> QED BY <1>1, <1>2, <1>3, <2>1, Unfold, AnswerStep DEF Codes
<1>4. CASE mem[r] # NoRow /\ ~MaySubmit(mem[r]) /\ Answer(r, "409", NoRows)
  <2>1. /\ OwnVersion(r, mem[r])
        /\ mem[r].status = "SUBMITTED" => apps[app[r]].status = "SUBMITTED"
    BY <1>1, <1>4, Unfold DEF WorkOK
  <2>2. /\ app[r] \in Existing
        /\ apps[app[r]].student = call[r].student
        /\ apps[app[r]].status = "SUBMITTED"
    BY <1>4, <2>1 DEF OwnVersion, MaySubmit, Row, Statuses
  <2> QED BY <1>1, <1>2, <1>4, <2>2, Unfold, AnswerStep DEF Codes
<1> QED BY <1>3, <1>4 DEF RefuseSubmit

\* The loaded draft becomes a submitted version, stamped now.
LEMMA StampSubmitStep ==
    ASSUME Inv, NEW r \in Requests, StampSubmit(r)
    PROVE  Inv'
<1> DEFINE row == [Submitted(mem[r]) EXCEPT !.updated = clock]
<1>1. /\ call[r] \in Calls /\ call[r].op = "submit" /\ pc[r] = "loaded"
      /\ UNCHANGED <<apps, active, clock, call, app, written, code, body, known>>
      /\ pc' = [pc EXCEPT ![r] = "flushing"]
      /\ mem' = [mem EXCEPT ![r] = row]
      /\ mem[r] # NoRow /\ mem[r].status = "DRAFT"
  BY Unfold DEF StampSubmit, At, SessionOK, MaySubmit
<1>2. OwnVersion(r, mem[r]) /\ app[r] \notin known[r]
  BY <1>1, Unfold DEF WorkOK
<1>3. /\ row \in Row /\ row.status = "SUBMITTED" /\ row.submitted = clock
      /\ row.created = mem[r].created /\ SameApplication(row, mem[r])
  BY <1>2, Unfold DEF OwnVersion, Submitted, Row, Statuses, SameApplication, TypeOK
<1> HIDE DEF row
<1>4. TypeOK' /\ pc'[r] = "flushing" /\ mem'[r] = row
  BY <1>1, <1>3, Unfold DEF TypeOK, Places
<1>5. \A q \in Requests \ {r} : Same(q)
  BY <1>1, Unfold DEF TypeOK, Same
<1>6. SessionOK(r)' /\ AnswerOK(r)' /\ KnownOK(r)'
  BY <1>1, <1>4, Unfold DEF SessionOK, AnswerOK, KnownOK, Existing, Holding, Reading
<1>7. WorkOK(r)'
  <2>1. SubmitVersion(r, mem[r])'
    BY <1>1, <1>2, <1>3, <1>4, Unfold
       DEF SubmitVersion, OwnVersion, Existing, SameApplication, Row
  <2> QED BY <1>1, <1>4, <2>1 DEF WorkOK, Holding
<1> QED BY <1>1, <1>4, <1>5, <1>6, <1>7, OneRequest DEF RequestOK, Holding

\* The UPDATE takes the row lock and bases its version on the committed row.
LEMMA UpdateRowStep ==
    ASSUME Inv, NEW r \in Requests, UpdateRow(r)
    PROVE  Inv'
<1> DEFINE row == UpdatedRow(apps[app[r]], mem[r])
<1>1. /\ call[r] \in Calls /\ call[r].op = "submit" /\ pc[r] = "flushing"
      /\ UNCHANGED <<apps, active, clock, call, app, mem, code, body, known>>
      /\ pc' = [pc EXCEPT ![r] = "flushed"]
      /\ written' = [written EXCEPT ![r] = row]
      /\ ~Locked(app[r])
  BY Unfold DEF UpdateRow, At, SessionOK
<1>2. SubmitVersion(r, mem[r])
  BY <1>1, Unfold DEF WorkOK
<1>3. apps[app[r]] \in Row
  BY <1>2, Unfold DEF SubmitVersion, OwnVersion, Existing, TypeOK, Rows
<1>4. /\ row \in Row /\ row.status = "SUBMITTED" /\ row.submitted = mem[r].submitted
      /\ row.created = mem[r].created /\ SameApplication(row, apps[app[r]])
  BY <1>2, <1>3 DEF SubmitVersion, OwnVersion, UpdatedRow, Row, Statuses, SameApplication
<1> HIDE DEF row
<1>5. TypeOK' /\ pc'[r] = "flushed" /\ written'[r] = row
  BY <1>1, <1>4, Unfold DEF TypeOK, Places
<1>6. \A q \in Requests \ {r} : Same(q)
  BY <1>1, Unfold DEF TypeOK, Same
<1>7. SessionOK(r)' /\ AnswerOK(r)' /\ KnownOK(r)'
  BY <1>1, <1>5, Unfold DEF SessionOK, AnswerOK, KnownOK, Existing, Holding, Reading
<1>8. WorkOK(r)'
  <2>1. SubmitVersion(r, written[r])'
    BY <1>1, <1>2, <1>4, <1>5, Unfold DEF SubmitVersion, OwnVersion, Existing, SameApplication
  <2> QED BY <1>1, <1>5, <2>1 DEF WorkOK, Holding
<1> QED
  BY <1>1, <1>5, <1>6, <1>7, <1>8, OneRequest DEF RequestOK, Holding, Locked

\* The session's object becomes the version that the transaction wrote.
LEMMA RefreshStep ==
    ASSUME Inv, NEW r \in Requests, Refresh(r)
    PROVE  Inv'
<1>1. /\ call[r] \in Calls /\ call[r].op \in {"create", "submit"} /\ pc[r] = "flushed"
      /\ UNCHANGED <<apps, active, clock, call, app, written, code, body, known>>
      /\ pc' = [pc EXCEPT ![r] = "refreshed"]
      /\ mem' = [mem EXCEPT ![r] = written[r]]
  BY Unfold DEF Refresh, SessionOK, Holding
<1>2. TypeOK' /\ pc'[r] = "refreshed" /\ mem'[r] = written[r]
  BY <1>1, Unfold DEF TypeOK, Places
<1>3. \A q \in Requests \ {r} : Same(q)
  BY <1>1, Unfold DEF TypeOK, Same
<1>4. SessionOK(r)' /\ AnswerOK(r)' /\ KnownOK(r)'
  BY <1>1, <1>2, Unfold DEF SessionOK, AnswerOK, KnownOK, Existing, Holding, Reading
<1>5. WorkOK(r)'
  <2>1. (call[r].op = "submit" => SubmitVersion(r, written[r])')
    BY <1>1, <1>2, Unfold DEF WorkOK, SubmitVersion, OwnVersion, Existing, Holding
  <2>2. (call[r].op = "create" => DraftVersion(r, written[r])')
    BY <1>1, <1>2, Unfold DEF WorkOK, DraftVersion, Existing, Holding
  <2> QED BY <1>1, <1>2, <2>1, <2>2 DEF WorkOK, Holding
<1> QED BY <1>1, <1>2, <1>3, <1>4, <1>5, OneRequest DEF RequestOK, Holding

\* The answer reaches the client, and is reported from then on.
LEMMA RespondStep ==
    ASSUME Inv, NEW r \in Requests, Respond(r)
    PROVE  Inv'
<1>1. /\ pc[r] = "answering" /\ pc' = [pc EXCEPT ![r] = "done"]
      /\ UNCHANGED <<apps, active, clock, call, app, mem, written, code, body, known>>
  BY DEF Respond
<1>2. TypeOK' /\ pc'[r] = "done"
  BY <1>1, Unfold DEF TypeOK, Places
<1>3. \A q \in Requests \ {r} : Same(q)
  BY <1>1, Unfold DEF TypeOK, Same
<1>4. SessionOK(r)' /\ WorkOK(r)' /\ AnswerOK(r)' /\ KnownOK(r)'
  BY <1>1, <1>2, Unfold
     DEF SessionOK, WorkOK, AnswerOK, KnownOK, Existing, Holding, Reading
<1> QED BY <1>1, <1>2, <1>3, <1>4, OneRequest DEF RequestOK, Holding

\* A request that fails leaves nothing behind.
LEMMA FailStep ==
    ASSUME Inv, NEW r \in Requests, Fail(r)
    PROVE  Inv'
<1>1. \A a \in Apps : NoRows[a] = NoRow
  BY DEF NoRows
<1>2. /\ call[r] \in Calls /\ pc[r] # "idle" /\ active' \subseteq Programs
      /\ UNCHANGED <<apps, clock, call, app, known>> /\ Answer(r, "500", NoRows)
  BY Unfold DEF Fail, Running, SessionOK, TypeOK
<1> QED BY <1>1, <1>2, Unfold, AnswerStep DEF Codes

-----------------------------------------------------------------------------
(* COMMIT, the one step that changes the table. *)

\* The version that a COMMIT makes visible follows from the committed one.
LEMMA CommittedVersion ==
    ASSUME Inv, NEW r \in Requests, pc[r] = "refreshed", apps' = Saved(r),
           clock' = clock
    PROVE  /\ app[r] \in Apps /\ written[r] \in Row
           /\ apps' = [apps EXCEPT ![app[r]] = written[r]]
           /\ apps' \in Rows /\ Existing' = Existing \cup {app[r]}
           /\ ForwardStep /\ TableOK'
           /\ written[r].student = call[r].student
           /\ call[r].op = IF apps[app[r]] = NoRow THEN "create" ELSE "submit"
           /\ call[r].op = "submit" => written[r].status = "SUBMITTED" /\ app[r] \notin known[r]
           /\ call[r].op = "create" => written[r].status = "DRAFT" /\ app[r] \notin Existing
<1>1. /\ pc[r] \in Holding /\ call[r].op \in {"create", "submit"}
      /\ call[r].op = "submit" => SubmitVersion(r, written[r])
      /\ call[r].op = "create" => DraftVersion(r, written[r])
  BY Unfold DEF SessionOK, WorkOK, Holding
<1>2. app[r] \in Apps /\ written[r] \in Row /\ written[r] # NoRow
  BY <1>1, Unfold DEF SubmitVersion, OwnVersion, DraftVersion, Existing
<1>3. apps' = [apps EXCEPT ![app[r]] = written[r]] /\ apps' \in Rows
  BY <1>2, Unfold DEF Saved, TypeOK, Rows
<1>4. apps'[app[r]] = written[r] /\ \A a \in Apps \ {app[r]} : apps'[a] = apps[a]
  BY <1>2, <1>3, Unfold DEF TypeOK, Rows
<1>5. Existing' = Existing \cup {app[r]}
  BY <1>2, <1>4 DEF Existing
<1>6. ForwardStep
  <2>1. app[r] \in Existing => /\ SameApplication(written[r], apps[app[r]])
                               /\ written[r].status = "SUBMITTED"
    BY <1>1 DEF SubmitVersion, OwnVersion, DraftVersion
  <2> QED BY <1>2, <1>4, <2>1 DEF ForwardStep, Existing, SameApplication
<1>7. /\ written[r].status = "SUBMITTED" <=> written[r].submitted # Never
      /\ written[r].status = "SUBMITTED" =>
            written[r].submitted \in written[r].created..clock
      /\ written[r].created <= clock
  BY <1>1, <1>2 DEF SubmitVersion, OwnVersion, DraftVersion, Row, Never
<1>8. TableOK'
  BY <1>4, <1>5, <1>7, Unfold DEF TableOK, SubmissionStamped, Existing
<1>9. written[r].student = call[r].student
  BY <1>1 DEF SubmitVersion, OwnVersion, DraftVersion, SameApplication
<1> QED
  BY <1>1, <1>2, <1>3, <1>5, <1>6, <1>8, <1>9
     DEF SubmitVersion, OwnVersion, DraftVersion, Existing

\* After a COMMIT, confirmed (201 or 200 with the row) or not (500).
LEMMA CommitAndAnswer ==
    ASSUME Inv, NEW r \in Requests, NEW c \in Codes, NEW b \in Rows,
           pc[r] = "refreshed", apps' = Saved(r), Answer(r, c, b),
           UNCHANGED <<active, clock, call, app, known>>,
           \/ c = "500" /\ b = NoRows
           \/ c = SuccessCode(call[r].op) /\ b = [NoRows EXCEPT ![app[r]] = mem[r]]
    PROVE  Inv'
<1>1. /\ app[r] \in Apps /\ written[r] \in Row /\ written[r] # NoRow
      /\ apps' = [apps EXCEPT ![app[r]] = written[r]]
      /\ apps' \in Rows /\ Existing' = Existing \cup {app[r]}
      /\ ForwardStep /\ TableOK'
      /\ written[r].student = call[r].student
      /\ call[r].op \in {"create", "submit"}
      /\ call[r].op = "submit" => written[r].status = "SUBMITTED" /\ app[r] \notin known[r]
      /\ call[r].op = "create" => written[r].status = "DRAFT" /\ app[r] \notin Existing
  BY CommittedVersion, Unfold
<1>2. mem[r] = written[r] /\ call[r] \in Calls
  BY Unfold DEF WorkOK, SessionOK
<1>3. TypeOK'
  BY <1>1, Unfold DEF TypeOK, Answer, Places
<1>4. \A q \in Requests \ {r} : Same(q)
  BY Unfold DEF TypeOK, Answer, Same
<1>5. pc'[r] = "answering" /\ code'[r] = c /\ body'[r] = b /\ apps'[app[r]] = written[r]
  BY <1>1, Unfold DEF TypeOK, Answer, Rows
<1>6. SessionOK(r)'
  BY <1>1, <1>2, <1>5, Unfold DEF SessionOK, Holding, Reading
<1>7. WorkOK(r)'
  BY <1>5 DEF WorkOK, Holding
<1>8. KnownOK(r)'
  BY <1>1, Unfold DEF KnownOK, ForwardStep
<1>9. AnswerOK(r)'
  <2>1. CASE c = "500" /\ b = NoRows
    BY <1>5, <2>1 DEF AnswerOK, NoRows
  <2>2. CASE c = SuccessCode(call[r].op) /\ b = [NoRows EXCEPT ![app[r]] = mem[r]]
    <3>1. c = IF call[r].op = "create" THEN "201" ELSE "200"
      BY <2>2 DEF SuccessCode
    <3>2. \A a \in Apps : b[a] # NoRow => a = app[r] /\ b[a] = written[r]
      BY <1>1, <1>2, <2>2 DEF NoRows
    <3>3. app[r] \in known[r] => FALSE
      BY <1>1, Unfold DEF KnownOK
    <3> QED
      BY <1>1, <1>5, <3>1, <3>2, <3>3 DEF AnswerOK, SameApplication
  <2> QED BY <2>1, <2>2
<1>10. ASSUME NEW q \in Requests \ {r}
       PROVE  RequestOK(q)'
  <2>1. RequestOK(q) /\ TypeOK
    BY DEF Inv, SessionsAgreeWithTable
  <2>2. pc[q] \in Holding /\ call[q].op = "create" => app[q] \notin Existing'
    <3>1. SUFFICES ASSUME pc[q] \in Holding, call[q].op = "create"
                   PROVE  app[q] \notin Existing'
      OBVIOUS
    <3>2. app[q] \notin Existing
      BY <2>1, <3>1 DEF RequestOK, WorkOK, DraftVersion
    <3>3. app[q] # app[r]
      BY <3>1, Unfold DEF RowLockExclusive, Holding
    <3> QED BY <1>1, <3>2, <3>3
  <2>3. clock \in Nat /\ clock' \in Nat /\ clock <= clock'
    BY Unfold
  <2>4. ForwardStep /\ apps' \in Rows /\ Same(q)
    BY <1>1, <1>4
  <2> QED BY <2>1, <2>2, <2>3, <2>4, Frame
<1>11. RowLockExclusive'
  BY <1>4, <1>5, Unfold DEF RowLockExclusive, Same, Holding
<1> QED
  BY <1>1, <1>3, <1>6, <1>7, <1>8, <1>9, <1>10, <1>11
     DEF Inv, SessionsAgreeWithTable, RequestOK

\* The commit publishes the version; it was justified when it was written.
LEMMA CommitStep ==
    ASSUME Inv, NEW r \in Requests, Commit(r) \/ CommitUnconfirmed(r)
    PROVE  Inv'
<1>1. app[r] \in Apps /\ written[r] \in Row /\ mem[r] = written[r]
  <2>1. pc[r] = "refreshed" /\ apps' = Saved(r) /\ clock' = clock
    BY DEF Commit, CommitUnconfirmed
  <2> QED BY <2>1, CommittedVersion, Unfold DEF WorkOK
<1>2. CASE Commit(r)
  <2> DEFINE b == [NoRows EXCEPT ![app[r]] = mem[r]]
  <2>1. b \in Rows
    BY <1>1, Unfold DEF Rows
  <2>2. SuccessCode(call[r].op) \in Codes
    BY DEF SuccessCode, Codes
  <2> QED BY <1>2, <2>1, <2>2, CommitAndAnswer DEF Commit
<1>3. CASE CommitUnconfirmed(r)
  BY <1>3, Unfold, CommitAndAnswer DEF CommitUnconfirmed, Codes
<1> QED BY <1>2, <1>3

-----------------------------------------------------------------------------
(* Steps of no single request. *)

\* A crash empties every session and leaves the table alone.
LEMMA CrashStep ==
    ASSUME Inv, Crash
    PROVE  Inv'
<1> DEFINE alive == {r \in Requests : pc[r] \in Running \cup {"answering"}}
<1>1. /\ pc' = [r \in Requests |-> IF r \in alive THEN "done" ELSE pc[r]]
      /\ code' = [r \in Requests |-> IF r \in alive THEN "lost" ELSE code[r]]
      /\ body' = [r \in Requests |-> IF r \in alive THEN NoRows ELSE body[r]]
      /\ mem' = [r \in Requests |-> NoRow]
      /\ written' = [r \in Requests |-> NoRow]
      /\ UNCHANGED <<apps, active, clock, call, app, known>>
  BY DEF Crash
<1>2. TypeOK /\ TableOK /\ NoRows \in Rows
  BY DEF Inv, SessionsAgreeWithTable, NoRows, Rows
<1>3. TypeOK'
  BY <1>1, <1>2 DEF TypeOK, Places, Codes
<1>4. \A r \in Requests : pc'[r] \in {"idle", "done"}
  BY <1>1, <1>2 DEF TypeOK, Places, Running
<1>5. ASSUME NEW r \in Requests
      PROVE  RequestOK(r)'
  <2>1. SessionOK(r)'
    BY <1>1, <1>4, Unfold DEF SessionOK, Existing, Holding, Reading, Running
  <2>2. WorkOK(r)'
    BY <1>4 DEF WorkOK, Holding
  <2>3. AnswerOK(r)'
    <3>1. CASE r \in alive
      BY <1>1, <3>1 DEF AnswerOK, NoRows
    <3>2. CASE r \notin alive
      BY <1>1, <3>2, Unfold DEF AnswerOK, Existing, NoRows
    <3> QED BY <3>1, <3>2
  <2>4. KnownOK(r)'
    BY <1>1, Unfold DEF KnownOK, Existing
  <2> QED BY <2>1, <2>2, <2>3, <2>4 DEF RequestOK
<1>6. RowLockExclusive'
  BY <1>4 DEF RowLockExclusive, Holding
<1>7. TableOK'
  BY <1>1, <1>2 DEF TableOK, SubmissionStamped, Existing
<1> QED BY <1>3, <1>5, <1>6, <1>7 DEF Inv, SessionsAgreeWithTable

\* Steps that change only the clock or the set of active programs, or nothing.
LEMMA OutsideStep ==
    ASSUME Inv, Tick \/ (\E p \in Programs : SetActive(p)) \/ UNCHANGED vars
    PROVE  Inv'
<1>1. /\ UNCHANGED <<apps, pc, call, app, mem, written, code, body, known>>
      /\ active' \subseteq Programs
      /\ clock' \in 1..MaxClock /\ clock <= clock' /\ clock \in Nat /\ clock' \in Nat
  <2>1. active \subseteq Programs /\ clock \in 1..MaxClock /\ MaxClock \in Nat
    BY ConstantsAssumption DEF Inv, TypeOK
  <2>2. CASE Tick
    BY <2>1, <2>2 DEF Tick
  <2>3. CASE \E p \in Programs : SetActive(p)
    BY <2>1, <2>3 DEF SetActive
  <2>4. CASE UNCHANGED vars
    BY <2>1, <2>4 DEF vars
  <2> QED BY <2>2, <2>3, <2>4
<1>2. TypeOK /\ TableOK /\ RowLockExclusive /\ \A q \in Requests : RequestOK(q)
  BY DEF Inv, SessionsAgreeWithTable
<1>3. TypeOK'
  BY <1>1, <1>2 DEF TypeOK
<1>4. TableOK'
  BY <1>1, <1>2 DEF TableOK, SubmissionStamped, Existing, TypeOK, Rows, Row, Never
<1>5. ASSUME NEW q \in Requests
      PROVE  RequestOK(q)'
  <2>1. ForwardStep /\ apps' \in Rows /\ Same(q)
    BY <1>1, <1>2 DEF ForwardStep, SameApplication, Existing, TypeOK, Rows, Same
  <2>2. pc[q] \in Holding /\ call[q].op = "create" => app[q] \notin Existing'
    BY <1>1, <1>2 DEF RequestOK, WorkOK, DraftVersion, Existing
  <2> QED BY <1>1, <1>2, <2>1, <2>2, Frame
<1>6. RowLockExclusive'
  BY <1>1, <1>2 DEF RowLockExclusive
<1> QED BY <1>3, <1>4, <1>5, <1>6 DEF Inv, SessionsAgreeWithTable

-----------------------------------------------------------------------------
\* The invariant holds at the start.
LEMMA InitInv == Init => Inv
<1> SUFFICES ASSUME Init PROVE Inv
  OBVIOUS
<1>1. MaxClock \in Nat /\ 1 \in 1..MaxClock /\ NoRows \in Rows /\ Drafts \subseteq Row
  BY ConstantsAssumption DEF NoRows, Rows, Drafts
<1>2. TypeOK
  BY <1>1 DEF Init, TypeOK, Rows, Places, Codes
<1>3. TableOK
  BY <1>1, ConstantsAssumption
     DEF Init, TableOK, SubmissionStamped, Existing, Drafts, Row, Never
<1>4. \A r \in Requests : RequestOK(r)
  BY DEF Init, RequestOK, SessionOK, WorkOK, AnswerOK, KnownOK, NoRows, Holding, Reading
<1>5. RowLockExclusive
  BY DEF Init, RowLockExclusive, Holding
<1> QED BY <1>2, <1>3, <1>4, <1>5 DEF Inv, SessionsAgreeWithTable

\* Every step preserves the invariant.
LEMMA NextInv == Inv /\ [Next]_vars => Inv'
<1> SUFFICES ASSUME Inv, [Next]_vars PROVE Inv'
  OBVIOUS
<1>1. CASE \E r \in Requests : Receive(r)
  BY <1>1, ReceiveStep
<1>2. CASE \E r \in Requests : Handle(r)
  BY <1>2, ListStep, GetStep, CheckProgramStep, InsertStep, LoadDraftStep,
     RefuseSubmitStep, StampSubmitStep, UpdateRowStep, RefreshStep, CommitStep,
     RespondStep DEF Handle
<1>3. CASE \E r \in Requests : CommitUnconfirmed(r)
  BY <1>3, CommitStep
<1>4. CASE \E r \in Requests : Fail(r)
  BY <1>4, FailStep
<1>5. CASE Crash
  BY <1>5, CrashStep
<1>6. CASE Tick \/ (\E p \in Programs : SetActive(p)) \/ UNCHANGED vars
  BY <1>6, OutsideStep
<1> QED BY <1>1, <1>2, <1>3, <1>4, <1>5, <1>6 DEF Next

\* The inductive invariant holds in every reachable state.
THEOREM Invariance == Spec => []Inv
<1>1. Init => Inv
  BY InitInv
<1>2. Inv /\ [Next]_vars => Inv'
  BY NextInv
<1> QED BY <1>1, <1>2, PTL DEF Spec

-----------------------------------------------------------------------------
(* The promises, each a consequence of the invariant. *)

\* Every state of every run has the types of TypeOK.
THEOREM TypeCorrect == Spec => []TypeOK
<1>1. Inv => TypeOK
  BY DEF Inv
<1> QED BY <1>1, Invariance, PTL

\* Requests' sessions and answers agree with the table, however requests,
\* failures and crashes interleave.
THEOREM SessionsAgree == Spec => []SessionsAgreeWithTable
<1>1. Inv => SessionsAgreeWithTable
  BY DEF Inv
<1> QED BY <1>1, Invariance, PTL

\* What a client has been shown is still true and durable.
THEOREM AcknowledgementsDurable == Spec => []AcknowledgedIsDurable
<1>1. Inv => AcknowledgedIsDurable
  BY DEF Inv, SessionsAgreeWithTable, RequestOK, AnswerOK, AcknowledgedIsDurable
<1> QED BY <1>1, Invariance, PTL

\* A submit that arrives after a client has been told that the application is
\* SUBMITTED does not succeed, and later reads show SUBMITTED.
THEOREM LateRequestsSeeSubmission == Spec => []LateRequestsAgree
<1>1. Inv => LateRequestsAgree
  <2> SUFFICES ASSUME Inv, NEW r \in Requests, NEW a \in known[r]
               PROVE  /\ call[r].op = "submit" /\ app[r] = a => code[r] # "200"
                      /\ body[r][a] # NoRow => body[r][a].status = "SUBMITTED"
    BY DEF LateRequestsAgree
  <2>1. AnswerOK(r) /\ a \in Apps
    BY Unfold DEF TypeOK
  <2> QED BY <2>1 DEF AnswerOK
<1> QED BY <1>1, Invariance, PTL

\* Refusals have a reason that still holds when the client reads them.
THEOREM RefusalsHold == Spec => []RefusalsAreTrue
<1>1. Inv => RefusalsAreTrue
  BY DEF Inv, SessionsAgreeWithTable, RequestOK, AnswerOK, RefusalsAreTrue
<1> QED BY <1>1, Invariance, PTL

\* Steps other than a COMMIT leave the table alone.
LEMMA TableSteps ==
    ASSUME Inv, [Next]_vars
    PROVE  \/ apps' = apps
           \/ \E r \in Requests : /\ pc[r] = "refreshed" /\ apps' = Saved(r)
                                  /\ pc'[r] = "answering" /\ clock' = clock
                                  /\ \A q \in Requests : pc'[q] = "done" => pc[q] = "done"
<1>1. CASE \E r \in Requests : Receive(r)
  BY <1>1 DEF Receive, Arrive
<1>2. CASE \E r \in Requests : Handle(r)
  <2>1. PICK r \in Requests : Handle(r)
    BY <1>2
  <2>2. CASE Commit(r)
    BY <2>2, Unfold DEF Commit, Answer, TypeOK
  <2>3. CASE ~Commit(r)
    BY <2>1, <2>3 DEF Handle, List, Get, CheckProgram, Insert, LoadDraft, RefuseSubmit,
                      StampSubmit, UpdateRow, Refresh, Respond
  <2> QED BY <2>2, <2>3
<1>3. CASE \E r \in Requests : CommitUnconfirmed(r)
  BY <1>3, Unfold DEF CommitUnconfirmed, Answer, TypeOK
<1>4. CASE (\E r \in Requests : Fail(r)) \/ Crash \/ Tick
           \/ (\E p \in Programs : SetActive(p)) \/ UNCHANGED vars
  BY <1>4 DEF Fail, Crash, Tick, SetActive, vars
<1> QED BY <1>1, <1>2, <1>3, <1>4 DEF Next

\* Rows are never deleted or re-owned and never leave SUBMITTED.
THEOREM RowsForward == Spec => RowsMoveForward
<1>1. Inv /\ [Next]_vars => [ForwardStep]_vars
  <2> SUFFICES ASSUME Inv, [Next]_vars PROVE ForwardStep
    OBVIOUS
  <2>1. CASE apps' = apps
    BY <2>1 DEF ForwardStep, SameApplication, Existing
  <2>2. CASE \E r \in Requests : pc[r] = "refreshed" /\ apps' = Saved(r) /\ clock' = clock
    BY <2>2, CommittedVersion
  <2> QED BY <2>1, <2>2, TableSteps
<1> QED BY <1>1, Invariance, PTL DEF Spec, RowsMoveForward

\* Only the commit of a request of the owner creates or changes a row.
THEOREM OwnersCommit == Spec => OnlyOwnersCommit
<1>1. Inv /\ [Next]_vars => [OwnerStep]_vars
  <2> SUFFICES ASSUME Inv, [Next]_vars, NEW a \in Apps, apps'[a] # apps[a]
               PROVE  \E r \in Requests :
                         /\ app[r] = a
                         /\ pc[r] = "refreshed" /\ pc'[r] = "answering"
                         /\ call[r].student = apps'[a].student
                         /\ call[r].op = IF apps[a] = NoRow THEN "create" ELSE "submit"
    BY DEF OwnerStep
  <2>1. PICK r \in Requests : /\ pc[r] = "refreshed" /\ apps' = Saved(r)
                              /\ pc'[r] = "answering" /\ clock' = clock
    BY TableSteps
  <2>2. /\ apps' = [apps EXCEPT ![app[r]] = written[r]] /\ apps \in Rows
        /\ written[r].student = call[r].student /\ app[r] \in Apps
        /\ call[r].op = IF apps[app[r]] = NoRow THEN "create" ELSE "submit"
    BY <2>1, CommittedVersion, Unfold DEF TypeOK
  <2>3. app[r] = a /\ apps'[a] = written[r]
    BY <2>2 DEF Rows
  <2> QED BY <2>1, <2>2, <2>3
<1> QED BY <1>1, Invariance, PTL DEF Spec, OnlyOwnersCommit

-----------------------------------------------------------------------------
(* The endpoints implement the lifecycle. *)

\* An answered request stays as it is.
LEMMA DoneStays ==
    ASSUME Inv, [Next]_vars, NEW q \in Requests, pc[q] = "done"
    PROVE  /\ pc'[q] = "done" /\ call'[q] = call[q] /\ app'[q] = app[q]
           /\ code'[q] = code[q] /\ body'[q] = body[q]
<1>1. CASE \E r \in Requests : Receive(r)
  BY <1>1, Unfold DEF Receive, Arrive, TypeOK
<1>2. CASE \E r \in Requests : Handle(r)
  <2>1. PICK r \in Requests : Handle(r)
    BY <1>2
  <2>2. CASE List(r) \/ Get(r) \/ CheckProgram(r) \/ RefuseSubmit(r) \/ Commit(r)
    BY <2>2, Unfold DEF List, Get, CheckProgram, RefuseSubmit, Commit, Answer, At, TypeOK
  <2>3. CASE Insert(r) \/ LoadDraft(r) \/ StampSubmit(r) \/ UpdateRow(r)
               \/ Refresh(r) \/ Respond(r)
    BY <2>3, Unfold
       DEF Insert, LoadDraft, StampSubmit, UpdateRow, Refresh, Respond, At, TypeOK
  <2> QED BY <2>1, <2>2, <2>3 DEF Handle
<1>3. CASE \E r \in Requests : CommitUnconfirmed(r) \/ Fail(r)
  BY <1>3, Unfold DEF CommitUnconfirmed, Fail, Running, Answer, TypeOK
<1>4. CASE Crash
  BY <1>4 DEF Crash, Running
<1>5. CASE Tick \/ (\E p \in Programs : SetActive(p)) \/ UNCHANGED vars
  BY <1>5 DEF Tick, SetActive, vars
<1> QED BY <1>1, <1>2, <1>3, <1>4, <1>5 DEF Next

\* What has been reported stays reported.
LEMMA ReportedMonotonic ==
    ASSUME Inv, [Next]_vars
    PROVE  Reported \subseteq Reported'
<1> SUFFICES ASSUME NEW f \in Reported PROVE f \in Reported'
  OBVIOUS
<1>1. PICK q \in Requests :
         /\ pc[q] = "done" /\ call[q].student = f[2]
         /\ \/ body[q][f[1]] # NoRow /\ body[q][f[1]].status = f[3]
            \/ code[q] = "409" /\ app[q] = f[1] /\ f[3] = "SUBMITTED"
  BY DEF Reported
<1>2. /\ pc'[q] = "done" /\ call'[q] = call[q] /\ app'[q] = app[q]
      /\ code'[q] = code[q] /\ body'[q] = body[q]
  BY <1>1, DoneStays
<1> QED BY <1>1, <1>2 DEF Reported

\* What has been reported is a fact of the lifecycle.
LEMMA ReportedFacts == Inv => Lifecycle!Truthful
<1> SUFFICES ASSUME Inv, NEW f \in Reported PROVE f \in Lifecycle!Facts
  BY DEF Lifecycle!Truthful
<1>1. f \in Apps \X Students \X Statuses
  BY DEF Reported
<1>2. PICK q \in Requests :
         /\ call[q].student = f[2]
         /\ \/ body[q][f[1]] # NoRow /\ body[q][f[1]].status = f[3]
            \/ code[q] = "409" /\ app[q] = f[1] /\ f[3] = "SUBMITTED"
  BY DEF Reported
<1>3. /\ f[1] \in Existing /\ apps[f[1]].student = f[2]
      /\ f[3] = "SUBMITTED" => apps[f[1]].status = "SUBMITTED"
  BY <1>1, <1>2, Unfold DEF AnswerOK
<1>4. apps[f[1]] \in Row
  BY <1>1, <1>3, Unfold DEF TypeOK, Rows, Existing
<1>5. OwnerOf[f[1]] = f[2] /\ StatusOf[f[1]] = apps[f[1]].status
  BY <1>1, <1>3 DEF OwnerOf, StatusOf, Existing
<1>6. f[3] \in Lifecycle!Reached(f[1])
  BY <1>1, <1>3, <1>4, <1>5 DEF Lifecycle!Reached, Row, Statuses
<1> QED BY <1>1, <1>5, <1>6 DEF Lifecycle!Facts, Statuses

\* The refinement mapping of a table with one row changed.
LEMMA StatusUpdated ==
    ASSUME NEW a \in Apps, NEW row \in Row, apps \in Rows,
           apps' = [apps EXCEPT ![a] = row]
    PROVE  StatusOf' = [StatusOf EXCEPT ![a] = row.status]
<1>1. apps'[a] = row /\ row # NoRow /\ \A x \in Apps \ {a} : apps'[x] = apps[x]
  BY ConstantsAssumption DEF Rows
<1>2. \A x \in Apps : StatusOf'[x] = [StatusOf EXCEPT ![a] = row.status][x]
  BY <1>1 DEF StatusOf
<1> QED BY <1>2 DEF StatusOf

\* The same for the abstract owners.
LEMMA OwnerUpdated ==
    ASSUME NEW a \in Apps, NEW row \in Row, apps \in Rows,
           apps' = [apps EXCEPT ![a] = row]
    PROVE  OwnerOf' = [OwnerOf EXCEPT ![a] = row.student]
<1>1. apps'[a] = row /\ row # NoRow /\ \A x \in Apps \ {a} : apps'[x] = apps[x]
  BY ConstantsAssumption DEF Rows
<1>2. \A x \in Apps : OwnerOf'[x] = [OwnerOf EXCEPT ![a] = row.student][x]
  BY <1>1 DEF OwnerOf
<1> QED BY <1>2 DEF OwnerOf

\* The endpoints, with their races, failures and crashes, implement the
\* lifecycle: one commit is one step of it, or none, and answers are reports.
THEOREM Refinement == Spec => ImplementsLifecycle
<1>1. Init => Lifecycle!Init
  <2> SUFFICES ASSUME Init PROVE Lifecycle!Init
    OBVIOUS
  <2>1. \A a \in Apps : apps[a] = NoRow \/ (apps[a] \in Row /\ apps[a].status = "DRAFT")
    BY DEF Init, Drafts
  <2>2. NoRow \notin Row /\ NoApp \notin Students
    BY ConstantsAssumption
  <2>3. StatusOf \in [Apps -> {"ABSENT", "DRAFT"}]
    BY <2>1 DEF StatusOf
  <2>4. OwnerOf \in [Apps -> Students \cup {NoApp}]
    BY <2>1 DEF OwnerOf, Row
  <2>5. \A a \in Apps : StatusOf[a] = "ABSENT" <=> OwnerOf[a] = NoApp
    BY <2>1, <2>2 DEF StatusOf, OwnerOf, Row
  <2>6. Reported = {}
    BY DEF Init, Reported
  <2> QED BY <2>3, <2>4, <2>5, <2>6 DEF Lifecycle!Init
<1>2. Inv /\ Inv' /\ [Next]_vars => [Lifecycle!Next]_(Lifecycle!vars)
  <2> SUFFICES ASSUME Inv, Inv', [Next]_vars
               PROVE  Lifecycle!Next \/ UNCHANGED <<StatusOf, OwnerOf, Reported>>
    BY DEF Lifecycle!vars
  <2>1. CASE apps' = apps
    <3>1. StatusOf' = StatusOf /\ OwnerOf' = OwnerOf
      BY <2>1 DEF StatusOf, OwnerOf
    <3>2. Reported' \subseteq (Lifecycle!Facts)'
      <4>1. Lifecycle!Truthful'
        BY ReportedFacts, PTL
      <4> QED BY <4>1 DEF Lifecycle!Truthful
    <3>3. (Lifecycle!Facts)' = Lifecycle!Facts
      BY <3>1 DEF Lifecycle!Facts, Lifecycle!Reached
    <3>4. Lifecycle!Report
      BY <3>1, <3>2, <3>3, ReportedMonotonic DEF Lifecycle!Report
    <3> QED BY <3>4 DEF Lifecycle!Next
  <2>2. CASE \E r \in Requests : /\ pc[r] = "refreshed" /\ apps' = Saved(r)
                                 /\ \A q \in Requests : pc'[q] = "done" => pc[q] = "done"
                                 /\ clock' = clock
    <3>1. PICK r \in Requests : /\ pc[r] = "refreshed" /\ apps' = Saved(r) /\ clock' = clock
                                /\ \A q \in Requests : pc'[q] = "done" => pc[q] = "done"
      BY <2>2
    <3>2. /\ app[r] \in Apps /\ written[r] \in Row /\ apps \in Rows
          /\ apps' = [apps EXCEPT ![app[r]] = written[r]] /\ ForwardStep
          /\ call[r].op = IF apps[app[r]] = NoRow THEN "create" ELSE "submit"
          /\ call[r].op = "submit" => written[r].status = "SUBMITTED"
          /\ call[r].op = "create" => written[r].status = "DRAFT"
      BY <3>1, CommittedVersion, Unfold DEF TypeOK
    <3>3. /\ NoRow \notin Row /\ written[r].student \in Students
          /\ apps'[app[r]] = written[r] /\ written[r] # NoRow
          /\ \A a \in Apps \ {app[r]} : apps'[a] = apps[a]
      BY <3>2, ConstantsAssumption DEF Row, Rows
    <3>4. Reported' = Reported
      <4>1. Reported' \subseteq Reported
        <5> SUFFICES ASSUME NEW f \in Reported' PROVE f \in Reported
          OBVIOUS
        <5>1. PICK q \in Requests :
                 /\ pc'[q] = "done" /\ call'[q].student = f[2]
                 /\ \/ body'[q][f[1]] # NoRow /\ body'[q][f[1]].status = f[3]
                    \/ code'[q] = "409" /\ app'[q] = f[1] /\ f[3] = "SUBMITTED"
          BY DEF Reported
        <5>2. /\ pc[q] = "done" /\ call'[q] = call[q] /\ app'[q] = app[q]
              /\ code'[q] = code[q] /\ body'[q] = body[q]
          BY <3>1, <5>1, DoneStays
        <5> QED BY <5>1, <5>2 DEF Reported
      <4> QED BY <4>1, ReportedMonotonic
    <3>5. CASE apps[app[r]] = NoRow
      <4>1. Lifecycle!Create(app[r], written[r].student)
        <5>1. StatusOf[app[r]] = "ABSENT"
          BY <3>2, <3>5 DEF StatusOf
        <5>2. StatusOf' = [StatusOf EXCEPT ![app[r]] = "DRAFT"]
          BY ZenonT(40), <3>2, <3>3, <3>5, StatusUpdated
        <5>3. OwnerOf' = [OwnerOf EXCEPT ![app[r]] = written[r].student]
          BY <3>2, <3>3, <3>5, OwnerUpdated
        <5> QED BY <3>4, <5>1, <5>2, <5>3 DEF Lifecycle!Create
      <4> QED BY <3>2, <3>3, <4>1 DEF Lifecycle!Next
    <3>6. CASE apps[app[r]] # NoRow
      <4>1. /\ written[r].status = "SUBMITTED" /\ apps[app[r]] \in Row
            /\ written[r].student = apps[app[r]].student
        BY <3>2, <3>3, <3>6 DEF Rows, ForwardStep, Existing, SameApplication
      <4>2. OwnerOf' = OwnerOf
        BY <3>3, <3>6, <4>1 DEF OwnerOf
      <4>3. StatusOf' = [StatusOf EXCEPT ![app[r]] = "SUBMITTED"]
        BY ZenonT(40), <3>2, <3>3, <3>6, <4>1, StatusUpdated
      <4>4. StatusOf[app[r]] = apps[app[r]].status
        BY <3>2, <3>6 DEF StatusOf
      <4>5. CASE apps[app[r]].status = "DRAFT"
        BY <3>2, <3>4, <4>2, <4>3, <4>4, <4>5 DEF Lifecycle!Submit, Lifecycle!Next
      <4>6. CASE apps[app[r]].status = "SUBMITTED"
        <5>1. StatusOf' = StatusOf
          BY <4>3, <4>4, <4>6 DEF StatusOf
        <5> QED BY <3>4, <4>2, <5>1
      <4> QED BY <4>1, <4>5, <4>6 DEF Row, Statuses
    <3> QED BY <3>5, <3>6
  <2> QED BY <2>1, <2>2, TableSteps
<1> QED BY <1>1, <1>2, Invariance, PTL DEF Spec, ImplementsLifecycle, Lifecycle!Spec
=============================================================================
