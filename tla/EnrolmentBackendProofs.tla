------------------------ MODULE EnrolmentBackendProofs ------------------------
(***************************************************************************)
(* Proofs about the composition: it implements both of its parts, so that  *)
(* what is proved of each of them holds of the two together, and what ties *)
(* them together, the caller and the programs on offer, is kept.           *)
(*                                                                         *)
(* The theorems of the parts are those of AuthenticationProofs and of      *)
(* EnrolmentApplicationsProofs, instantiated; an instance of a proof       *)
(* module defines the part anew, so two lemmas say that it is the same.    *)
(***************************************************************************)
EXTENDS EnrolmentBackend, TLAPS

AuthFacts == INSTANCE AuthenticationProofs WITH
    Passwords <- {}, StaffRoles <- {}, Second <- 1, Lifetime <- 1,
    EarlierTokens <- Tokens, MaxClock <- 0,
    clock <- instant, pc <- guard, call <- use, mem <- found, code <- refusal,
    answer <- issued

EnrolmentFacts == INSTANCE EnrolmentApplicationsProofs

-----------------------------------------------------------------------------
(* The composition implements its parts. *)

LEMMA SameEnrolment ==
    /\ Enrolment!Init <=> EnrolmentFacts!Init
    /\ Enrolment!Next <=> EnrolmentFacts!Next
BY DEF
    Enrolment!Never, EnrolmentFacts!Never, Enrolment!Statuses,
    EnrolmentFacts!Statuses, Enrolment!Row, EnrolmentFacts!Row, Enrolment!Ops,
    EnrolmentFacts!Ops, Enrolment!Calls, EnrolmentFacts!Calls, Enrolment!Codes,
    EnrolmentFacts!Codes, Enrolment!Places, EnrolmentFacts!Places,
    Enrolment!Rows, EnrolmentFacts!Rows, Enrolment!NoRows,
    EnrolmentFacts!NoRows, Enrolment!Existing, EnrolmentFacts!Existing,
    Enrolment!Visible, EnrolmentFacts!Visible, Enrolment!MaySubmit,
    EnrolmentFacts!MaySubmit, Enrolment!Submitted, EnrolmentFacts!Submitted,
    Enrolment!NewRow, EnrolmentFacts!NewRow, Enrolment!UpdatedRow,
    EnrolmentFacts!UpdatedRow, Enrolment!Locked, EnrolmentFacts!Locked,
    Enrolment!Fresh, EnrolmentFacts!Fresh, Enrolment!Offered,
    EnrolmentFacts!Offered, Enrolment!Saved, EnrolmentFacts!Saved,
    Enrolment!Answer, EnrolmentFacts!Answer, Enrolment!ReportedSubmitted,
    EnrolmentFacts!ReportedSubmitted, Enrolment!Arrive, EnrolmentFacts!Arrive,
    Enrolment!Receive, EnrolmentFacts!Receive, Enrolment!At, EnrolmentFacts!At,
    Enrolment!List, EnrolmentFacts!List, Enrolment!Get, EnrolmentFacts!Get,
    Enrolment!CheckProgram, EnrolmentFacts!CheckProgram, Enrolment!Insert,
    EnrolmentFacts!Insert, Enrolment!LoadDraft, EnrolmentFacts!LoadDraft,
    Enrolment!RefuseSubmit, EnrolmentFacts!RefuseSubmit, Enrolment!StampSubmit,
    EnrolmentFacts!StampSubmit, Enrolment!UpdateRow, EnrolmentFacts!UpdateRow,
    Enrolment!Refresh, EnrolmentFacts!Refresh, Enrolment!SuccessCode,
    EnrolmentFacts!SuccessCode, Enrolment!Commit, EnrolmentFacts!Commit,
    Enrolment!CommitUnconfirmed, EnrolmentFacts!CommitUnconfirmed,
    Enrolment!Respond, EnrolmentFacts!Respond, Enrolment!Handle,
    EnrolmentFacts!Handle, Enrolment!Running, EnrolmentFacts!Running,
    Enrolment!Fail, EnrolmentFacts!Fail, Enrolment!Crash, EnrolmentFacts!Crash,
    Enrolment!SetActive, EnrolmentFacts!SetActive, Enrolment!Tick,
    EnrolmentFacts!Tick, Enrolment!Drafts, EnrolmentFacts!Drafts,
    Enrolment!Init, EnrolmentFacts!Init, Enrolment!Next, EnrolmentFacts!Next

LEMMA SameEnrolmentInvariants ==
    /\ Enrolment!TypeOK <=> EnrolmentFacts!TypeOK
    /\ Enrolment!SessionsAgreeWithTable <=> EnrolmentFacts!SessionsAgreeWithTable
BY DEF
    Enrolment!TypeOK, EnrolmentFacts!TypeOK, Enrolment!SessionsAgreeWithTable,
    EnrolmentFacts!SessionsAgreeWithTable, Enrolment!Statuses,
    EnrolmentFacts!Statuses, Enrolment!Row, EnrolmentFacts!Row, Enrolment!Ops,
    EnrolmentFacts!Ops, Enrolment!Calls, EnrolmentFacts!Calls, Enrolment!Codes,
    EnrolmentFacts!Codes, Enrolment!Places, EnrolmentFacts!Places,
    Enrolment!Rows, EnrolmentFacts!Rows, Enrolment!NoRows,
    EnrolmentFacts!NoRows, Enrolment!Existing, EnrolmentFacts!Existing,
    Enrolment!Never, EnrolmentFacts!Never, Enrolment!TableOK,
    EnrolmentFacts!TableOK, Enrolment!SubmissionStamped,
    EnrolmentFacts!SubmissionStamped, Enrolment!RequestOK,
    EnrolmentFacts!RequestOK, Enrolment!RowLockExclusive,
    EnrolmentFacts!RowLockExclusive, Enrolment!SessionOK,
    EnrolmentFacts!SessionOK, Enrolment!WorkOK, EnrolmentFacts!WorkOK,
    Enrolment!AnswerOK, EnrolmentFacts!AnswerOK, Enrolment!KnownOK,
    EnrolmentFacts!KnownOK, Enrolment!OwnVersion, EnrolmentFacts!OwnVersion,
    Enrolment!SubmitVersion, EnrolmentFacts!SubmitVersion,
    Enrolment!DraftVersion, EnrolmentFacts!DraftVersion,
    Enrolment!SameApplication, EnrolmentFacts!SameApplication,
    Enrolment!Reading, EnrolmentFacts!Reading, Enrolment!Holding,
    EnrolmentFacts!Holding

LEMMA SameAuth ==
    /\ Auth!Init <=> AuthFacts!Init
    /\ Auth!Next <=> AuthFacts!Next
BY DEF
    Auth!Roles, AuthFacts!Roles, Auth!Account, AuthFacts!Account, Auth!Token,
    AuthFacts!Token, Auth!Logins, AuthFacts!Logins, Auth!Endpoints,
    AuthFacts!Endpoints, Auth!Expiry, AuthFacts!Expiry, Auth!Expired,
    AuthFacts!Expired, Auth!Accepted, AuthFacts!Accepted, Auth!Verified,
    AuthFacts!Verified, Auth!RolesOf, AuthFacts!RolesOf, Auth!Allowed,
    AuthFacts!Allowed, Auth!Subject, AuthFacts!Subject, Auth!HasSubject,
    AuthFacts!HasSubject, Auth!Finish, AuthFacts!Finish, Auth!Goto,
    AuthFacts!Goto, Auth!World, AuthFacts!World, Auth!Receive,
    AuthFacts!Receive, Auth!RefuseBody, AuthFacts!RefuseBody, Auth!LookUp,
    AuthFacts!LookUp, Auth!RefuseLogin, AuthFacts!RefuseLogin, Auth!IssueToken,
    AuthFacts!IssueToken, Auth!RefuseToken, AuthFacts!RefuseToken,
    Auth!AcceptToken, AuthFacts!AcceptToken, Auth!LoadUser, AuthFacts!LoadUser,
    Auth!LoadRoles, AuthFacts!LoadRoles, Auth!LoadStudent,
    AuthFacts!LoadStudent, Auth!Enter, AuthFacts!Enter, Auth!Fail,
    AuthFacts!Fail, Auth!Handle, AuthFacts!Handle, Auth!SetAccount,
    AuthFacts!SetAccount, Auth!Tick, AuthFacts!Tick, Auth!Quiet,
    AuthFacts!Quiet, Auth!Init, AuthFacts!Init, Auth!Next, AuthFacts!Next,
    Auth!vars, AuthFacts!vars

LEMMA SameAuthInvariants ==
    /\ Auth!TypeOK <=> AuthFacts!TypeOK
    /\ Auth!GrantsAreFounded <=> AuthFacts!GrantsAreFounded
BY DEF
    Auth!TypeOK, AuthFacts!TypeOK, Auth!GrantsAreFounded,
    AuthFacts!GrantsAreFounded, Auth!GrantFounded, AuthFacts!GrantFounded,
    Auth!ActiveAccount, AuthFacts!ActiveAccount, Auth!RolesOf,
    AuthFacts!RolesOf, Auth!Roles, AuthFacts!Roles, Auth!Account,
    AuthFacts!Account, Auth!Token, AuthFacts!Token, Auth!Logins,
    AuthFacts!Logins, Auth!Endpoints, AuthFacts!Endpoints, Auth!Uses,
    AuthFacts!Uses, Auth!GoodToken, AuthFacts!GoodToken, Auth!Places,
    AuthFacts!Places, Auth!Codes, AuthFacts!Codes

\* Every behaviour of the composition is one of the application endpoints: the
\* dependencies only decide when and for whom a request is received.
THEOREM ImplementsEnrolment == Spec => Enrolment!Spec
<1>1. Init => Enrolment!Init
  BY DEF Init
<1>2. [Next]_vars => [Enrolment!Next]_(Enrolment!vars)
  BY DEF Next, vars, appVars, Arrive, Guard, HandOver, RefuseInput, Serve, Handle, Fail,
     SetAccount, SetActive, Tick, Enrolment!Next, Enrolment!vars
<1> QED BY <1>1, <1>2, PTL DEF Spec, Enrolment!Spec

\* ... and one of the dependency chain, whatever the handlers do.
THEOREM ImplementsAuthentication == Spec => Auth!Spec
<1>1. Init => Auth!Init
  BY DEF Init
<1>2. [Next]_vars => [Auth!Next]_(Auth!vars)
  BY DEF Next, vars, guardVars, Arrive, Guard, HandOver, RefuseInput, Serve, Handle, Fail,
     SetAccount, SetActive, Tick, Auth!Next, Auth!Handle, Auth!vars
<1> QED BY <1>1, <1>2, PTL DEF Spec, Auth!Spec

\* The invariants of the parts, as the lemmas below use them.
Parts ==
    /\ Enrolment!TypeOK /\ Enrolment!SessionsAgreeWithTable
    /\ Auth!TypeOK /\ Auth!GrantsAreFounded

LEMMA PartsHold == Spec => []Parts
<1>1. [Enrolment!Next]_(Enrolment!vars) => [EnrolmentFacts!Next]_(EnrolmentFacts!vars)
  BY SameEnrolment DEF Enrolment!vars, EnrolmentFacts!vars
<1>2. Enrolment!Spec => EnrolmentFacts!Spec
  BY SameEnrolment, <1>1, PTL DEF Enrolment!Spec, EnrolmentFacts!Spec
<1>3. [Auth!Next]_(Auth!vars) => [AuthFacts!Next]_(AuthFacts!vars)
  BY SameAuth DEF Auth!vars, AuthFacts!vars
<1>4. Auth!Spec => AuthFacts!Spec
  BY SameAuth, <1>3, PTL DEF Auth!Spec, AuthFacts!Spec
<1>5. EnrolmentFacts!ConstantsAssumption /\ AuthFacts!ConstantsAssumption
  BY PartsAssumption
     DEF Enrolment!ConstantsAssumption, EnrolmentFacts!ConstantsAssumption,
         Enrolment!Row, EnrolmentFacts!Row, Enrolment!Statuses,
         EnrolmentFacts!Statuses, Enrolment!Never, EnrolmentFacts!Never,
         Auth!ConstantsAssumption, AuthFacts!ConstantsAssumption,
         Auth!GoodToken, AuthFacts!GoodToken, Auth!Token, AuthFacts!Token,
         Auth!Account, AuthFacts!Account, Auth!Roles, AuthFacts!Roles,
         Auth!Logins, AuthFacts!Logins, Auth!Uses, AuthFacts!Uses,
         Auth!Endpoints, AuthFacts!Endpoints
<1>6. EnrolmentFacts!Spec => []EnrolmentFacts!TypeOK
  BY EnrolmentFacts!TypeCorrect, <1>5
<1>7. EnrolmentFacts!Spec => []EnrolmentFacts!SessionsAgreeWithTable
  BY EnrolmentFacts!SessionsAgree, <1>5
<1>8. AuthFacts!Spec => []AuthFacts!TypeOK
  BY AuthFacts!TypeCorrect, <1>5
<1>9. AuthFacts!Spec => []AuthFacts!GrantsAreFounded
  BY AuthFacts!GrantsFounded, <1>5
<1>10. /\ EnrolmentFacts!TypeOK /\ EnrolmentFacts!SessionsAgreeWithTable
       /\ AuthFacts!TypeOK /\ AuthFacts!GrantsAreFounded
       => Parts
  BY SameEnrolmentInvariants, SameAuthInvariants DEF Parts
<1> QED BY ImplementsEnrolment, ImplementsAuthentication, <1>2, <1>4, <1>6, <1>7, <1>8,
           <1>9, <1>10, PTL

-----------------------------------------------------------------------------
(* What ties the parts together. *)

\* A request that a handler deals with has been let through for its caller, who
\* is a student with an active account; and while a request is under way, the
\* programs that are active are among those it may have been offered.
Linked(r) ==
    /\ guard[r] # "idle" => use[r].endpoint = "student" /\ active \subseteq offered[r]
    /\ pc[r] # "idle" => /\ guard[r] = "done"
                         /\ call[r].student = use[r].token.user
                         /\ Admitted(r)
    /\ pc[r] = "loaded" /\ call[r].op = "create" => call[r].program \in offered[r]
    /\ pc[r] \in {"flushed", "refreshed"} /\ call[r].op = "create" =>
          written[r].program \in offered[r]

Link ==
    /\ offered \in [Requests -> SUBSET Programs]
    /\ \A r \in Requests : Linked(r)

\* A request that a step leaves alone, while the account may change (which adds
\* to what it has seen) and programs too (which adds to what it is offered).
LEMMA KeptLink ==
    ASSUME NEW s \in Requests, Linked(s),
           guard'[s] = guard[s], use'[s] = use[s], refusal'[s] = refusal[s],
           pc'[s] = pc[s], call'[s] = call[s], written'[s] = written[s],
           linked' = linked, seen[s] \subseteq seen'[s],
           offered[s] \subseteq offered'[s],
           guard[s] # "idle" => active' \subseteq offered'[s]
    PROVE  Linked(s)'
BY DEF Linked, Admitted

\* The dependencies change nothing of a request that has been handed over.
LEMMA GuardLink ==
    ASSUME Parts, Link, NEW r \in Requests,
           Guard(r) \/ RefuseInput(r) \/ (Auth!Fail(r) /\ UNCHANGED <<appVars, offered>>)
    PROVE  Link'
<1>1. guard[r] \notin {"idle", "done"}
  BY DEF Guard, RefuseInput, Auth!RefuseBody, Auth!RefuseToken, Auth!AcceptToken,
     Auth!LoadUser, Auth!LoadRoles, Auth!LoadStudent, Auth!Enter, Auth!Fail
<1>2. UNCHANGED <<appVars, offered, use, linked, seen>>
  BY DEF Guard, RefuseInput, Auth!RefuseBody, Auth!RefuseToken, Auth!AcceptToken,
     Auth!LoadUser, Auth!LoadRoles, Auth!LoadStudent, Auth!Enter, Auth!Fail, Auth!World
<1>3. \A s \in Requests \ {r} : guard'[s] = guard[s] /\ refusal'[s] = refusal[s]
  BY DEF Parts, Auth!TypeOK, Guard, RefuseInput, Auth!RefuseBody, Auth!RefuseToken,
     Auth!AcceptToken, Auth!LoadUser, Auth!LoadRoles, Auth!LoadStudent, Auth!Enter,
     Auth!Fail, Auth!Finish, Auth!Goto
<1>4. ASSUME NEW s \in Requests \ {r} PROVE Linked(s)'
  BY <1>2, <1>3, KeptLink DEF Link, Linked, appVars
<1>5. Linked(r)'
  BY <1>1, <1>2 DEF Link, Linked, appVars
<1> QED BY <1>2, <1>4, <1>5 DEF Link

LEMMA ArriveLink ==
    ASSUME Parts, Link, NEW r \in Requests, Arrive(r)
    PROVE  Link'
<1>1. guard[r] = "idle" /\ pc[r] = "idle" /\ UNCHANGED <<appVars, linked>>
  BY DEF Arrive, Auth!Receive, Auth!World, Link, Linked
<1>2. /\ offered' = [offered EXCEPT ![r] = active] /\ offered'[r] = active
      /\ use'[r].endpoint = "student" /\ active \subseteq Programs
  BY DEF Arrive, Link, Parts, Enrolment!TypeOK
<1>3. ASSUME NEW s \in Requests \ {r} PROVE Linked(s)'
  <2>1. /\ guard'[s] = guard[s] /\ use'[s] = use[s] /\ refusal'[s] = refusal[s]
        /\ seen'[s] = seen[s] /\ offered'[s] = offered[s]
    BY <1>2 DEF Parts, Auth!TypeOK, Arrive, Auth!Receive, Auth!Goto, Link
  <2> QED BY <1>1, <2>1, KeptLink DEF Link, Linked, appVars
<1>4. Linked(r)'
  BY <1>1, <1>2 DEF Linked, appVars
<1> QED BY <1>2, <1>3, <1>4 DEF Link

\* Whoever is let in has what the grants of the dependency chain promise.
LEMMA HandOverLink ==
    ASSUME Parts, Parts', Link, NEW r \in Requests, HandOver(r)
    PROVE  Link'
<1>1. /\ guard[r] = "entering" /\ UNCHANGED <<use, linked, seen, offered, active>>
      /\ guard' = [guard EXCEPT ![r] = "done"] /\ guard'[r] = "done" /\ refusal'[r] = "OK"
  BY DEF HandOver, Auth!Enter, Auth!World, Auth!Finish, Parts, Auth!TypeOK,
     Enrolment!Receive, Enrolment!Arrive
<1>2. /\ pc[r] = "idle" /\ pc'[r] = "received" /\ call'[r].student = use[r].token.user
  BY DEF HandOver, Enrolment!Receive, Enrolment!Arrive, Parts, Enrolment!TypeOK, CallerOf
<1>3. use[r].endpoint = "student"
  BY <1>1 DEF Link, Linked
<1>4. Admitted(r)'
  <2>1. Auth!GrantFounded(r)'
    BY <1>1, <1>3 DEF Parts, Auth!GrantsAreFounded
  <2> QED BY <1>1, <1>3, <2>1
          DEF Auth!GrantFounded, Auth!ActiveAccount, Auth!RolesOf, Admitted
<1>5. Linked(r)'
  BY <1>1, <1>2, <1>3, <1>4 DEF Linked, Link
<1>6. ASSUME NEW s \in Requests \ {r} PROVE Linked(s)'
  <2>1. /\ guard'[s] = guard[s] /\ refusal'[s] = refusal[s] /\ pc'[s] = pc[s]
        /\ call'[s] = call[s] /\ written'[s] = written[s]
    BY DEF Parts, Auth!TypeOK, Enrolment!TypeOK, HandOver, Auth!Enter, Auth!Finish,
       Enrolment!Receive, Enrolment!Arrive
  <2> QED BY <1>1, <2>1, KeptLink DEF Link, Linked
<1> QED BY <1>1, <1>5, <1>6 DEF Link

LEMMA ServeLink ==
    ASSUME Parts, Link, NEW r \in Requests,
           /\ Enrolment!Handle(r) \/ Enrolment!Fail(r) \/ Enrolment!CommitUnconfirmed(r)
           /\ UNCHANGED <<guardVars, offered>>
    PROVE  Link'
<1>1. UNCHANGED <<guard, use, refusal, linked, seen, offered, active, call>>
  BY DEF guardVars, Enrolment!Handle, Enrolment!Fail, Enrolment!CommitUnconfirmed,
     Enrolment!List, Enrolment!Get, Enrolment!CheckProgram, Enrolment!Insert,
     Enrolment!LoadDraft, Enrolment!RefuseSubmit, Enrolment!StampSubmit,
     Enrolment!UpdateRow, Enrolment!Refresh, Enrolment!Commit, Enrolment!Respond
<1>2. ASSUME NEW s \in Requests \ {r} PROVE Linked(s)'
  <2>1. pc'[s] = pc[s] /\ written'[s] = written[s]
    BY DEF Parts, Enrolment!TypeOK, Enrolment!Answer,
     Enrolment!Handle, Enrolment!Fail, Enrolment!CommitUnconfirmed,
     Enrolment!List, Enrolment!Get, Enrolment!CheckProgram, Enrolment!Insert,
     Enrolment!LoadDraft, Enrolment!RefuseSubmit, Enrolment!StampSubmit,
     Enrolment!UpdateRow, Enrolment!Refresh, Enrolment!Commit, Enrolment!Respond
  <2> QED BY <1>1, <2>1, KeptLink DEF Link, Linked
<1>3. /\ pc[r] # "idle" /\ pc'[r] # "idle"
      /\ pc'[r] = "loaded" /\ call[r].op = "create" =>
            call[r].program \in active \/ pc[r] = "loaded"
      /\ pc'[r] \in {"flushed", "refreshed"} /\ call[r].op = "create" =>
            \/ pc[r] = "loaded" /\ written'[r].program = call[r].program
            \/ pc[r] \in {"flushed", "refreshed"} /\ written'[r] = written[r]
  BY DEF Parts, Enrolment!TypeOK, Enrolment!Answer, Enrolment!At, Enrolment!Running,
     Enrolment!Offered, Enrolment!NewRow,
     Enrolment!Handle, Enrolment!Fail, Enrolment!CommitUnconfirmed,
     Enrolment!List, Enrolment!Get, Enrolment!CheckProgram, Enrolment!Insert,
     Enrolment!LoadDraft, Enrolment!RefuseSubmit, Enrolment!StampSubmit,
     Enrolment!UpdateRow, Enrolment!Refresh, Enrolment!Commit, Enrolment!Respond
<1>4. Linked(r)'
  BY <1>1, <1>3 DEF Link, Linked, Admitted
<1> QED BY <1>1, <1>2, <1>4 DEF Link

LEMMA OutsideLink ==
    ASSUME Parts, Link,
           (\E u \in Users : SetAccount(u)) \/ (\E p \in Programs : SetActive(p)) \/ Tick
           \/ UNCHANGED vars
    PROVE  Link'
<1>1. ASSUME NEW u \in Users, SetAccount(u)
      PROVE  Link'
  <2>1. offered' = offered
    BY <1>1 DEF SetAccount
  <2>2. ASSUME NEW s \in Requests PROVE Linked(s)'
    BY <1>1, KeptLink DEF SetAccount, Auth!SetAccount, Link, Linked, appVars
  <2> QED BY <2>1, <2>2 DEF Link
<1>2. ASSUME NEW p \in Programs, SetActive(p)
      PROVE  Link'
  <2>1. active' \subseteq Programs
    BY <1>2 DEF SetActive, Enrolment!SetActive, Parts, Enrolment!TypeOK
  <2>2. offered' \in [Requests -> SUBSET Programs]
    BY <1>2, <2>1 DEF SetActive, Link
  <2>3. ASSUME NEW s \in Requests PROVE Linked(s)'
    BY <1>2, KeptLink DEF SetActive, Enrolment!SetActive, guardVars, Link
  <2> QED BY <2>2, <2>3 DEF Link
<1>3. ASSUME Tick \/ UNCHANGED vars
      PROVE  Link'
  <2>1. offered' = offered
    BY <1>3 DEF Tick, vars
  <2>2. ASSUME NEW s \in Requests PROVE Linked(s)'
    BY <1>3, KeptLink DEF Tick, Enrolment!Tick, guardVars, vars, appVars, Link, Linked
  <2> QED BY <2>1, <2>2 DEF Link
<1> QED BY <1>1, <1>2, <1>3

\* The two parts stay tied together.
THEOREM LinkKept == Spec => []Link
<1>1. Init => Link
  BY DEF Init, Auth!Init, Enrolment!Init, Link, Linked
<1>2. Parts /\ Parts' /\ Link /\ [Next]_vars => Link'
  BY GuardLink, ArriveLink, HandOverLink, ServeLink, OutsideLink
     DEF Next, Handle, Fail, Serve
<1> QED BY <1>1, <1>2, PartsHold, PTL DEF Spec

-----------------------------------------------------------------------------
\* Only a handler's commit changes the table.
LEMMA WhoCommits ==
    ASSUME Parts, [Next]_vars, NEW a \in Apps, apps'[a] # apps[a]
    PROVE  \E r \in Requests :
              /\ pc[r] = "refreshed" /\ pc'[r] = "answering" /\ app[r] = a
              /\ apps'[a] = written[r] /\ UNCHANGED <<guardVars, offered>>
              /\ call[r].op \in {"create", "submit"}
<1>1. PICK r \in Requests :
          /\ Enrolment!Commit(r) \/ Enrolment!CommitUnconfirmed(r)
          /\ UNCHANGED <<guardVars, offered>>
  BY DEF Next, vars, appVars, Arrive, Guard, HandOver, RefuseInput, Serve, Handle, Fail,
     SetAccount, SetActive, Tick, Enrolment!Receive, Enrolment!Arrive, Enrolment!SetActive,
     Enrolment!Tick, Enrolment!Handle, Enrolment!Fail, Enrolment!List, Enrolment!Get,
     Enrolment!CheckProgram, Enrolment!Insert, Enrolment!LoadDraft,
     Enrolment!RefuseSubmit, Enrolment!StampSubmit, Enrolment!UpdateRow,
     Enrolment!Refresh, Enrolment!Respond
<1>2. /\ pc[r] = "refreshed" /\ pc'[r] = "answering"
      /\ apps' = [apps EXCEPT ![app[r]] = written[r]]
  BY <1>1 DEF Enrolment!Commit, Enrolment!CommitUnconfirmed, Enrolment!Answer,
     Enrolment!Saved, Parts, Enrolment!TypeOK
<1>3. app[r] = a /\ apps'[a] = written[r]
  BY <1>2 DEF Parts, Enrolment!TypeOK, Enrolment!Rows
<1>4. call[r].op \in {"create", "submit"}
  BY <1>2 DEF Parts, Enrolment!SessionsAgreeWithTable, Enrolment!RequestOK,
     Enrolment!SessionOK, Enrolment!Holding
<1> QED BY <1>1, <1>2, <1>3, <1>4

\* The version that a request holds is one of its caller's own application, a
\* new one or one that is in the table.
LEMMA OwnWork ==
    ASSUME Parts, NEW r \in Requests, pc[r] = "refreshed",
           call[r].op \in {"create", "submit"}
    PROVE  /\ written[r].student = call[r].student
           /\ call[r].op = "submit" => apps[app[r]] # NoRow
<1>1. Enrolment!WorkOK(r)
  BY DEF Parts, Enrolment!SessionsAgreeWithTable, Enrolment!RequestOK
<1>2. CASE call[r].op = "create"
  BY <1>1, <1>2 DEF Enrolment!WorkOK, Enrolment!Holding, Enrolment!DraftVersion
<1>3. CASE call[r].op = "submit"
  BY <1>1, <1>3 DEF Enrolment!WorkOK, Enrolment!Holding, Enrolment!SubmitVersion,
     Enrolment!OwnVersion, Enrolment!SameApplication, Enrolment!Existing
<1> QED BY <1>2, <1>3

\* Whatever is committed was asked for by an admitted student, about an
\* application of his own.
THEOREM AdmittedCommits == Spec => OnlyAdmittedCommit
<1>1. ASSUME Parts, Link, [Next]_vars
      PROVE  [AdmittedStep]_vars
  <2> SUFFICES ASSUME NEW a \in Apps, apps'[a] # apps[a]
               PROVE  \E r \in Requests :
                         /\ pc[r] = "refreshed" /\ pc'[r] = "answering" /\ app[r] = a
                         /\ Admitted(r) /\ apps'[a].student = use[r].token.user
    BY DEF AdmittedStep
  <2>1. PICK r \in Requests :
            /\ pc[r] = "refreshed" /\ pc'[r] = "answering" /\ app[r] = a
            /\ apps'[a] = written[r] /\ UNCHANGED <<guardVars, offered>>
            /\ call[r].op \in {"create", "submit"}
    BY <1>1, WhoCommits
  <2>2. Admitted(r) /\ call[r].student = use[r].token.user
    BY <1>1, <2>1 DEF Link, Linked
  <2>3. written[r].student = call[r].student
    BY <1>1, <2>1, OwnWork
  <2> QED BY <2>1, <2>2, <2>3
<1> QED BY <1>1, PartsHold, LinkKept, PTL DEF Spec, OnlyAdmittedCommit

\* A draft appears only for a program that was on offer during its request.
THEOREM DraftsOffered == Spec => DraftsOfOfferedPrograms
<1>1. ASSUME Parts, Link, [Next]_vars
      PROVE  [DraftStep]_vars
  <2> SUFFICES ASSUME NEW a \in Apps, apps[a] = NoRow, apps'[a] # NoRow
               PROVE  \E r \in Requests :
                         /\ pc[r] = "refreshed" /\ pc'[r] = "answering"
                         /\ call[r].op = "create" /\ app[r] = a
                         /\ apps'[a].program \in offered[r]
    BY DEF DraftStep
  <2>1. PICK r \in Requests :
            /\ pc[r] = "refreshed" /\ pc'[r] = "answering" /\ app[r] = a
            /\ apps'[a] = written[r] /\ UNCHANGED <<guardVars, offered>>
            /\ call[r].op \in {"create", "submit"}
    BY <1>1, WhoCommits
  <2>2. call[r].op = "create"
    BY <1>1, <2>1, OwnWork
  <2>3. written[r].program \in offered[r]
    BY <1>1, <2>1, <2>2 DEF Link, Linked
  <2> QED BY <2>1, <2>2, <2>3
<1> QED BY <1>1, PartsHold, LinkKept, PTL DEF Spec, DraftsOfOfferedPrograms

\* An answer shows applications of the user whose token came with the request.
THEOREM AnswersOwn == Spec => []AnswersAreTheCallers
<1>1. ASSUME Parts, Link PROVE AnswersAreTheCallers
  <2> SUFFICES ASSUME NEW r \in Requests, NEW a \in Apps, body[r][a] # NoRow
               PROVE  Admitted(r) /\ body[r][a].student = use[r].token.user
    BY DEF AnswersAreTheCallers
  <2>1. Enrolment!AnswerOK(r)
    BY <1>1 DEF Parts, Enrolment!SessionsAgreeWithTable, Enrolment!RequestOK
  <2>2. pc[r] # "idle"
    BY <2>1 DEF Enrolment!AnswerOK, Enrolment!NoRows
  <2>3. body[r][a].student = call[r].student
    BY <2>1 DEF Enrolment!AnswerOK, Enrolment!SameApplication
  <2> QED BY <1>1, <2>2, <2>3 DEF Link, Linked
<1> QED BY <1>1, PartsHold, LinkKept, PTL
=============================================================================
