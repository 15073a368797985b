------------------------- MODULE AuthenticationProofs -------------------------
(***************************************************************************)
(* Proofs about Authentication, for any number of requests, users, roles   *)
(* and tokens and any length of a second: grants and refusals are founded, *)
(* tokens are earned and live as long as promised.                         *)
(*                                                                         *)
(* The inductive invariant Inv says of every request what its place lets   *)
(* one conclude about the states of the account it has met.                *)
(***************************************************************************)
EXTENDS Authentication, TLAPS

Calls == Logins \cup Uses

\* The guard that r has passed, by roles loaded during r.
GuardPassed(r) ==
    /\ \E a \in seen[r] : ActiveAccount(a)
    /\ \E a \in seen[r] : roles[r] = RolesOf(a) /\ Allowed(call[r].endpoint, roles[r])

\* Where a request is, and what has been found out by then.
PlaceOK(r) ==
    /\ pc[r] = "idle" => call[r] = NoCall /\ checkedAt[r] = 0
    /\ pc[r] # "done" => code[r] = "none"
    /\ pc[r] \in {"looking_up", "verifying"} => call[r].endpoint = "login"
    /\ pc[r] = "verifying" => mem[r] \in seen[r]
    /\ pc[r] \in {"token", "user", "roles", "student", "entering"} =>
          call[r].endpoint # "login"
    /\ pc[r] \in {"user", "roles", "student", "entering"} => HasSubject(call[r])
    /\ pc[r] = "roles" => \E a \in seen[r] : ActiveAccount(a)
    /\ pc[r] \in {"student", "entering"} =>
          GuardPassed(r) /\ call[r].endpoint \in {"student", "staff"}
    /\ pc[r] = "student" => call[r].endpoint = "student"
    /\ pc[r] = "entering" /\ call[r].endpoint = "student" => call[r].token.user \in linked

\* The account as it is now is among those that a request under way has seen.
SeenOK(r) ==
    pc[r] \notin {"idle", "done"} /\ HasSubject(call[r]) =>
        accounts[Subject(call[r])] \in seen[r]

\* The token of a call is one that was held, and when it was checked.
CheckOK(r) ==
    call[r] # NoCall /\ call[r].endpoint # "login" /\ HasSubject(call[r]) =>
        /\ GoodToken(call[r].token)
        /\ pc[r] \in {"idle", "token"} => checkedAt[r] = 0
        /\ pc[r] \notin {"idle", "token"} /\ code[r] # "TOKEN_EXPIRED" =>
              checkedAt[r] = 0 \/ checkedAt[r] < call[r].token.exp
        /\ code[r] = "TOKEN_EXPIRED" => call[r].token.exp <= checkedAt[r]

\* What an answer rests on.
AnswerOK(r) ==
    /\ code[r] \in {"OK", "VALIDATION_ERROR"} /\ call[r].endpoint # "login" =>
          GrantFounded(r)
    /\ RefusalFounded(r)

RequestOK(r) == PlaceOK(r) /\ SeenOK(r) /\ CheckOK(r) /\ AnswerOK(r)

Inv ==
    /\ TypeOK
    /\ call \in [Requests -> Calls \cup {NoCall}]
    /\ \A r \in Requests : RequestOK(r)
    /\ TokensAreEarned

USE ConstantsAssumption

-----------------------------------------------------------------------------
(* Tokens. *)

\* Cutting to whole seconds takes off less than one.
LEMMA CutToSecond ==
    ASSUME NEW n \in Nat
    PROVE  /\ (n \div Second) * Second \in Nat
           /\ (n \div Second) * Second <= n
           /\ (n \div Second) * Second + Second > n
<1>1. n \div Second \in Nat /\ n % Second \in 0 .. Second - 1
  OBVIOUS
<1>2. n = Second * (n \div Second) + (n % Second)
  OBVIOUS
<1> QED BY <1>1, <1>2

LEMMA IssuedTokenGood ==
    ASSUME NEW u \in Users, NEW now \in Nat
    PROVE  GoodToken([user |-> u, issued |-> now, exp |-> Expiry(now)])
<1>1. now + Lifetime * Second \in Nat
  OBVIOUS
<1> QED BY <1>1, CutToSecond DEF GoodToken, Token, Expiry

-----------------------------------------------------------------------------
LEMMA InitInv == Init => Inv
<1> SUFFICES ASSUME Init PROVE Inv
  OBVIOUS
<1>1. TypeOK
  BY DEF Init, TypeOK, Places, Codes
<1>2. \A r \in Requests : RequestOK(r)
  BY DEF Init, RequestOK, PlaceOK, SeenOK, CheckOK, AnswerOK, RefusalFounded
<1>3. TokensAreEarned
  BY DEF Init, TokensAreEarned
<1> QED BY <1>1, <1>2, <1>3 DEF Inv, Init

\* What a request of each kind is.
LEMMA CallType ==
    ASSUME Inv, NEW r \in Requests, pc[r] # "idle"
    PROVE  /\ call[r] \in Calls /\ call[r] # NoCall
           /\ call[r].endpoint = "login" => call[r] \in Logins /\ HasSubject(call[r])
           /\ call[r].endpoint # "login" => call[r] \in Uses
           /\ HasSubject(call[r]) => Subject(call[r]) \in Users
<1>1. call[r] \in Calls
  BY DEF Inv, TypeOK, Calls
<1>2. \A c \in Calls : c # NoCall
  BY DEF Calls, ConstantsAssumption
<1>3. \A c \in Uses : c.endpoint # "login"
  BY DEF Uses, Endpoints
<1>4. \A c \in Logins : c.endpoint = "login" /\ c.user \in Users
  BY DEF Logins
<1>5. \A c \in Uses : c.token \notin {NoToken, Forged} => c.token.user \in Users
  BY DEF Uses, Token
<1> QED BY <1>1, <1>2, <1>3, <1>4, <1>5 DEF Calls, HasSubject, Subject

LEMMA TypeStep ==
    ASSUME Inv, [Next]_vars
    PROVE  TypeOK' /\ call' \in [Requests -> Calls \cup {NoCall}]
<1>0. TypeOK /\ call \in [Requests -> Calls \cup {NoCall}]
  BY DEF Inv
<1>1. ASSUME NEW r \in Requests, Receive(r)
      PROVE  TypeOK' /\ call' \in [Requests -> Calls \cup {NoCall}]
  <2>1. PICK c \in Logins \cup [endpoint : Endpoints, token : tokens \cup {NoToken, Forged}] :
            /\ call' = [call EXCEPT ![r] = c]
            /\ Goto(r, IF c.endpoint = "login" THEN "looking_up" ELSE "token")
            /\ seen' = [seen EXCEPT ![r] =
                         IF HasSubject(c) THEN {accounts[Subject(c)]} ELSE {}]
    BY <1>1 DEF Receive
  <2>2. c \in Calls
    BY <1>0, <2>1 DEF Calls, Uses, TypeOK, GoodToken
  <2>3. HasSubject(c) => Subject(c) \in Users
    BY <2>2 DEF Calls, Logins, Uses, Endpoints, Token, HasSubject, Subject
  <2> QED BY <1>0, <1>1, <2>1, <2>2, <2>3 DEF TypeOK, Receive, Goto, World, Places, Calls
<1>2. ASSUME NEW r \in Requests, RefuseBody(r) \/ RefuseLogin(r) \/ Enter(r) \/ Fail(r)
      PROVE  TypeOK' /\ call' \in [Requests -> Calls \cup {NoCall}]
  BY <1>0, <1>2 DEF TypeOK, RefuseBody, RefuseLogin, Enter, Fail, Finish, World,
     Places, Codes
<1>3. ASSUME NEW r \in Requests, LookUp(r)
      PROVE  TypeOK' /\ call' \in [Requests -> Calls \cup {NoCall}]
  <2>1. call[r].user \in Users
    BY <1>3, CallType DEF Inv, RequestOK, PlaceOK, LookUp, HasSubject, Subject
  <2> QED BY <1>0, <1>3, <2>1 DEF TypeOK, LookUp, World, Places
<1>4. ASSUME NEW r \in Requests, IssueToken(r)
      PROVE  TypeOK' /\ call' \in [Requests -> Calls \cup {NoCall}]
  <2>1. call[r].user \in Users
    BY <1>4, CallType DEF Inv, RequestOK, PlaceOK, IssueToken, HasSubject, Subject
  <2> DEFINE t == [user |-> call[r].user, issued |-> clock, exp |-> Expiry(clock)]
  <2>2. GoodToken(t)
    BY <1>0, <2>1, IssuedTokenGood DEF TypeOK
  <2>3. t \in Token
    BY <2>2 DEF GoodToken
  <2>4. tokens' = tokens \cup {t} /\ Finish(r, "OK", t)
    BY <1>4 DEF IssueToken
  <2> HIDE DEF t
  <2> QED BY <1>0, <1>4, <2>2, <2>3, <2>4 DEF TypeOK, IssueToken, Finish, World,
          Places, Codes
<1>5. ASSUME NEW r \in Requests, RefuseToken(r) \/ AcceptToken(r)
      PROVE  TypeOK' /\ call' \in [Requests -> Calls \cup {NoCall}]
  BY <1>0, <1>5 DEF TypeOK, RefuseToken, AcceptToken, Finish, Goto, World, Places, Codes
<1>6. ASSUME NEW r \in Requests, LoadUser(r) \/ LoadStudent(r)
      PROVE  TypeOK' /\ call' \in [Requests -> Calls \cup {NoCall}]
  BY <1>0, <1>6 DEF TypeOK, LoadUser, LoadStudent, Finish, Goto, World, Places, Codes
<1>7. ASSUME NEW r \in Requests, LoadRoles(r)
      PROVE  TypeOK' /\ call' \in [Requests -> Calls \cup {NoCall}]
  <2>1. call[r].token.user \in Users
    BY <1>7, CallType DEF Inv, RequestOK, PlaceOK, LoadRoles, Subject
  <2>2. RolesOf(accounts[call[r].token.user]) \in SUBSET Roles
    BY <1>0, <2>1 DEF TypeOK, RolesOf, Account
  <2> QED BY <1>0, <1>7, <2>2 DEF TypeOK, LoadRoles, Finish, Goto, World, Places, Codes
<1>8. ASSUME NEW u \in Users, SetAccount(u)
      PROVE  TypeOK' /\ call' \in [Requests -> Calls \cup {NoCall}]
  BY <1>0, <1>8 DEF TypeOK, SetAccount
<1>9. CASE Tick
  BY <1>0, <1>9 DEF TypeOK, Tick, World
<1>10. CASE UNCHANGED vars
  BY <1>0, <1>10 DEF TypeOK, vars
<1> QED BY <1>1, <1>2, <1>3, <1>4, <1>5, <1>6, <1>7, <1>8, <1>9, <1>10
        DEF Next, Handle, Quiet

-----------------------------------------------------------------------------
(* The requests, one by one. *)

\* A request that a step leaves alone stays as it is, while the states that it
\* has seen may grow.
LEMMA KeptRequest ==
    ASSUME NEW s \in Requests, RequestOK(s), seen[s] \subseteq seen'[s],
           pc'[s] = pc[s], call'[s] = call[s], mem'[s] = mem[s], code'[s] = code[s],
           roles'[s] = roles[s], checkedAt'[s] = checkedAt[s], linked' = linked,
           SeenOK(s)'
    PROVE  RequestOK(s)'
<1>1. PlaceOK(s)'
  BY DEF RequestOK, PlaceOK, GuardPassed
<1>2. CheckOK(s)'
  BY DEF RequestOK, CheckOK
<1>3. GrantFounded(s) => GrantFounded(s)'
  BY DEF GrantFounded
<1>4. RefusalFounded(s)'
  BY DEF RequestOK, AnswerOK, RefusalFounded
<1> QED BY <1>1, <1>2, <1>3, <1>4 DEF RequestOK, AnswerOK

\* A step of r alone.
LEMMA OnlyThisRequest ==
    ASSUME Inv, NEW r \in Requests, Receive(r) \/ Handle(r) \/ Fail(r), RequestOK(r)'
    PROVE  \A s \in Requests : RequestOK(s)'
<1> SUFFICES ASSUME NEW s \in Requests, s # r PROVE RequestOK(s)'
  OBVIOUS
<1>1. accounts' = accounts /\ linked' = linked
  BY DEF Receive, Handle, Fail, RefuseBody, LookUp, RefuseLogin, IssueToken,
     RefuseToken, AcceptToken, LoadUser, LoadRoles, LoadStudent, Enter, World
<1>2. /\ pc'[s] = pc[s] /\ call'[s] = call[s] /\ mem'[s] = mem[s]
      /\ code'[s] = code[s] /\ roles'[s] = roles[s] /\ checkedAt'[s] = checkedAt[s]
      /\ seen'[s] = seen[s]
  BY DEF Inv, TypeOK, Receive, Handle, Fail, RefuseBody, LookUp, RefuseLogin,
     IssueToken, RefuseToken, AcceptToken, LoadUser, LoadRoles, LoadStudent, Enter,
     Finish, Goto
<1>3. RequestOK(s) /\ SeenOK(s)'
  BY <1>1, <1>2 DEF Inv, RequestOK, SeenOK
<1> QED BY <1>1, <1>2, <1>3, KeptRequest

LEMMA ReceiveStep ==
    ASSUME Inv, NEW r \in Requests, Receive(r)
    PROVE  RequestOK(r)'
<1>1. PICK c \in Logins \cup [endpoint : Endpoints, token : tokens \cup {NoToken, Forged}] :
          /\ call' = [call EXCEPT ![r] = c]
          /\ Goto(r, IF c.endpoint = "login" THEN "looking_up" ELSE "token")
          /\ seen' = [seen EXCEPT ![r] =
                       IF HasSubject(c) THEN {accounts[Subject(c)]} ELSE {}]
  BY DEF Receive
<1>2. /\ call'[r] = c /\ code'[r] = "none" /\ pc[r] = "idle"
      /\ checkedAt'[r] = checkedAt[r] /\ accounts' = accounts
      /\ pc'[r] = IF c.endpoint = "login" THEN "looking_up" ELSE "token"
      /\ seen'[r] = IF HasSubject(c) THEN {accounts[Subject(c)]} ELSE {}
  BY <1>1 DEF Inv, TypeOK, RequestOK, PlaceOK, Receive, Goto, World
<1>3. PlaceOK(r)' /\ SeenOK(r)'
  BY <1>2 DEF PlaceOK, SeenOK
<1>4. CheckOK(r)'
  <2>1. checkedAt[r] = 0
    BY <1>2 DEF Inv, RequestOK, PlaceOK
  <2>2. c.endpoint # "login" /\ HasSubject(c) => c.token \in tokens
    BY DEF HasSubject, Logins
  <2> QED BY <1>2, <2>1, <2>2 DEF CheckOK, Inv, TypeOK
<1>5. AnswerOK(r)'
  BY <1>2 DEF AnswerOK, RefusalFounded
<1> QED BY <1>3, <1>4, <1>5 DEF RequestOK

\* A step that does not look at the clock keeps what is known of the token.
LEMMA KeptCheck ==
    ASSUME Inv, NEW r \in Requests, pc[r] \notin {"idle", "done"},
           call' = call, checkedAt' = checkedAt,
           pc'[r] \notin {"idle", "token"}, code'[r] # "TOKEN_EXPIRED"
    PROVE  CheckOK(r)'
<1>1. CheckOK(r) /\ code[r] = "none"
  BY DEF Inv, RequestOK, PlaceOK
<1> QED BY <1>1 DEF CheckOK

\* A request that is answered has nothing left to show but its answer.
LEMMA Answered ==
    ASSUME Inv, NEW r \in Requests, NEW c \in Codes, NEW a, Finish(r, c, a),
           CheckOK(r)', AnswerOK(r)'
    PROVE  RequestOK(r)'
<1>1. pc'[r] = "done"
  BY DEF Inv, TypeOK, Finish
<1> QED BY <1>1 DEF RequestOK, PlaceOK, SeenOK

LEMMA BodyOrFailureStep ==
    ASSUME Inv, NEW r \in Requests, RefuseBody(r) \/ Fail(r)
    PROVE  RequestOK(r)'
<1>1. PICK c \in {"NOT_JSON", "INTERNAL_SERVER_ERROR"} : Finish(r, c, NoToken)
  BY DEF RefuseBody, Fail
<1>2. /\ pc[r] \notin {"idle", "done"} /\ call' = call /\ checkedAt' = checkedAt
      /\ pc'[r] = "done" /\ code'[r] = c
  BY <1>1 DEF Inv, TypeOK, RefuseBody, Fail, Finish
<1>3. CheckOK(r)'
  BY <1>2, KeptCheck
<1>4. AnswerOK(r)'
  BY <1>2 DEF AnswerOK, RefusalFounded
<1> QED BY <1>1, <1>3, <1>4, Answered DEF Codes

LEMMA LookUpStep ==
    ASSUME Inv, NEW r \in Requests, LookUp(r)
    PROVE  RequestOK(r)'
<1>1. pc[r] = "looking_up" /\ PlaceOK(r) /\ SeenOK(r) /\ AnswerOK(r)
  BY DEF LookUp, Inv, RequestOK
<1>2. /\ pc'[r] = "verifying" /\ mem'[r] = accounts[call[r].user]
      /\ call' = call /\ code' = code /\ seen' = seen /\ accounts' = accounts
      /\ checkedAt' = checkedAt
  BY DEF LookUp, Inv, TypeOK, World
<1>3. code[r] = "none" /\ accounts[call[r].user] \in seen[r]
  BY <1>1 DEF PlaceOK, SeenOK, HasSubject, Subject
<1>4. PlaceOK(r)' /\ SeenOK(r)'
  BY <1>1, <1>2, <1>3 DEF PlaceOK, SeenOK
<1>5. CheckOK(r)'
  BY <1>1, <1>2, <1>3, KeptCheck
<1>6. AnswerOK(r)'
  BY <1>2, <1>3 DEF AnswerOK, RefusalFounded
<1> QED BY <1>4, <1>5, <1>6 DEF RequestOK

LEMMA RefuseLoginStep ==
    ASSUME Inv, NEW r \in Requests, RefuseLogin(r)
    PROVE  RequestOK(r)'
<1>1. pc[r] = "verifying" /\ ~Verified(mem[r], call[r].password)
  BY DEF RefuseLogin
<1>2. mem[r] \in seen[r]
  BY <1>1 DEF Inv, RequestOK, PlaceOK
<1>3. /\ pc'[r] = "done" /\ code'[r] = "INVALID_CREDENTIALS" /\ call' = call
      /\ checkedAt' = checkedAt /\ seen' = seen
  BY DEF RefuseLogin, Finish, Inv, TypeOK
<1>4. AnswerOK(r)'
  BY <1>1, <1>2, <1>3 DEF AnswerOK, RefusalFounded, Verified, Accepted, ActiveAccount
<1>5. CheckOK(r)'
  BY <1>1, <1>3, KeptCheck
<1> QED BY <1>4, <1>5, Answered DEF RefuseLogin, Codes

LEMMA IssueTokenStep ==
    ASSUME Inv, NEW r \in Requests, IssueToken(r)
    PROVE  RequestOK(r)'
<1>1. pc[r] = "verifying" /\ call[r].endpoint = "login"
  BY DEF IssueToken, Inv, RequestOK, PlaceOK
<1>2. PICK t : Finish(r, "OK", t)
  BY DEF IssueToken
<1>3. /\ pc'[r] = "done" /\ code'[r] = "OK" /\ call' = call /\ checkedAt' = checkedAt
  BY <1>2 DEF IssueToken, Finish, Inv, TypeOK
<1>4. AnswerOK(r)'
  BY <1>1, <1>3 DEF AnswerOK, RefusalFounded
<1>5. CheckOK(r)'
  BY <1>1, <1>3, KeptCheck
<1> QED BY <1>2, <1>4, <1>5, Answered DEF Codes

LEMMA RefuseTokenStep ==
    ASSUME Inv, NEW r \in Requests, RefuseToken(r)
    PROVE  RequestOK(r)'
<1>1. pc[r] = "token" /\ CheckOK(r) /\ call[r] # NoCall /\ call[r].endpoint # "login"
  BY CallType DEF RefuseToken, Inv, RequestOK, PlaceOK
<1>2. checkedAt'[r] = clock /\ call' = call /\ seen' = seen
  BY DEF RefuseToken, Inv, TypeOK
<1>3. CASE HasSubject(call[r])
  <2>1. Finish(r, "TOKEN_EXPIRED", NoToken) /\ Expired(call[r].token, clock)
    BY <1>1, <1>3 DEF RefuseToken, HasSubject
  <2>2. code'[r] = "TOKEN_EXPIRED" /\ pc'[r] = "done"
    BY <2>1 DEF Finish, Inv, TypeOK
  <2>3. CheckOK(r)'
    BY <1>1, <1>2, <1>3, <2>1, <2>2 DEF CheckOK, Expired
  <2>4. AnswerOK(r)'
    BY <2>2 DEF AnswerOK, RefusalFounded
  <2> QED BY <2>1, <2>3, <2>4, Answered DEF Codes
<1>4. CASE ~HasSubject(call[r])
  <2>1. PICK c \in {"AUTHENTICATION_REQUIRED", "INVALID_TOKEN"} : Finish(r, c, NoToken)
    BY <1>4 DEF RefuseToken
  <2>2. code'[r] = c
    BY <2>1 DEF Finish, Inv, TypeOK
  <2>3. CheckOK(r)'
    BY <1>2, <1>4 DEF CheckOK, HasSubject
  <2>4. AnswerOK(r)'
    BY <1>2, <1>4, <2>2 DEF AnswerOK, RefusalFounded, HasSubject
  <2> QED BY <2>1, <2>3, <2>4, Answered DEF Codes
<1> QED BY <1>3, <1>4

LEMMA AcceptTokenStep ==
    ASSUME Inv, NEW r \in Requests, AcceptToken(r)
    PROVE  RequestOK(r)'
<1>1. /\ pc[r] = "token" /\ HasSubject(call[r]) /\ ~Expired(call[r].token, clock)
      /\ CheckOK(r) /\ SeenOK(r) /\ call[r] # NoCall /\ call[r].endpoint # "login"
      /\ code[r] = "none"
  BY CallType DEF AcceptToken, Inv, RequestOK, PlaceOK
<1>2. /\ checkedAt'[r] = clock /\ call' = call /\ seen' = seen /\ accounts' = accounts
      /\ pc'[r] = "user" /\ code' = code
  BY DEF AcceptToken, Goto, Inv, TypeOK, World
<1>3. PlaceOK(r)' /\ SeenOK(r)'
  BY <1>1, <1>2 DEF PlaceOK, SeenOK, HasSubject
<1>4. clock < call[r].token.exp
  BY <1>1 DEF CheckOK, Expired, GoodToken, Token, Inv, TypeOK
<1>5. CheckOK(r)'
  BY <1>1, <1>2, <1>4 DEF CheckOK
<1>6. AnswerOK(r)'
  BY <1>1, <1>2 DEF AnswerOK, RefusalFounded
<1> QED BY <1>3, <1>5, <1>6 DEF RequestOK

LEMMA LoadUserStep ==
    ASSUME Inv, NEW r \in Requests, LoadUser(r)
    PROVE  RequestOK(r)'
<1> DEFINE account == accounts[call[r].token.user]
<1>1. /\ pc[r] = "user" /\ HasSubject(call[r]) /\ SeenOK(r) /\ code[r] = "none"
      /\ call[r] # NoCall /\ call[r].endpoint # "login"
  BY CallType DEF LoadUser, Inv, RequestOK, PlaceOK
<1>2. account \in seen[r]
  BY <1>1 DEF SeenOK, Subject
<1>3. call' = call /\ checkedAt' = checkedAt /\ seen' = seen /\ accounts' = accounts
  BY DEF LoadUser, World
<1>4. CASE Accepted(account)
  <2>1. pc'[r] = "roles" /\ code' = code
    BY <1>4 DEF LoadUser, Goto, Inv, TypeOK
  <2>2. PlaceOK(r)' /\ SeenOK(r)'
    BY <1>1, <1>2, <1>3, <1>4, <2>1 DEF PlaceOK, SeenOK, Accepted, ActiveAccount
  <2>3. CheckOK(r)'
    BY <1>1, <1>3, <2>1, KeptCheck
  <2>4. AnswerOK(r)'
    BY <1>1, <2>1 DEF AnswerOK, RefusalFounded
  <2> QED BY <2>2, <2>3, <2>4 DEF RequestOK
<1>5. CASE ~Accepted(account)
  <2>1. Finish(r, "INVALID_TOKEN", NoToken)
    BY <1>5 DEF LoadUser
  <2>2. pc'[r] = "done" /\ code'[r] = "INVALID_TOKEN"
    BY <2>1 DEF Finish, Inv, TypeOK
  <2>3. AnswerOK(r)'
    BY <1>2, <1>3, <1>5, <2>2 DEF AnswerOK, RefusalFounded, Accepted, ActiveAccount
  <2>4. CheckOK(r)'
    BY <1>1, <1>3, <2>2, KeptCheck
  <2> QED BY <2>1, <2>3, <2>4, Answered DEF Codes
<1> QED BY <1>4, <1>5

LEMMA LoadRolesStep ==
    ASSUME Inv, NEW r \in Requests, LoadRoles(r)
    PROVE  RequestOK(r)'
<1> DEFINE account == accounts[call[r].token.user]
           loaded == RolesOf(account)
<1>1. /\ pc[r] = "roles" /\ HasSubject(call[r]) /\ SeenOK(r) /\ code[r] = "none"
      /\ call[r] # NoCall /\ call[r].endpoint # "login"
      /\ \E a \in seen[r] : ActiveAccount(a)
  BY CallType DEF LoadRoles, Inv, RequestOK, PlaceOK
<1>2. account \in seen[r]
  BY <1>1 DEF SeenOK, Subject
<1>3. /\ call' = call /\ checkedAt' = checkedAt /\ seen' = seen /\ accounts' = accounts
      /\ linked' = linked /\ roles'[r] = loaded
  BY DEF LoadRoles, World, Inv, TypeOK
<1>4. CASE ~Allowed(call[r].endpoint, loaded)
  <2>1. Finish(r, "ACCESS_DENIED", NoToken)
    BY <1>4 DEF LoadRoles
  <2>2. pc'[r] = "done" /\ code'[r] = "ACCESS_DENIED"
    BY <2>1 DEF Finish, Inv, TypeOK
  <2>3. \/ call[r].endpoint = "student" /\ "STUDENT" \notin RolesOf(account)
        \/ call[r].endpoint = "staff" /\ RolesOf(account) \cap StaffRoles = {}
    BY <1>4 DEF Allowed
  <2>4. AnswerOK(r)'
    BY <1>2, <1>3, <2>2, <2>3 DEF AnswerOK, RefusalFounded
  <2>5. CheckOK(r)'
    BY <1>1, <1>3, <2>2, KeptCheck
  <2> QED BY <2>1, <2>4, <2>5, Answered DEF Codes
<1>5. CASE Allowed(call[r].endpoint, loaded) /\ call[r].endpoint = "me"
  <2>1. Finish(r, "OK", NoToken)
    BY <1>5 DEF LoadRoles
  <2>2. pc'[r] = "done" /\ code'[r] = "OK"
    BY <2>1 DEF Finish, Inv, TypeOK
  <2>3. AnswerOK(r)'
    BY <1>1, <1>2, <1>3, <1>5, <2>2 DEF AnswerOK, RefusalFounded, GrantFounded
  <2>4. CheckOK(r)'
    BY <1>1, <1>3, <2>2, KeptCheck
  <2> QED BY <2>1, <2>3, <2>4, Answered DEF Codes
<1>6. CASE Allowed(call[r].endpoint, loaded) /\ call[r].endpoint # "me"
  <2>1. PICK p \in {"student", "entering"} :
            /\ Goto(r, p)
            /\ p = "student" => call[r].endpoint = "student"
            /\ p = "entering" => call[r].endpoint = "staff"
    BY <1>6 DEF LoadRoles
  <2>2. pc'[r] = p /\ code' = code
    BY <2>1 DEF Goto, Inv, TypeOK
  <2>3. GuardPassed(r)'
    BY <1>1, <1>2, <1>3, <1>6 DEF GuardPassed
  <2>4. PlaceOK(r)' /\ SeenOK(r)'
    BY <1>1, <1>2, <1>3, <2>1, <2>2, <2>3 DEF PlaceOK, SeenOK, Subject
  <2>5. CheckOK(r)'
    BY <1>1, <1>3, <2>1, <2>2, KeptCheck
  <2>6. AnswerOK(r)'
    BY <1>1, <2>2 DEF AnswerOK, RefusalFounded
  <2> QED BY <2>4, <2>5, <2>6 DEF RequestOK
<1> QED BY <1>4, <1>5, <1>6

LEMMA LoadStudentStep ==
    ASSUME Inv, NEW r \in Requests, LoadStudent(r)
    PROVE  RequestOK(r)'
<1>1. /\ pc[r] = "student" /\ HasSubject(call[r]) /\ SeenOK(r) /\ code[r] = "none"
      /\ GuardPassed(r) /\ call[r] # NoCall /\ call[r].endpoint = "student"
  BY CallType DEF LoadStudent, Inv, RequestOK, PlaceOK
<1>2. /\ call' = call /\ checkedAt' = checkedAt /\ seen' = seen /\ accounts' = accounts
      /\ linked' = linked /\ roles' = roles
  BY DEF LoadStudent, World
<1>3. CASE call[r].token.user \in linked
  <2>1. pc'[r] = "entering" /\ code' = code
    BY <1>3 DEF LoadStudent, Goto, Inv, TypeOK
  <2>2. PlaceOK(r)' /\ SeenOK(r)'
    BY <1>1, <1>2, <1>3, <2>1 DEF PlaceOK, SeenOK, GuardPassed
  <2>3. CheckOK(r)'
    BY <1>1, <1>2, <2>1, KeptCheck
  <2>4. AnswerOK(r)'
    BY <1>1, <2>1 DEF AnswerOK, RefusalFounded
  <2> QED BY <2>2, <2>3, <2>4 DEF RequestOK
<1>4. CASE call[r].token.user \notin linked
  <2>1. Finish(r, "ACCESS_DENIED", NoToken)
    BY <1>4 DEF LoadStudent
  <2>2. pc'[r] = "done" /\ code'[r] = "ACCESS_DENIED"
    BY <2>1 DEF Finish, Inv, TypeOK
  <2>3. AnswerOK(r)'
    BY <1>1, <1>2, <1>4, <2>2 DEF AnswerOK, RefusalFounded
  <2>4. CheckOK(r)'
    BY <1>1, <1>2, <2>2, KeptCheck
  <2> QED BY <2>1, <2>3, <2>4, Answered DEF Codes
<1> QED BY <1>3, <1>4

LEMMA EnterStep ==
    ASSUME Inv, NEW r \in Requests, Enter(r)
    PROVE  RequestOK(r)'
<1>1. PICK c \in {"OK", "VALIDATION_ERROR"} : Finish(r, c, NoToken)
  BY DEF Enter
<1>2. /\ pc[r] = "entering" /\ GuardPassed(r)
      /\ call[r].endpoint \in {"student", "staff"}
      /\ call[r].endpoint = "student" => call[r].token.user \in linked
  BY DEF Enter, Inv, RequestOK, PlaceOK
<1>3. /\ pc'[r] = "done" /\ code'[r] = c /\ call' = call /\ checkedAt' = checkedAt
      /\ seen' = seen /\ roles' = roles /\ linked' = linked
  BY <1>1 DEF Enter, Finish, Inv, TypeOK, World
<1>4. GrantFounded(r)
  BY <1>2 DEF GuardPassed, GrantFounded, Allowed
<1>5. AnswerOK(r)'
  BY <1>3, <1>4 DEF AnswerOK, RefusalFounded, GrantFounded
<1>6. CheckOK(r)'
  BY <1>2, <1>3, KeptCheck
<1> QED BY <1>1, <1>5, <1>6, Answered DEF Codes

LEMMA SetAccountStep ==
    ASSUME Inv, NEW u \in Users, SetAccount(u), NEW s \in Requests
    PROVE  RequestOK(s)'
<1>1. PICK a \in Account \cup {NoAccount} :
          /\ accounts' = [accounts EXCEPT ![u] = a]
          /\ seen' = [r \in Requests |->
                IF pc[r] \notin {"idle", "done"} /\ HasSubject(call[r])
                   /\ Subject(call[r]) = u
                THEN seen[r] \cup {a} ELSE seen[r]]
  BY DEF SetAccount
<1>2. /\ pc' = pc /\ call' = call /\ mem' = mem /\ code' = code /\ roles' = roles
      /\ checkedAt' = checkedAt /\ linked' = linked
  BY DEF SetAccount
<1>3. seen[s] \subseteq seen'[s]
  BY <1>1
<1>4. SeenOK(s)'
  BY <1>1, <1>2, CallType DEF SeenOK, Inv, RequestOK, TypeOK
<1> QED BY <1>2, <1>3, <1>4, KeptRequest DEF Inv

LEMMA RequestsStep ==
    ASSUME Inv, [Next]_vars
    PROVE  \A s \in Requests : RequestOK(s)'
<1>1. ASSUME NEW r \in Requests, Receive(r) \/ Handle(r) \/ Fail(r)
      PROVE  \A s \in Requests : RequestOK(s)'
  <2>1. RequestOK(r)'
    BY <1>1, ReceiveStep, BodyOrFailureStep, LookUpStep, RefuseLoginStep,
       IssueTokenStep, RefuseTokenStep, AcceptTokenStep, LoadUserStep, LoadRolesStep,
       LoadStudentStep, EnterStep DEF Handle
  <2> QED BY <1>1, <2>1, OnlyThisRequest
<1>2. ASSUME NEW u \in Users, SetAccount(u)
      PROVE  \A s \in Requests : RequestOK(s)'
  BY <1>2, SetAccountStep
<1>3. CASE Tick \/ UNCHANGED vars
  <2> SUFFICES ASSUME NEW s \in Requests PROVE RequestOK(s)'
    OBVIOUS
  <2>1. UNCHANGED <<accounts, linked, pc, call, mem, code, roles, checkedAt, seen>>
    BY <1>3 DEF Tick, World, vars
  <2>2. RequestOK(s) /\ SeenOK(s)'
    BY <2>1 DEF Inv, RequestOK, SeenOK
  <2> QED BY <2>1, <2>2, KeptRequest
<1> QED BY <1>1, <1>2, <1>3 DEF Next, Quiet

-----------------------------------------------------------------------------
(* Tokens are earned. *)

\* Whom a token was given to, as TokensAreEarned has it.
Earned(t, r) ==
    /\ call[r] # NoCall /\ call[r].endpoint = "login" /\ call[r].user = t.user
    /\ code[r] = "OK" /\ answer[r] = t
    /\ \E a \in seen[r] : ActiveAccount(a) /\ a.password = call[r].password

\* An answered login has nothing more to do, whatever the step.
LEMMA StillEarned ==
    ASSUME Inv, [Next]_vars, NEW t, NEW q \in Requests, Earned(t, q)
    PROVE  Earned(t, q)'
<1>1. pc[q] = "done"
  BY DEF Inv, RequestOK, PlaceOK, Earned
<1>2. ASSUME NEW r \in Requests, Receive(r) \/ Handle(r) \/ Fail(r)
      PROVE  Earned(t, q)'
  <2>1. r # q
    BY <1>1, <1>2 DEF Receive, Handle, Fail, RefuseBody, LookUp, RefuseLogin, IssueToken,
       RefuseToken, AcceptToken, LoadUser, LoadRoles, LoadStudent, Enter
  <2>2. /\ call'[q] = call[q] /\ code'[q] = code[q] /\ answer'[q] = answer[q]
        /\ seen'[q] = seen[q]
    BY <1>2, <2>1 DEF Inv, TypeOK, Receive, Handle, Fail, RefuseBody, LookUp,
       RefuseLogin, IssueToken, RefuseToken, AcceptToken, LoadUser, LoadRoles,
       LoadStudent, Enter, Finish, Goto
  <2> QED BY <2>2 DEF Earned
<1>3. ASSUME NEW u \in Users, SetAccount(u)
      PROVE  Earned(t, q)'
  BY <1>1, <1>3 DEF SetAccount, Earned
<1>4. CASE Tick \/ UNCHANGED vars
  BY <1>4 DEF Tick, vars, Earned
<1> QED BY <1>2, <1>3, <1>4 DEF Next, Quiet

LEMMA EarnedStep ==
    ASSUME Inv, [Next]_vars
    PROVE  TokensAreEarned'
<1>1. TokensAreEarned <=> \A t \in tokens \ EarlierTokens : \E r \in Requests : Earned(t, r)
  BY DEF TokensAreEarned, Earned
<1>2. TokensAreEarned' <=>
          \A t \in tokens' \ EarlierTokens : \E r \in Requests : Earned(t, r)'
  BY DEF TokensAreEarned, Earned
<1> SUFFICES ASSUME NEW t \in tokens' \ EarlierTokens
             PROVE  \E r \in Requests : Earned(t, r)'
  BY <1>2
<1>3. CASE t \in tokens
  BY <1>1, <1>3, StillEarned DEF Inv
<1>4. CASE t \notin tokens
  <2>1. PICK r \in Requests : IssueToken(r)
    BY <1>4 DEF Next, Receive, Handle, Fail, RefuseBody, LookUp, RefuseLogin,
       RefuseToken, AcceptToken, LoadUser, LoadRoles, LoadStudent, Enter, SetAccount,
       Tick, Quiet, vars
  <2>2. /\ t = [user |-> call[r].user, issued |-> clock, exp |-> Expiry(clock)]
        /\ Finish(r, "OK", t) /\ Verified(mem[r], call[r].password)
        /\ call' = call /\ seen' = seen
    BY <1>4, <2>1 DEF IssueToken
  <2>3. call[r] # NoCall /\ call[r].endpoint = "login" /\ mem[r] \in seen[r]
    BY <2>1, CallType DEF IssueToken, Inv, RequestOK, PlaceOK
  <2>4. code'[r] = "OK" /\ answer'[r] = t /\ t.user = call[r].user
    BY <2>2 DEF Finish, Inv, TypeOK
  <2> QED BY <2>2, <2>3, <2>4 DEF Earned, Verified, Accepted, ActiveAccount
<1> QED BY <1>3, <1>4

-----------------------------------------------------------------------------
\* Inv is an invariant: no interleaving of requests, changes of accounts and
\* the clock takes what a request has found out away from it.
THEOREM Invariance == Spec => []Inv
<1>1. Inv /\ [Next]_vars => Inv'
  BY TypeStep, RequestsStep, EarnedStep DEF Inv
<1> QED BY InitInv, <1>1, PTL DEF Spec

\* Every variable keeps its type; in particular every token held, new or old,
\* has the lifetime that is promised, up to a second.
THEOREM TypeCorrect == Spec => []TypeOK
<1>1. Inv => TypeOK
  BY DEF Inv
<1> QED BY Invariance, <1>1, PTL

\* Nobody gets past the guards without an active account and an allowed role.
THEOREM GrantsFounded == Spec => []GrantsAreFounded
<1>1. Inv => GrantsAreFounded
  BY DEF Inv, RequestOK, AnswerOK, GrantsAreFounded
<1> QED BY Invariance, <1>1, PTL

\* Nobody is refused whose account was as it should be throughout.
THEOREM RefusalsFounded == Spec => []RefusalsAreFounded
<1>1. Inv => RefusalsAreFounded
  BY DEF Inv, RequestOK, AnswerOK, RefusalsAreFounded
<1> QED BY Invariance, <1>1, PTL

\* No token without the password of an account active at that moment.
THEOREM TokensEarned == Spec => []TokensAreEarned
<1>1. Inv => TokensAreEarned
  BY DEF Inv
<1> QED BY Invariance, <1>1, PTL

\* No token is accepted past its lifetime, or refused as expired more than a
\* second before its end.
THEOREM TokenLives == Spec => []TokenLifetime
<1>1. ASSUME Inv, NEW r \in Requests,
             call[r] # NoCall, call[r].endpoint # "login", HasSubject(call[r])
      PROVE  LET end == call[r].token.issued + Lifetime * Second
             IN  /\ pc[r] \notin {"token", "idle"} /\ code[r] # "TOKEN_EXPIRED" =>
                       checkedAt[r] < end
                 /\ code[r] = "TOKEN_EXPIRED" => checkedAt[r] + Second > end
  <2> DEFINE t == call[r].token
             full == Lifetime * Second
  <2>1. CheckOK(r) /\ checkedAt[r] \in Nat
    BY <1>1 DEF Inv, RequestOK, TypeOK
  <2>2. t \in Token /\ t.exp <= t.issued + full /\ t.exp + Second > t.issued + full
    BY <1>1, <2>1 DEF CheckOK, GoodToken
  <2>3. t.issued \in Nat /\ t.exp \in Nat
    BY <2>2 DEF Token
  <2>4. full \in Nat /\ full > 0
    OBVIOUS
  <2>5. /\ pc[r] \notin {"token", "idle"} /\ code[r] # "TOKEN_EXPIRED" =>
              checkedAt[r] = 0 \/ checkedAt[r] < t.exp
        /\ code[r] = "TOKEN_EXPIRED" => t.exp <= checkedAt[r]
    BY <1>1, <2>1 DEF CheckOK
  <2> HIDE DEF full
  <2>6. /\ pc[r] \notin {"token", "idle"} /\ code[r] # "TOKEN_EXPIRED" =>
              checkedAt[r] < t.issued + full
        /\ code[r] = "TOKEN_EXPIRED" => checkedAt[r] + Second > t.issued + full
    BY <2>1, <2>2, <2>3, <2>4, <2>5
  <2> QED BY <2>6 DEF full
<1>2. Inv => TokenLifetime
  BY <1>1 DEF TokenLifetime
<1> QED BY Invariance, <1>2, PTL
=============================================================================
