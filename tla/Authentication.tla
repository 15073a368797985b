---------------------------- MODULE Authentication ----------------------------
(***************************************************************************)
(* Login, and the chain of dependencies that every protected endpoint runs *)
(* before its handler: the bearer token is validated, the user is loaded   *)
(* and must be active, the roles are loaded in a SELECT of their own, the  *)
(* guard of the endpoint compares them with the ones it needs, a student   *)
(* endpoint loads the students row, and only then is the body validated;   *)
(* but a body that is not JSON is refused before any of it.                *)
(*                                                                         *)
(* No route changes an account: what changes the tables users and          *)
(* user_roles between two of these statements (the seed, an operator) is   *)
(* the action SetAccount.  Time is counted in ticks, Second of them to the *)
(* second, because a token's timestamps are whole seconds.                 *)
(***************************************************************************)
EXTENDS Naturals

CONSTANTS
    Requests, Users, Passwords,
    StaffRoles,     \* the roles that the institution routes ask for
    Second,         \* ticks in a second
    Lifetime,       \* ACCESS_TOKEN_EXPIRE_MINUTES, in seconds
    EarlierTokens,  \* tokens that clients may hold at the start
    MaxClock,       \* bound: ticks
    MaxChanges,     \* bound: changes of accounts
    NoAccount, NoPassword, NoToken, Forged, NoCall

Roles == {"STUDENT"} \cup StaffRoles

\* password stands for password_hash, which may be null.
Account ==
    [active : BOOLEAN, password : Passwords \cup {NoPassword}, roles : SUBSET Roles]

Token == [user : Users, issued : Nat, exp : Nat]

Logins == [endpoint : {"login"}, user : Users, password : Passwords]

Endpoints == {"me", "student", "staff"}

Uses == [endpoint : Endpoints, token : Token \cup {NoToken, Forged}]

\* The lifetime of a token, up to the second that cutting its exp may cost.
GoodToken(t) ==
    /\ t \in Token
    /\ t.exp <= t.issued + Lifetime * Second
    /\ t.exp + Second > t.issued + Lifetime * Second

ASSUME ConstantsAssumption ==
    /\ "STUDENT" \notin StaffRoles
    /\ Second \in Nat \ {0} /\ Lifetime \in Nat \ {0}
    /\ MaxClock \in Nat /\ MaxChanges \in Nat
    /\ \A t \in EarlierTokens : GoodToken(t)
    /\ NoAccount \notin Account /\ NoPassword \notin Passwords
    /\ {NoToken, Forged} \cap Token = {} /\ NoCall \notin Logins \cup Uses

VARIABLES
    accounts,   \* the tables users and user_roles
    linked,     \* the users that a students row refers to
    tokens,     \* the tokens that clients hold
    clock, changes,
    pc,         \* where the coroutine of each request is
    call,       \* the request received
    mem,        \* the users row in the session of a login
    code,       \* the answer
    answer,     \* its body, for a login: the token
    roles,      \* the roles of the AuthenticatedUser, which /auth/me returns
    checkedAt,  \* history: when the token was validated
    seen        \* history: the states of the user's account during the request

vars == <<accounts, linked, changes, tokens, clock, pc, call, mem, code,
          answer, roles, checkedAt, seen>>

Places == {"idle", "looking_up", "verifying", "token", "user", "roles", "student",
           "entering", "done"}

\* NOT_JSON stands for the VALIDATION_ERROR that needs no caller.
Codes == {"none", "OK", "NOT_JSON", "AUTHENTICATION_REQUIRED", "INVALID_CREDENTIALS",
          "INVALID_TOKEN", "TOKEN_EXPIRED", "ACCESS_DENIED", "VALIDATION_ERROR",
          "INTERNAL_SERVER_ERROR"}

TypeOK ==
    /\ accounts \in [Users -> Account \cup {NoAccount}]
    /\ linked \subseteq Users
    /\ \A t \in tokens : GoodToken(t)
    /\ clock \in 0 .. MaxClock /\ changes \in 0 .. MaxChanges
    /\ pc \in [Requests -> Places]
    /\ \A r \in Requests : pc[r] # "idle" => call[r] \in Logins \cup Uses
    /\ mem \in [Requests -> Account \cup {NoAccount}]
    /\ code \in [Requests -> Codes]
    /\ answer \in [Requests -> Token \cup {NoToken}]
    /\ roles \in [Requests -> SUBSET Roles]
    /\ checkedAt \in [Requests -> Nat]
    /\ seen \in [Requests -> SUBSET (Account \cup {NoAccount})]

-----------------------------------------------------------------------------
(* Each definition of this section is a later definition with a plausible   *)
(* bug in it; the mutation runs put it in that one's place.                  *)

ActiveNotAsked(account) == account # NoAccount

PasswordOnly(account, password) == account # NoAccount /\ account.password = password

StudentGuardOnly(endpoint, held) == endpoint # "me" => "STUDENT" \in held

ExpiredLate(t, now) == t.exp < now

ExpiryRoundedUp(now) == ((now + Lifetime * Second) \div Second + 1) * Second

-----------------------------------------------------------------------------
\* The token's exp is cut to whole seconds when it is encoded.
Expiry(now) == ((now + Lifetime * Second) \div Second) * Second

\* PyJWT compares exp with the time at hand, without leeway.
Expired(t, now) == t.exp <= now

\* user is not None and user.is_active.
Accepted(account) == account # NoAccount /\ account.active

\* verify_password is False for a user without a hash.
Verified(account, password) == Accepted(account) /\ account.password = password

\* The rows of user_roles go when their user goes.
RolesOf(account) == IF account = NoAccount THEN {} ELSE account.roles

\* require_any_role, and the role that get_current_student asks for.
Allowed(endpoint, held) ==
    /\ endpoint = "student" => "STUDENT" \in held
    /\ endpoint = "staff" => held \cap StaffRoles # {}

Subject(c) == IF c.endpoint = "login" THEN c.user ELSE c.token.user

HasSubject(c) == c.endpoint = "login" \/ c.token \notin {NoToken, Forged}

Finish(r, c, a) ==
    /\ pc' = [pc EXCEPT ![r] = "done"]
    /\ code' = [code EXCEPT ![r] = c]
    /\ answer' = [answer EXCEPT ![r] = a]
    /\ mem' = [mem EXCEPT ![r] = NoAccount]

Goto(r, place) == pc' = [pc EXCEPT ![r] = place] /\ UNCHANGED <<code, answer, mem>>

World == <<accounts, linked, changes>>

Receive(r) ==
    /\ pc[r] = "idle"
    /\ \E c \in Logins \cup [endpoint : Endpoints, token : tokens \cup {NoToken, Forged}] :
          /\ call' = [call EXCEPT ![r] = c]
          /\ Goto(r, IF c.endpoint = "login" THEN "looking_up" ELSE "token")
          /\ seen' = [seen EXCEPT ![r] =
                         IF HasSubject(c) THEN {accounts[Subject(c)]} ELSE {}]
    /\ UNCHANGED <<World, tokens, clock, roles, checkedAt>>

\* FastAPI parses the body of a login, PATCH or POST before the dependencies.
RefuseBody(r) ==
    /\ pc[r] \in {"looking_up", "token"} /\ call[r].endpoint \in {"login", "student"}
    /\ Finish(r, "NOT_JSON", NoToken)
    /\ UNCHANGED <<World, tokens, clock, call, roles, checkedAt, seen>>

LookUp(r) ==
    /\ pc[r] = "looking_up"
    /\ mem' = [mem EXCEPT ![r] = accounts[call[r].user]]
    /\ pc' = [pc EXCEPT ![r] = "verifying"]
    /\ UNCHANGED <<World, tokens, clock, call, code, answer, roles, checkedAt, seen>>

\* One answer for an unknown email, a wrong password and an inactive user.
RefuseLogin(r) ==
    /\ pc[r] = "verifying" /\ ~Verified(mem[r], call[r].password)
    /\ Finish(r, "INVALID_CREDENTIALS", NoToken)
    /\ UNCHANGED <<World, tokens, clock, call, roles, checkedAt, seen>>

IssueToken(r) ==
    /\ pc[r] = "verifying" /\ Verified(mem[r], call[r].password)
    /\ LET t == [user |-> call[r].user, issued |-> clock, exp |-> Expiry(clock)]
       IN  tokens' = tokens \cup {t} /\ Finish(r, "OK", t)
    /\ UNCHANGED <<World, clock, call, roles, checkedAt, seen>>

RefuseToken(r) ==
    /\ pc[r] = "token"
    /\ \/ call[r].token = NoToken /\ Finish(r, "AUTHENTICATION_REQUIRED", NoToken)
       \/ call[r].token = Forged /\ Finish(r, "INVALID_TOKEN", NoToken)
       \/ /\ HasSubject(call[r]) /\ Expired(call[r].token, clock)
          /\ Finish(r, "TOKEN_EXPIRED", NoToken)
    /\ checkedAt' = [checkedAt EXCEPT ![r] = clock]
    /\ UNCHANGED <<World, tokens, clock, call, roles, seen>>

AcceptToken(r) ==
    /\ pc[r] = "token"
    /\ HasSubject(call[r]) /\ ~Expired(call[r].token, clock)
    /\ checkedAt' = [checkedAt EXCEPT ![r] = clock]
    /\ Goto(r, "user")
    /\ UNCHANGED <<World, tokens, clock, call, roles, seen>>

LoadUser(r) ==
    /\ pc[r] = "user"
    /\ IF Accepted(accounts[call[r].token.user])
       THEN Goto(r, "roles")
       ELSE Finish(r, "INVALID_TOKEN", NoToken)
    /\ UNCHANGED <<World, tokens, clock, call, roles, checkedAt, seen>>

\* The second SELECT: what it returns may be newer than the users row.
LoadRoles(r) ==
    /\ pc[r] = "roles"
    /\ LET loaded == RolesOf(accounts[call[r].token.user])
       IN  /\ roles' = [roles EXCEPT ![r] = loaded]
           /\ \/ ~Allowed(call[r].endpoint, loaded) /\ Finish(r, "ACCESS_DENIED", NoToken)
              \/ /\ Allowed(call[r].endpoint, loaded)
                 /\ \/ call[r].endpoint = "me" /\ Finish(r, "OK", NoToken)
                    \/ call[r].endpoint = "student" /\ Goto(r, "student")
                    \/ call[r].endpoint = "staff" /\ Goto(r, "entering")
    /\ UNCHANGED <<World, tokens, clock, call, checkedAt, seen>>

LoadStudent(r) ==
    /\ pc[r] = "student"
    /\ IF call[r].token.user \in linked
       THEN Goto(r, "entering")
       ELSE Finish(r, "ACCESS_DENIED", NoToken)
    /\ UNCHANGED <<World, tokens, clock, call, roles, checkedAt, seen>>

\* Path, query and body are validated, and the handler takes over if they pass.
Enter(r) ==
    /\ pc[r] = "entering"
    /\ Finish(r, "OK", NoToken) \/ Finish(r, "VALIDATION_ERROR", NoToken)
    /\ UNCHANGED <<World, tokens, clock, call, roles, checkedAt, seen>>

\* A statement of the request fails: the connection, or the database, is gone.
Fail(r) ==
    /\ pc[r] \in {"looking_up", "user", "roles", "student"}
    /\ Finish(r, "INTERNAL_SERVER_ERROR", NoToken)
    /\ UNCHANGED <<World, tokens, clock, call, roles, checkedAt, seen>>

Handle(r) ==
    \/ RefuseBody(r) \/ LookUp(r) \/ RefuseLogin(r) \/ IssueToken(r)
    \/ RefuseToken(r) \/ AcceptToken(r)
    \/ LoadUser(r) \/ LoadRoles(r) \/ LoadStudent(r) \/ Enter(r)

\* The account of u changes; the requests of u that are under way have seen it.
SetAccount(u) ==
    /\ changes < MaxChanges
    /\ changes' = changes + 1
    /\ \E a \in Account \cup {NoAccount} :
          /\ a # accounts[u]
          /\ accounts' = [accounts EXCEPT ![u] = a]
          /\ seen' = [r \in Requests |->
                IF pc[r] \notin {"idle", "done"} /\ HasSubject(call[r])
                   /\ Subject(call[r]) = u
                THEN seen[r] \cup {a} ELSE seen[r]]
    /\ UNCHANGED <<linked, tokens, clock, pc, call, mem, code, answer, roles, checkedAt>>

Tick ==
    /\ clock < MaxClock
    /\ clock' = clock + 1
    /\ UNCHANGED <<World, tokens, pc, call, mem, code, answer, roles, checkedAt, seen>>

\* Nothing is left to do.
Quiet == (\A r \in Requests : pc[r] = "done") /\ UNCHANGED vars

Init ==
    /\ accounts \in [Users -> Account \cup {NoAccount}]
    /\ linked \in SUBSET Users
    /\ tokens = EarlierTokens
    /\ clock = 0 /\ changes = 0
    /\ pc = [r \in Requests |-> "idle"]
    /\ call = [r \in Requests |-> NoCall]
    /\ mem = [r \in Requests |-> NoAccount]
    /\ code = [r \in Requests |-> "none"]
    /\ answer = [r \in Requests |-> NoToken]
    /\ roles = [r \in Requests |-> {}]
    /\ checkedAt = [r \in Requests |-> 0]
    /\ seen = [r \in Requests |-> {}]

Next ==
    \/ \E r \in Requests : Receive(r) \/ Handle(r) \/ Fail(r)
    \/ \E u \in Users : SetAccount(u)
    \/ Tick
    \/ Quiet

Spec == Init /\ [][Next]_vars

-----------------------------------------------------------------------------
ActiveAccount(a) == a # NoAccount /\ a.active

GrantFounded(r) ==
    /\ \E a \in seen[r] : ActiveAccount(a)
    /\ \E a \in seen[r] :
          /\ call[r].endpoint = "me" => roles[r] = RolesOf(a)
          /\ call[r].endpoint = "staff" => RolesOf(a) \cap StaffRoles # {}
          /\ call[r].endpoint = "student" =>
                "STUDENT" \in RolesOf(a) /\ call[r].token.user \in linked

\* Who gets past the guards of an endpoint had an active account at some
\* moment of the request, and roles that allow the endpoint at some moment
\* (not the same, perhaps: there are two SELECTs); what /auth/me returns are
\* roles the account had.  A body is validated only for such a caller.
GrantsAreFounded ==
    \A r \in Requests :
        code[r] \in {"OK", "VALIDATION_ERROR"} /\ call[r].endpoint # "login" =>
            GrantFounded(r)

RefusalFounded(r) ==
    /\ code[r] = "INVALID_CREDENTIALS" =>
          \E a \in seen[r] : ~(ActiveAccount(a) /\ a.password = call[r].password)
    /\ code[r] = "INVALID_TOKEN" /\ HasSubject(call[r]) =>
          \E a \in seen[r] : ~ActiveAccount(a)
    /\ code[r] = "ACCESS_DENIED" =>
          \/ call[r].endpoint = "student" /\ call[r].token.user \notin linked
          \/ call[r].endpoint = "student" /\ \E a \in seen[r] : "STUDENT" \notin RolesOf(a)
          \/ call[r].endpoint = "staff" /\ \E a \in seen[r] : RolesOf(a) \cap StaffRoles = {}

\* A refusal is the account's doing: at some moment of the request it was not
\* what the answer says it should have been.
RefusalsAreFounded == \A r \in Requests : RefusalFounded(r)

\* Every token was given to a client whose password was that of the account
\* while the account was active, at one and the same moment.
TokensAreEarned ==
    \A t \in tokens \ EarlierTokens : \E r \in Requests :
        /\ call[r] # NoCall /\ call[r].endpoint = "login" /\ call[r].user = t.user
        /\ code[r] = "OK" /\ answer[r] = t
        /\ \E a \in seen[r] : ActiveAccount(a) /\ a.password = call[r].password

\* expires_in is the lifetime the client is told.  A token is never accepted
\* after it, and is refused as expired at most one second before its end: that
\* is what cutting exp to whole seconds may cost.
TokenLifetime ==
    \A r \in Requests :
        call[r] # NoCall /\ call[r].endpoint # "login" /\ HasSubject(call[r]) =>
            LET end == call[r].token.issued + Lifetime * Second
            IN  /\ pc[r] \notin {"token", "idle"} /\ code[r] # "TOKEN_EXPIRED" =>
                      checkedAt[r] < end
                /\ code[r] = "TOKEN_EXPIRED" => checkedAt[r] + Second > end
=============================================================================
