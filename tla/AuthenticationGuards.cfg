SPECIFICATION Spec
CONSTANTS
    Requests = {r1}
    Users = {u1}
    Passwords = {p1, p2}
    StaffRoles = {"LECTURER"}
    Second = 2
    Lifetime = 1
    EarlierTokens <- Held
    MaxClock = 0
    MaxChanges = 2
    NoAccount = NoAccount
    NoPassword = NoPassword
    NoToken = NoToken
    Forged = Forged
    NoCall = NoCall
INVARIANTS
    TypeOK
    GrantsAreFounded
    RefusalsAreFounded
