SPECIFICATION Spec
CONSTANTS
    Requests = {r1, r2}
    Users = {u1}
    Passwords = {p1}
    StaffRoles = {}
    Second = 2
    Lifetime = 1
    EarlierTokens <- Held
    MaxClock = 3
    MaxChanges = 1
    NoAccount = NoAccount
    NoPassword = NoPassword
    NoToken = NoToken
    Forged = Forged
    NoCall = NoCall
SYMMETRY Symmetry
INVARIANTS
    TokensAreEarned
    TokenLifetime
