SPECIFICATION Spec
CONSTANTS
    Requests = {r1, r2}
    Users = {u1}
    Students = {u1, s2}
    Programs = {p1}
    Apps = {a1, a2}
    Earlier = {a1}
    Tokens <- Held
    MaxClock = 2
    MaxChanges = 1
    NoAccount = NoAccount
    NoPassword = NoPassword
    NoToken = NoToken
    Forged = Forged
    NoCall = NoCall
    NoApp = NoApp
    NoProgram = NoProgram
    NoRow = NoRow
SYMMETRY Symmetry
INVARIANTS
    AnswersAreTheCallers
PROPERTIES
    OnlyAdmittedCommit
    DraftsOfOfferedPrograms
