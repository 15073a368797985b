SPECIFICATION Spec
CONSTANTS
    Requests = {r1, r2, r3}
    Students = {s1}
    Programs = {p1}
    Apps = {a1, a2}
    MaxClock = 2
    Earlier = {a1}
    NoApp = NoApp
    NoProgram = NoProgram
    NoCall = NoCall
    NoRow = NoRow
SYMMETRY Symmetry
INVARIANTS
    TypeOK
    LateRequestsAgree
    SessionsAgreeWithTable
PROPERTIES
    RowsMoveForward
