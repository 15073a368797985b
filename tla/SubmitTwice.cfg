SPECIFICATION Spec
CONSTANTS
    Requests = {r1, r2}
    Students = {s1}
    Programs = {p1}
    Apps = {a1}
    MaxClock = 2
    Earlier = {a1}
    NoApp = NoApp
    NoProgram = NoProgram
    NoCall = NoCall
    NoRow = NoRow
INVARIANTS
    OneSubmitSucceeds
