SPECIFICATION FairSpec
CONSTANTS
    Requests = {r1, r2}
    Students = {s1, s2}
    Programs = {p1}
    Apps = {a1, a2, a3}
    MaxClock = 2
    Earlier = {a1}
    NoApp = NoApp
    NoProgram = NoProgram
    NoCall = NoCall
    NoRow = NoRow
INVARIANTS
    AcknowledgedIsDurable
    RefusalsAreTrue
PROPERTIES
    ImplementsLifecycle
    EveryRequestEnds
