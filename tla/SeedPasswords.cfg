SPECIFICATION FairSpec
CONSTANTS
    Runs = {s1, s2}
    Passwords = {p1, p2}
    Missing = {"mapping"}
    Doubled = {"course"}
    MaxChanges = 1
    NoPassword = NoPassword
    NoUser = NoUser
INVARIANTS
    DuplicatesNeedOverlap
    DemoUserCanLogIn
PROPERTIES
    EveryRunEnds
