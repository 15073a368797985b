SPECIFICATION Spec
CONSTANTS
    Runs = {s1, s2, s3}
    Passwords = {p1}
    Missing = {}
    Doubled = {}
    MaxChanges = 0
    NoPassword = NoPassword
    NoUser = NoUser
SYMMETRY Symmetry
INVARIANTS
    TypeOK
    AllOnceOrNothing
    OneRunFillsTheDatabase
    SeedIsRepeatable
