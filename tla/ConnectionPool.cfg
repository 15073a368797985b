SPECIFICATION FairSpec
CONSTANTS
    Requests = {r1, r2, r3}
    Size = 1
    Overflow = 1
    MaxOutages = 1
    NoRecord = NoRecord
    Broken = Broken
    Nobody = Nobody
INVARIANTS
    TypeOK
    RecordsAccounted
    PoolDrains
    FailuresAreFounded
    ReadyMeansUp
PROPERTIES
    EveryRequestEnds
