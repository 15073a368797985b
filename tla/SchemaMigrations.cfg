SPECIFICATION FairSpec
CONSTANTS
    Migrators = {m1, m2}
    Sessions = {s1}
    MaxRuns = 2
INVARIANTS
    TypeOK
    CatalogMatchesRevision
    HeadServesEntities
PROPERTIES
    MigrationsFailFoundedly
    SessionsFailFoundedly
    EveryProcessEnds
