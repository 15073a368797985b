SPECIFICATION FairSpec
CONSTANTS
    Requests = {r1, r2}
    Students = {s1}
    Fields = {phone, country}
    CountryField = country
    Values = {v1, v2}
    Countries = {v1}
    Null = Null
    Unset = Unset
    NoStudent = NoStudent
    NoRow = NoRow
INVARIANTS
    TypeOK
    LastPatchWins
    ChangesAreAnswered
PROPERTIES
    OnlyNamedFieldsChange
    EveryRequestEnds
