SPECIFICATION Spec
CONSTANTS
    Requests = {r1, r2}
    Students = {s1}
    Fields = {phone}
    CountryField = country
    Values = {v1, v2}
    Countries = {v1}
    Null = Null
    Unset = Unset
    NoStudent = NoStudent
    NoRow = NoRow
INVARIANTS
    ProfileIsCreated
