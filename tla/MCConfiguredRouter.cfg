SPECIFICATION CRSpec
CONSTANTS
    Entries = {k1, p1}
    Values = {x, y}
    Absent = absent
    KeyNames = {k1}
    Odd = {}
    MaxHistory = 3
    MaxVersion = 4
INVARIANTS
    CRTypeOK
    SnapshotsAreFaithful
    PreviousVersionIsKept
    PoliciesInStep
PROPERTIES
    RollbackRestores
