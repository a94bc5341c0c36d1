CONSTANTS
    good = good
    bad = bad
    id = id
    extra = extra
    Null = Null
    Values = {good, bad}
    Invalid = {bad}
    Counts = {0, 1, 120}
    Schemas <- MCSchemas
    Ages = {49, 50}
    Thresholds = {50}
    MaxEdits = 1
    MaxChanges = 2

SPECIFICATION Spec

INVARIANTS
    TypeOK
    PassMeansDescribed
    EmptiedTableFails
    IdentifierIsKey

PROPERTIES
    GoodRowsNeverHurt
    BadRowsNeverHeal
