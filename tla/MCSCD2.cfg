SYMMETRY Symmetry
SPECIFICATION Spec
CONSTANTS
    Keys = {k1, k2}
    Values = {a, b}
    Null = Null
    Strategies = {"by_column", "by_column_with_key", "by_time"}
    MaxTime = 2
    MaxVersions = 2
INVARIANTS
    OneCurrentVersion
    HistoryIsALine
PROPERTIES
    HistoryIsKept
    RerunChangesNothing
    ImplementsLatestRows
