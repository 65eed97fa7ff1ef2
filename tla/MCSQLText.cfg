SPECIFICATION TextSpec
CONSTANTS
    MaxScript = 6
    MaxCells = 2
    MaxCell = 2
INVARIANTS
    SplitsWhereStatementsEnd
    SubmittedAsWritten
    ValuesArrive
CHECK_DEADLOCK FALSE
