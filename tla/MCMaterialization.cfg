CONSTANTS
    Keys = {k1}
    Null = Null
    Times = {1, 2}
    Vals = {a, b}
    Windows <- MCWindows
    UpdateOnMerge = {"val"}
    MaxAttempts = 2
    MaxChanges = 1
    MaxDelays = 1
SYMMETRY Symmetry
SPECIFICATION Spec
INVARIANTS
    RerunEqualsCleanRun
    NeverPartial
    AntiJoinDedupes
