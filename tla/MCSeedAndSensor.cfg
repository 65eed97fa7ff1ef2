SPECIFICATION Spec
CONSTANTS
    Sizes <- MCSizes
    BatchSize = 2
    SensorTimeout = 3
    PokeInterval = 2
    PokeMax = 1
    MaxRuns = 3
    MaxLate = 2
    Horizon = 8
INVARIANTS
    SeedReplacesTable
    SensorReturnsInTime
    TableIsNoticed
CHECK_DEADLOCK FALSE
