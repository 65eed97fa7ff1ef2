SPECIFICATION Spec
CONSTANTS
    Workers = {w1, w2, w3}
    w1 = w1
    w2 = w2
    w3 = w3
    REPLs = {r1, r2, r3}
    r1 = r1
    r2 = r2
    r3 = r3
    None = None
    MaxREPLs = 2
    MaxCalls = 5
    UserCancels = FALSE
SYMMETRY Symmetry
INVARIANTS
    LiveCountExact
    ReturnNeverBlocks
    ExclusiveREPL
    RejectedREPLNeverReused
    PooledREPLsIdle
PROPERTIES
    ImplementsLease
    CloseReturnsAllSlots
