SPECIFICATION FairSpec
CONSTANTS
    Workers = {w1, w2, w3}
    w1 = w1
    w2 = w2
    w3 = w3
    Sessions = {s1, s2}
    s1 = s1
    s2 = s2
    None = None
    MaxCalls = 4
    MaxLost = 1
    Faults = {"expire", "timeout"}
INVARIANTS
    OneLiveSession
PROPERTIES
    CloseReleasesCapacity
    EveryCallReturns
