SPECIFICATION Spec
CONSTANTS
    Workers = {w1, w2, w3}
    w1 = w1
    w2 = w2
    w3 = w3
    Sessions = {s1, s2, s3}
    s1 = s1
    s2 = s2
    s3 = s3
    None = None
    MaxCalls = 3
    MaxLost = 1
    Faults = {"unlisted", "start", "expire", "timeout", "lost", "close"}
SYMMETRY Symmetry
INVARIANTS
    CallerUsesCachedSession
    CachedSessionStarted
    ExtraExecutionsWereLost
PROPERTIES
    LiveSessionNeverDropped
