SPECIFICATION FairSpec
CONSTANTS
    Workers = {w1, w2, w3}
    w1 = w1
    w2 = w2
    w3 = w3
    REPLs = {r1, r2}
    r1 = r1
    r2 = r2
    None = None
    MaxREPLs = 1
    MaxCalls = 3
    UserCancels = TRUE
PROPERTIES
    EveryCallReturns
