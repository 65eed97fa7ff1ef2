CONSTANTS
    Goroutines = {g1, g2, g3}
    Lifetimes = {0, 3, 5}
    Margin = 2
    MaxFetch = 1
    MaxCalls = 3
    Horizon = 5
SPECIFICATION FairSpec
PROPERTIES
    CachedTokenOutlivesMargin
    NoRedundantFetch
    EveryCallReturns
