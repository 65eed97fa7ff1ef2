SPECIFICATION FairSpec
CONSTANTS
    StatementTimeoutSeconds = 6
    PollIntervalMillis = 2
    PollStep = 2
    PollCeiling = 3
    NotFoundLimit = 2
    MaxRequest = 2
    MaxMisses = 3
    Horizon = 13
INVARIANTS
    ResultIsTrue
    DisappearedIsReal
    TimelyReturn
    FinishedIsNoticed
PROPERTIES
    PollReturns
