SPECIFICATION DataFairSpec
CONSTANTS
    RequestLimit = 1
    TradesLookback = 1
    RestartLookback = 2
    MaxAsks = 6
    MaxBacklog = 1
    MaxConnects = 2
    Sizes <- SizesAfterFills
    External = {1}
    Earlier = 2
    AsksAgain = TRUE
    MaxSessions = 2
INVARIANTS
    TypeOK
    OneAtATime
    RestartCovered
    FillsAddUp
    PositionFollows
PROPERTIES
    ServesRequests
