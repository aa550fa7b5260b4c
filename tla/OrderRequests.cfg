SPECIFICATION FairSpec
CONSTANTS
    o1 = o1
    s1 = s1
    s2 = s2
    Orders = {o1, o2}
    Symbols = {s1, s2}
    NoOrder = NoOrder
    SymbolOf <- Contracts
    MaxCancelAll = 1
    MaxFrames = 2
INVARIANTS
    TypeOK
    AnsweredOnce
    AnswersAreTrue
    CancelAllIsComplete
PROPERTIES
    EventuallyAnswered
CHECK_DEADLOCK FALSE
