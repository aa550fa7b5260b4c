SPECIFICATION Spec
CONSTANTS
    o1 = o1
    s1 = s1
    s2 = s2
    Orders = {o1}
    Symbols = {s1, s2}
    NoOrder = NoOrder
    SymbolOf <- Contracts
    MaxCancelAll = 1
    MaxFrames = 2
INVARIANTS
    AnswerHasTheType
CHECK_DEADLOCK FALSE
