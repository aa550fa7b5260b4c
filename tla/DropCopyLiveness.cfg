SPECIFICATION FairSpec
CONSTANTS
    Orders = {o1, o2}
    RetryLogon = TRUE
    TradesLookback = TRUE
    Faults = {"login", "order_status"}
    MaxSessions = 2
    MaxQueries = 3
INVARIANTS
    OpenOrdersKnown
PROPERTIES
    EventuallyReady
    StaleIsResolved
CHECK_DEADLOCK FALSE
