SPECIFICATION Spec
CONSTANTS
    Orders = {o1, o2}
    RetryLogon = TRUE
    TradesLookback = TRUE
    Faults = {"login", "subscribe", "order_list", "order_status"}
    MaxSessions = 3
    MaxQueries = 3
SYMMETRY Symmetry
INVARIANTS
    TypeOK
    QueriesCounted
    NeverOutOfStep
    DownloadIsAwaited
    ReadyIsSubscribed
    Reconciled
PROPERTIES
    TerminalIsFinal
    StaleBeforeTrades
CHECK_DEADLOCK FALSE
