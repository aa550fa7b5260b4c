SPECIFICATION FairSpec
CONSTANTS
    Requests <- ClientRequests
    Changes <- Amendments
    NoOrder = NoOrder
    MaxSessions = 2
    MaxFrames = 2
INVARIANTS
    ReportedAsAsked
    ExecutedAsAsked
    OrderFollows
PROPERTIES
    EventuallyResolved
CHECK_DEADLOCK FALSE
