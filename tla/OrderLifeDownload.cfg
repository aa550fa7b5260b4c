SPECIFICATION Spec
CONSTANTS
    Requests <- ClientRequests
    Changes <- Amendments
    NoOrder = NoOrder
    MaxSessions = 2
    MaxFrames = 2
INVARIANTS
    DownloadedIsLimit
CHECK_DEADLOCK FALSE
