SPECIFICATION FairSpec
CONSTANTS
    l1 = l1
    l2 = l2
    Levels = {l1, l2}
    MaxChanges = 5
    LevelOf <- MCLevelOf
    MaxRetries = 2
    Lag = 2
    MaxConnects = 2
    MaxErrors = 1
    MaxRefusals = 1
INVARIANTS
    TypeOK
    SnapshotIsAwaited
PROPERTIES
    ImplementsBookFeed
    EventuallyFollowed
CHECK_DEADLOCK FALSE
