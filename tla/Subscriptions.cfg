SPECIFICATION FairSpec
CONSTANTS
    Symbols = {s1, s2, s3, s4}
    Discarded = {s4}
    Wanted = {s3}
    SliceSize = 2
    DisableCurrencies = FALSE
    MaxConnects = 3
    MaxErrors = 1
INVARIANTS
    TypeOK
    EverySymbolHasAStream
    ReadyIsSubscribed
    DownloadIsAwaited
PROPERTIES
    EventuallySubscribed
CHECK_DEADLOCK FALSE
