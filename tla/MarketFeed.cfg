SPECIFICATION Spec
CONSTANTS
    Symbols = {s1, s2}
    NoSymbol = NoSymbol
    TimeSeriesLookback = TRUE
    Realtime = FALSE
    Times <- TradeTimes
    MaxMessages = 2
    MaxItems = 3
    MaxConnects = 2
    MaxErrors = 1
SYMMETRY Symmetry
INVARIANTS
    UpdatesAreWhole
    HistoryIsAwaited
CHECK_DEADLOCK FALSE
