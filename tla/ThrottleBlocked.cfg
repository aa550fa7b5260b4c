SPECIFICATION Spec
CONSTANTS
    Connections = {c1, c2}
    Enabled = TRUE
    DefaultBackoff = 2
    BlockedBackoff = 4
    Offset = 4
    Limit = 2
    Window = 3
    MaxTime = 8
SYMMETRY Symmetry
INVARIANTS
    BlockedBacksOff
CHECK_DEADLOCK FALSE
