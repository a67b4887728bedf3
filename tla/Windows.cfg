SPECIFICATION Spec
CONSTANTS
    Calls = {c1, c2, c3, c4, c5}
    Kinds = {"rate", "retry"}
    Minute = 3
    Window <- MCWindow
    Limit = 2
    MaxDelay = 1
    MaxTime = 5
    MaxFaults = 1
SYMMETRY Symmetry
INVARIANTS
    TypeOK
    LimitKept
    OverIsRecent
    BurstBounded
CHECK_DEADLOCK FALSE
