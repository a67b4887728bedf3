CONSTANTS
    t1 = t1
    t2 = t2
    t3 = t3
    t4 = t4
    t5 = t5
    Traces = {t1, t2, t3, t4}
    Limited <- MCLimited
    Cost <- MCCost
    MaxSteps = 2
    MaxCost = 3
    NumWorkers = 2
    MaxResets = 1
    MaxFaults = 0
SYMMETRY MCSymmetry
SPECIFICATION Spec
INVARIANTS
    TypeOK
    OvershootBounded
    LimitNeverMissed
    NothingOrphaned
PROPERTIES
    ImplementsLedger
\* All requests may be done and the session closed.
CHECK_DEADLOCK FALSE
