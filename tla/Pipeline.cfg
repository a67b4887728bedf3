CONSTANTS
    e1 = e1
    e2 = e2
    e3 = e3
    Events <- MCEvents
    Featured <- MCFeatured
    Answered <- MCAnswered
    NumWorkers = 2
    Threshold = 1
    Budget = 1
    ListCap = 1
    MaxFaults = 1
    Runes = {"a", "b"}
    RuneCap = 3
    MaxText = 4
    Metrics <- MCMetrics
    Baselines <- MCBaselines
SPECIFICATION Spec
SYMMETRY Alike
INVARIANTS
    TypeOK
    OneAlertPerDay
    CrossingAlerted
    DriftBounded
    NewestKept
    ComparedByEdits
PROPERTY ImplementsDailyAlert
CHECK_DEADLOCK FALSE
