SPECIFICATION FairSpec
CONSTANTS
    Runs = {r1}
    Cases = {c1, c2, c3}
    Slots = 2
    Requested <- MCRequested
    MaxFaults = 1
INVARIANTS
    TypeOK
    RunRowIsHonest
    UnscoredNeverPasses
PROPERTIES
    RunsEnd
CHECK_DEADLOCK FALSE
