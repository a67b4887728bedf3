CONSTANTS
    f1 = f1
    f2 = f2
    u1 = u1
    set = set
    Off = Off
    NoRow = NoRow
    Rows <- MCRows
    Values <- MCValues
    Posts = {p1, p2}
    MaxFaults = 1
SPECIFICATION FairSpec
INVARIANTS
    TypeOK
    CacheWasTable
PROPERTIES
    SavedIsVisible
    Converges
