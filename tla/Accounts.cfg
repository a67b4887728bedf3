SPECIFICATION Spec
CONSTANTS
    Requests = {"q1", "q2", "q3"}
    Slugs = {"s1", "s2"}
    Emails = {"e1", "e2"}
    Lifetime = 1
    MaxTime = 2
    MaxFaults = 1
INVARIANTS
    AccountsAreSound
CHECK_DEADLOCK FALSE
