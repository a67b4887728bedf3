CONSTANTS
    Requests = {r1, r2}
    FailureThreshold = 3
    FailureWindow = 2
    Cooldown = 4
    MaxFaults = 0
SPECIFICATION Spec
INVARIANT CacheHoldsPrimaryOnly
