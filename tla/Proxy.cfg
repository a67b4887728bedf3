CONSTANTS
    Requests = {r1, r2}
    FailureThreshold = 3
    FailureWindow = 2
    Cooldown = 4
    MaxFaults = 1
SPECIFICATION FairSpec
INVARIANTS
    TypeOK
    CleanSlateAfterCooldown
    GoodAnswerDelivered
PROPERTIES
    HealthRecovers
    ImplementsBreaker
