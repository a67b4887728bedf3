CONSTANTS
    Events = {e1, e2}
    Workers = {w1, w2}
    BufferSize = 1
    None = None
    Alerting = {e1}
    MaxAttempts = 3
SPECIFICATION DFairSpec
INVARIANTS
    DeliveryTypeOK
    ExactlyOnePlace
    DrainIsComplete
    OutcomeIsHonest
PROPERTIES
    ImplementsHandoff
    BufferedIsHandled
    ShutdownEnds
    WebhooksSettle
\* The process ends.
CHECK_DEADLOCK FALSE
