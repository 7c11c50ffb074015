SPECIFICATION FairSpec
CONSTANTS
    MaxRequests = 2
    WindowSeconds = 2
    TicksPerSecond = 2
    FailureThreshold = 2
    RecoveryTicks = 1
    Tasks = {t1, t2}
    MaxRetries = 1
    MaxErrors = 3
INVARIANTS
    SlidingLimit
    RetryAfterSuffices
    ClosedBelowThreshold
PROPERTIES
    OpenAdmitsNobody
    NeverStuckOpen
CHECK_DEADLOCK FALSE
