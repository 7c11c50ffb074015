SPECIFICATION EventsSpec
CONSTANTS
    Calls = {c1, c2}
    Keys = {k1, k2}
    None = None
    Relays = {r1, r2}
    BatchSize = 2
    MaxRetries = 2
    MaxCrashes = 1
    Consumers = {p}
    ConsumerBatch = 1
    MaxMessages = 10
    MaxLen = 10
    Events = {c1, c2}
    Notifiable = {}
    Poison = {c2}
    MaxFaults = 0
    MaxFailures = 1
INVARIANTS
    EventIffOrder
    PublishedIsOnStream
PROPERTIES
    OrdersReachAHandler
CHECK_DEADLOCK FALSE
