SPECIFICATION EventsSpec
CONSTANTS
    Calls = {c1, c2}
    Keys = {k1, k2}
    None = None
    Relays = {r1}
    BatchSize = 2
    MaxRetries = 2
    MaxCrashes = 0
    Consumers = {p}
    ConsumerBatch = 1
    MaxMessages = 4
    MaxLen = 4
    Events = {c1, c2}
    Notifiable = {}
    Poison = {}
    MaxFaults = 1
    MaxFailures = 1
PROPERTIES
    AtLeastOnce
CHECK_DEADLOCK FALSE
