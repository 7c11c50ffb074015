SPECIFICATION FairGroupSpec
CONSTANTS
    Consumers = {p, q}
    MaxMessages = 3
    ConsumerBatch = 2
    MaxLen = 1
    Events = {confirmed, broken}
    Notifiable = {confirmed}
    Poison = {broken}
    MaxFaults = 2
INVARIANTS
    NothingForgotten
    HandledOnce
    LossIsBounded
    NotifiedOncePerProcess
PROPERTY RecoversAfterFaults
CHECK_DEADLOCK FALSE
