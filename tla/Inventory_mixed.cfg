SPECIFICATION FairSpec
CONSTANTS
    c1 = c1  c2 = c2  c3 = c3
    k1 = k1  k2 = k2  k3 = k3
    Calls = {c1, c2, c3}
    Keys = {k1, k2, k3}
    Items = {1, 2, 3}
    None = None
    InitialStock <- MCStock
    Requests <- MCMixed
    MaxRestarts = 1
INVARIANTS
    NoOversell
    ReservesConserveStock
    AcknowledgedIsStored
PROPERTY CallsEnd
CHECK_DEADLOCK FALSE
