SPECIFICATION Spec
CONSTANTS
    c1 = c1  c2 = c2  c3 = c3
    k1 = k1  k2 = k2  k3 = k3
    Calls = {c1, c2, c3}
    Keys = {k1, k2, k3}
    Items = {1, 2}
    None = None
    InitialStock <- MCTwo
    Requests <- MCLostUpdate
    MaxRestarts = 0
INVARIANT StockConservation
CHECK_DEADLOCK FALSE
