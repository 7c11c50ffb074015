SPECIFICATION FairSpec
CONSTANTS
    Tenants = {t1, t2}
    EventTypes = {confirmed}
    Subscriptions = {w1, w2}
    Dispatches = {d1}
    Retries = {r1, r2}
    None = None
    MaxRestarts = 1
INVARIANTS
    AnsweredIsLogged
    LogNeverOverstates
PROPERTY RequestsEnd
CHECK_DEADLOCK FALSE
