SPECIFICATION FairSpec
CONSTANTS
    s1 = s1  s2 = s2  s3 = s3
    o1 = o1  o2 = o2  o3 = o3
    a = a  b = b
    Orders = {o1, o2}
    Sagas = {s1, s2}
    NoOrder = NoOrder
    Items = {a, b}
    Carts <- MCCarts
    InitialStock <- MCStock
    Faults <- MCAllFaults
    AdapterParams <- MCEndpoint
INVARIANTS
    TypeOK
    ConfirmedPaidAndHeld
    OneChargePerOrder
    CancelledAfterPaymentIsRefunded
    StockOnlyForPaidOrders
    AuditTrail
    OrderRowNeverAhead
PROPERTIES
    CompletedIsFinal
    SagasFinish
    ImplementsOutcome
CHECK_DEADLOCK FALSE
