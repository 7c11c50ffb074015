SPECIFICATION FairSpec
CONSTANTS
    Signups = {u1, u2}
    Threads = {q1}
    Emails = {m1}
    Roles = {customer, admin}
    Admin = admin
    None = None
    AccessTTL = 2
    RefreshTTL = 3
    MaxDelay = 1
    MaxTenants = 1
INVARIANTS
    OneAccountPerEmail
    StaleRoleIsBounded
    TenantsComeFromAdmins
PROPERTY RemovedIsLockedOut
CHECK_DEADLOCK FALSE
