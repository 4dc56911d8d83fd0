SPECIFICATION AccessSpec
CONSTANTS
    Ids = {i1, i2}
    Emails = {e1, e2}
    t1 = t1
    t2 = t2
    t3 = t3
    Tenants <- MCTenants
    Default = t1
    Threads = {r1, r2}
    Changes <- MCChanges
    Keep = Keep
    All = All
    MaxPw = 2
    Solo = TRUE
SYMMETRY Interchangeable
INVARIANTS AccessTypeOK AdminRemains SessionsRevoked EmailsUnique SetupOnce
CHECK_DEADLOCK FALSE
