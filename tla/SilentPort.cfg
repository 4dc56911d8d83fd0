SPECIFICATION Spec
CONSTANTS
    Stages = {s1, s2}
    Readers = {g1}
    Cids = {c1, c2}
    MaxRows = 3
    MaxUpserts = 3
    MaxSessions = 2
    Pool <- MCPool
    Cap <- MCCap
    Tenants = {t1, t2}
    Keys <- MCKeys
    Searchers = {h1}
    MaxSaves = 2
    MaxJobs = 2
    Clients = {u1, u2}
    MaxFailed = 3
    Window = 3
    Penalty = 2
    Second = 2
    MaxTime = 8
    Lookups = {l1, l2}
    Ttl = 2
    MaxAge = 3
    Hosts = {n1, n2, n3}
    Signatures = {one, two}
    PluginCount = 2
    Concurrency = 2
    Pages = {1, 2, 3, 4}
    MaxPages = 3
    MaxDepth = 2
    PortKind <- MCPortKind
    GhostLimit = 2
    NmapLimit = 2
    MaxFindings = 2
SYMMETRY Interchangeable
INVARIANTS ConfirmedIsVerified
CHECK_DEADLOCK FALSE
