SPECIFICATION FairSpec
CONSTANTS
    Conns = {c1, c2}
    Readers = {r1}
    Tags = {t1, t2}
    Leases = {l1}
    Requests <- MCRequests
    RequestQueue = 1
    MaxAsked = 2
    None = None
    r1 = r1
    t1 = t1
INVARIANTS LeaseAccounted NamedTagOnly
PROPERTIES LetsGo
CHECK_DEADLOCK FALSE
