SPECIFICATION FairSpec
CONSTANTS
    Conns = {c1, c2}
    Ids = {i1}
    Requests = {}
    Tags = {t1}
    Failed = failed
    None = None
PROPERTIES Unregistered
CHECK_DEADLOCK FALSE
