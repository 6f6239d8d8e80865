SPECIFICATION Spec
CONSTANTS
    Conns = {c1, c2}
    Ids = {i1, i2}
    Requests = {r1}
    Tags = {}
    Failed = failed
    None = None
SYMMETRY Symmetry
INVARIANTS NoOrphan NobodyStranded
CHECK_DEADLOCK FALSE
