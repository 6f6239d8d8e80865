SPECIFICATION FairSpec
CONSTANTS
    Callers = {c1, c2}
    Ops = {o1, o2}
    Polls = {p1}
    Leases = {l1}
    None = None
INVARIANTS CardUndisturbed DrainedIsQuiet
PROPERTIES TakesTurns StopReturns SilentLeaseEnds
CHECK_DEADLOCK FALSE
