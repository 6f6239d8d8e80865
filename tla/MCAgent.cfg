SPECIFICATION PartsSpec
CONSTANTS
    Callers = {tray}
    Modes = {full}
    DefaultMode = full
    MaxRuns = 2
    MaxIssues = 2
    None = None
    Order <- MCOrder
    PathOf <- MCPathOf
    Callees = {w1, w2}
    MaxEvents = 3
INVARIANTS StoppedIsUnwound StaleIsAccounted NobodyUnwoken
PROPERTIES NewestServed WatchesEnd
CHECK_DEADLOCK FALSE
