CONSTANTS
    d1 = d1
    d2 = d2
    c1 = c1
    h1 = h1
    h2 = h2
    o1 = o1
    o2 = o2
    l1 = l1
    l2 = l2
    Torn = Torn
    None = None
    MaxFailures = 2
    Devices <- MCDevices
    Conns <- MCConns
    Handlers <- MCHandlers
    Origins <- MCOrigins
    Shipped <- MCShipped
    Loggers <- MCLoggers
    MaxHappenings = 3
    RingSize = 2
    LogSize = 1
    OutSize = 2
SPECIFICATION PartsSpec
SYMMETRY Symmetry
INVARIANTS AnswersStand GuessesBounded PageIsTold
CHECK_DEADLOCK FALSE
