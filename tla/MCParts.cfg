SPECIFICATION PartsSpec
CONSTANTS
    Requests <- MCRequests
    PageSize = 4
    MaxRecords = 3
    MaxWrites = 2
    Nothing = Nothing
    Configurations <- MCConfigurations
    LRPCard = FALSE
    UID = "u"
    MaxCounter = 1
    MaxPlans = 2
    Refused = Refused
    MaxAttempts = 1
    MaxSockets = 3
    Questions = {q1}
    Devices = {local, phone}
    Local = local
    UIDs = {u1}
    Nobody = Nobody
    MaxTries = 1
    MaxLinks = 2
    Sequences = {s1, s2}
    Singles = {x1}
    Ids = {i1, i2}
    Devs = {d1, d2, d3}
    MaxSteps = 1
    None = None
INVARIANTS WrittenIsRead FreshOnce DropIsHandled TagAsReported PhoneKeepsTrying
PROPERTIES SlotIsShared UpdateKeepsOwn PlannedTapVerifies
CHECK_DEADLOCK FALSE
