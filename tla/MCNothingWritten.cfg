SPECIFICATION Spec
CONSTANTS
    KeyNos <- MCKeyNos
    Msgs = {old, new}
    Old = old
    FailLimit = 3
    KeySets <- MCKeySets
    Provisioned <- MCProvisioned
    Plans <- MCPlans
    Kinds = {"read", "write", "writable", "lock", "change", "key", "lrp", "sig", "version", "uid", "sdm", "settings"}
    MaxFaults = 2
    MaxForeign = 0
    MaxSets = 2
    MaxOps = 2
CHECK_DEADLOCK FALSE
INVARIANT NothingWritten
