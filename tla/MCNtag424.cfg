SPECIFICATION Spec
CONSTANTS
    KeyNos <- MCKeyNos
    Msgs = {old, new}
    Old = old
    FailLimit = 3
    KeySets <- MCKeySets
    Provisioned <- MCProvisioned
    Plans <- MCPlans
    Kinds = {"read", "write", "writable", "lock", "change", "key", "lrp", "sig", "version", "uid", "sdm", "settings"}
    MaxFaults = 1
    MaxForeign = 1
    MaxSets = 2
    MaxOps = 2
INVARIANT NeverMixed
INVARIANT ReportIsTrue
INVARIANT LockoutBounded
CHECK_DEADLOCK FALSE
