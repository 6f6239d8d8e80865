CONSTANTS
    Chunks = 3
    Records = {"a", "n"}
    Keys = {"factory", "forum", "mad", "foreign"}
    Provisioned <- TheCards
    Requests <- TheRequests
    Candidates <- NoKeys
    MaxFaults = 3
    MaxOps = 3
SPECIFICATION WriteSpec
CHECK_DEADLOCK FALSE
INVARIANT ReportedIsThere
INVARIANT FailureHasFault
PROPERTY FormatPreflighted
