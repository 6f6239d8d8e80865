SPECIFICATION ManagerFairSpec
CONSTANTS
    Polls = {p1, p2}
    Ctor = ctor
    Handles = {h1, h2}
    Lanes = {usb1, usb2}
    NoLane = noLane
    Assignments = {usb1, noLane}
    MaxRetries = 1
    MaxAttempts = 2
    Nothing = Nothing
INVARIANTS DeviceIsOwn
PROPERTIES PollsEnd Reconnects
CHECK_DEADLOCK FALSE
