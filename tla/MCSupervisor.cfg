SPECIFICATION PartsSpec
CONSTANTS
    Devices = {usb1}
    Readers = {r1, r2}
    Modes = {rw}
    Setters = {s1}
    None = None
    Tappable <- TheTappable
    NoVersion = NoVersion
    MaxPlaced = 2
    MaxTaken = 1
    MaxTroubles = 1
INVARIANTS ReadersAccounted NothingMissed
PROPERTIES StopEndsAll CardIsFollowed
CHECK_DEADLOCK FALSE
