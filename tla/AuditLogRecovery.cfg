SPECIFICATION LogSpec
CONSTANTS
    AnchorEvery = 2
    SegmentLines = 3
    MaxTried = 8
    MaxFaults = 2
    Troubles = {{"crash", "recovery"}}
INVARIANTS
    StartsAgain
CHECK_DEADLOCK FALSE
