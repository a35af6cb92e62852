SPECIFICATION LogSpec
CONSTANTS
    AnchorEvery = 2
    SegmentLines = 3
    MaxTried = 6
    MaxFaults = 2
    Troubles = {{"power", "write"}}
INVARIANTS
    AckedKept
CHECK_DEADLOCK FALSE
