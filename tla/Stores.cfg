SPECIFICATION MCSpec
CONSTANTS
    w1 = w1
    w2 = w2
    Worker = {w1, w2}
    Run = {1, 2}
    NumPhases = 2
    Estimate = 2
    Actual = {1, 3}
    RunCeiling = 6
    DayCeiling = 5
    Faults = TRUE
    MaxDay = 1
    MaxRows = 3
    MaxLapses = 1
    MaxCrashes = 1
    MaxClients = 1
    MaxPending = 2
    MaxPendingPerClient = 2
    Registrations = 2
    Requests = 2
    Rotations = 2
    DiskFails = TRUE
    MaxPast = 2
    AnchorEvery = 2
    SegmentLines = 3
    MaxTried = 9
    MaxFaults = 2
    Troubles <- MCTroubles
SYMMETRY Symmetry
INVARIANTS
    CompleteMeansDelivered
    OneOpenQuestion
    SpendWithinCeilings
    OneLiveRefresh
    LastTokenWorks
    EndedStaysEnded
    GrantHasClient
    AckedKept
    KnowsItsFiles
    StartsAgain
PROPERTIES
    RecordsInOrder
CHECK_DEADLOCK FALSE
VIEW MCView
