CONSTANTS
    p1 = p1
    p2 = p2
    p3 = p3
    Proc = {p1, p2, p3}
    StaleMs = 2
    TimeoutMs = 1
    OrphanMs = 3
    MaxAttempts = 1
    FsFaults = TRUE
    GuardFaults = TRUE
    Pid = {p1, p2, p3}
    MaxCalls = 2
SPECIFICATION MCSpec
SYMMETRY Symmetry
INVARIANTS
    LeaseKeepsLock
    TakeTurns
PROPERTIES
    LiveMarkerKept
    MutexSpec
CHECK_DEADLOCK FALSE
