CONSTANTS
    p1 = p1
    p2 = p2
    p3 = p3
    Proc = {p1, p2, p3}
    LeaseProc = {p1, p2}
    MaxAttempts = 1
    Pid = {p1, p2, p3}
    MaxCalls = 1
    GuardFaults = FALSE
    Faults = {"guard", "lock"}
SPECIFICATION MCSpec
INVARIANTS
    FinishedNotHeld
PROPERTIES
    BodiesTakeTurns
    NothingLeftBehind
    DeadGuardReclaimed
    NeverBlocks
    OrphanReclaimed
CHECK_DEADLOCK FALSE
