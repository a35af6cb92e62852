CONSTANTS
    p1 = p1
    p2 = p2
    p3 = p3
    Proc = {p1, p2, p3}
    StaleMs = 2
    TimeoutMs = 1
    OrphanMs = 3
    MaxAttempts = 1
    FsFaults = FALSE
SPECIFICATION Spec
INVARIANTS
    TogglesNeverUndone
