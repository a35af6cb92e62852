SPECIFICATION OAuthSpec
CONSTANTS
    MaxClients = 1
    MaxPending = 1
    MaxPendingPerClient = 1
    Registrations = 1
    Requests = 1
    Rotations = 1
    DiskFails = TRUE
INVARIANTS
    AnsweredEndStands
CHECK_DEADLOCK FALSE
