SPECIFICATION MCSpec
CONSTANTS
    Session <- MCSession
    Admitted <- MCSession
    ClassOf <- MCClassOf
    PrincipalOf <- MCPrincipalOf
    MaxConcurrentPlans = 2
    UnpersistedMax = 1
    Faults = TRUE
    MaxRestarts = 1
    Sink = {"webhook"}
    QueueCapacity = 2
    MaxBatch = 2
    MaxAttempts = 2
    MaxEnvelopes = 5
INVARIANTS
    SlotsMatchJobs
    CleanExit
    EveryEnvelopeReported
    FlushTellsTruth
PROPERTIES
    AnswersStand
    JobsSettle
    QueuesDrain
CHECK_DEADLOCK FALSE
