SPECIFICATION UpstreamSpec
CONSTANTS
    Call = {c1, c2, c3}
    FailureThreshold = 2
    WindowMs = 3
    OpenMs = 2
    HalfOpenMaxCalls = 2
    MaxRetries = 2
    Request <- MCRequest
    ClassOf <- MCClassOf
    PrincipalOf <- MCPrincipalOf
    Capacity = 4
    Reserve = 1
    PerPrincipalMax = 2
    Depth = 2
INVARIANT ProbesBounded
INVARIANT NoSlotLeaks
PROPERTY LateResultsHarmless
PROPERTY OpensOnRecentFailures
PROPERTY ClosesAgain
INVARIANT SlotsCounted
INVARIANT SharesKept
INVARIANT NoFittingHeadWaits
PROPERTY GrantedInTurn
PROPERTY OwnerServed
