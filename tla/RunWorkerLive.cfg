CONSTANTS
    w1 = w1
    w2 = w2
    Worker = {w1, w2}
    Run = {1}
    NumPhases = 1
    Estimate = 2
    Actual = {1}
    RunCeiling = 4
    DayCeiling = 2
    Faults = TRUE
    MaxDay = 1
    MaxLapses = 2
    MaxCrashes = 1
SPECIFICATION FairSpec
PROPERTIES
    RunSettles
    QuestionReachesOwner
CHECK_DEADLOCK FALSE
