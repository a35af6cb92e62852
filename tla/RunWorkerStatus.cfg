CONSTANTS
    w1 = w1
    w2 = w2
    Worker = {w1, w2}
    Run = {1}
    NumPhases = 1
    Estimate = 2
    Actual = {1}
    RunCeiling = 6
    DayCeiling = 8
    Faults = FALSE
    MaxDay = 0
    MaxLapses = 1
    MaxCrashes = 0
SPECIFICATION FairSpec
PROPERTIES
    FinishedStaysFinished
CHECK_DEADLOCK FALSE
