SPECIFICATION ScheduleSpec
CONSTANTS
    Replicas = {r1, r2, r3}
    Steady = {r1}
    NoPass = NoPass
    Every = 4
    TTL = 7
    MaxSkew = 2
    MaxDelay = 1
    MaxGap = 2
    MaxFailed = 1
    MaxTime = 11
CHECK_DEADLOCK FALSE
SYMMETRY Symmetry
INVARIANTS OneJobPerPeriod EveryPeriodHasAJob
