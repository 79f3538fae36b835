SPECIFICATION FairSpec
CONSTANTS
    Jobs = {j1, j2}
    Workers = {w1, w2}
    Operators = {o1}
    Nil = Nil
    Priorities = {0}
    MaxAttempts = 2
    ReplayLimit = 2
    MaxFaults = 1
    MaxLapses = 1
    MaxLoadErrors = 0
CHECK_DEADLOCK FALSE
INVARIANTS NoJobLost
PROPERTIES EveryJobSettles
