SPECIFICATION Spec
CONSTANTS
    Jobs = {j1, j2}
    Workers = {w1, w2}
    Operators = {}
    Nil = Nil
    Priorities = {0}
    MaxAttempts = 2
    ReplayLimit = 1
    MaxFaults = 0
    MaxLapses = 0
    MaxLoadErrors = 1
CHECK_DEADLOCK FALSE
INVARIANTS NoJobLost
