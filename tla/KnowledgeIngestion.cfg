SPECIFICATION FairSpec
CONSTANTS
    Jobs = {j1, j2}
    Workers = {w1, w2}
    Nil = Nil
    BatchSize = 2
    MaxAttempts = 2
    Quota = 2
    MaxFaults = 1
    MaxLapses = 1
CHECK_DEADLOCK FALSE
INVARIANTS PayloadKept StoresAgree
PROPERTIES SettledStays EveryJobSettles
