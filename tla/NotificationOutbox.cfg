SPECIFICATION FairSpec
CONSTANTS
    Rows = {n1, n2}
    InApp = {n1}
    Workers = {w1, w2}
    Nil = Nil
    BatchSize = 2
    MaxAttempts = 2
    MaxFaults = 1
    MaxLapses = 2
CHECK_DEADLOCK FALSE
INVARIANTS ClaimsExclusive DeviationsExplained
PROPERTIES SettledStays EveryRowSettles
