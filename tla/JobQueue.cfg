SPECIFICATION Spec
CONSTANTS
    Jobs = {j1, j2}
    Workers = {w1, w2}
    Operators = {o1, o2}
    Nil = Nil
    Priorities = {0, 1}
    MaxAttempts = 2
    ReplayLimit = 1
    MaxFaults = 2
    MaxLapses = 0
    MaxLoadErrors = 1
CHECK_DEADLOCK FALSE
SYMMETRY Symmetry
INVARIANTS TypeOK Traced MovedNotCopied
PROPERTIES NoStaleWrites ImplementsLifecycle
