SPECIFICATION Spec
CONSTANTS
    s = s
    a = a
    b = b
    c = c
    d = d
    e = e
    Nodes <- MCNodes
    Definitions <- MCDefinitions
    Instances = {i1}
    Actors = {r1, r2, r3}
    MaxDefinitions = 3
CHECK_DEADLOCK FALSE
SYMMETRY Symmetry
INVARIANTS HistoryIsPath NodesPassedOnce StuckExplained
