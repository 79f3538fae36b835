SPECIFICATION MCSpec
CONSTANTS
    s = s
    a = a
    b = b
    e = e
    Nodes <- MCNodes
CHECK_DEADLOCK FALSE
INVARIANTS AcceptsSoundGraphs TraversalStops
PROPERTIES EveryCheckEnds
