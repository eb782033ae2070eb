SPECIFICATION Spec
CONSTANTS
    Instances = {i1, i2}
    Tasks = {t1, t2}
    Nobody = Nobody
    MaxHandles = 2
    Timeout = 1
    Faults = {"db", "initialize", "exit", "crash"}
SYMMETRY Symmetry
INVARIANT SessionInvariant
INVARIANT NeverDiscarded
PROPERTY ClosedIsFinal
CHECK_DEADLOCK FALSE
