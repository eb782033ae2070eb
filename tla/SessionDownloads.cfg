SPECIFICATION Spec
CONSTANTS
    NModalities = 2
    Practice = 0
    Real = 1
    Instances = {i1}
    Workers = {w1, w2}
    Nobody = Nobody
    SoundBlock = 1
    Requests = {"mcp", "data", "sound"}
    Faults = {"db"}
SYMMETRY Interchangeable
INVARIANTS
    MarkersReached
    InductiveInvariant
