SPECIFICATION Spec
CONSTANTS
    NModalities = 1
    Practice = 1
    Real = 1
    Instances = {i1, i2}
    Workers = {w1, w2}
    Nobody = Nobody
    SoundBlock = 0
    Requests = {"skip", "mcp"}
    Faults = {"crash"}
SYMMETRY Interchangeable
INVARIANTS
    RuntimeNeverLeads
    LockProtectsCursor
    CompletedAtEnd
PROPERTY ImplementsProgress
