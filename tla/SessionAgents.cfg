SPECIFICATION Spec
CONSTANTS
    NModalities = 2
    Practice = 0
    Real = 1
    Instances = {i1}
    Workers = {w1, w2}
    Nobody = Nobody
    SoundBlock = 0
    Requests = {"skip", "mcp", "tools"}
    Faults = {"db", "crash"}
SYMMETRY Interchangeable
INVARIANTS
    TypeOK
    ProgressAccounted
    ScoresMatchAnswers
