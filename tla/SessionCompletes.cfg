SPECIFICATION FairSpec
CONSTANTS
    NModalities = 2
    Practice = 1
    Real = 1
    Instances = {i1}
    Workers = {w1, w2}
    Nobody = Nobody
    SoundBlock = 0
    Requests = {"skip", "tools"}
    Faults = {}
INVARIANT SkippedNotAnswered
PROPERTIES
    RequestsEnd
    
CHECK_DEADLOCK FALSE
