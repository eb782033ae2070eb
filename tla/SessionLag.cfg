SPECIFICATION FairSpec
CONSTANTS
    NModalities = 1
    Practice = 1
    Real = 1
    Instances = {i1}
    Workers = {w1, w2}
    Nobody = Nobody
    SoundBlock = 0
    Requests = {}
    Faults = {}
PROPERTY LaggingPageCatchesUp
CHECK_DEADLOCK FALSE
