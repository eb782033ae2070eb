SPECIFICATION PromptSpec
CONSTANTS
    Instances = {i1, i2}
    Tasks = {t1, t2}
    Nobody = Nobody
    MaxHandles = 3
    Timeout = 2
    Faults = {}
SYMMETRY Symmetry
PROPERTY ReaperClosesIdle
CHECK_DEADLOCK FALSE
