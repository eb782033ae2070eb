SPECIFICATION FairSpec
CONSTANTS
    Instances = {i1}
    Tasks = {t1, t2}
    Nobody = Nobody
    MaxHandles = 2
    Timeout = 1
    Faults = {"db", "initialize", "exit"}
PROPERTY TasksEnd
PROPERTY DeadHandleDropped
CHECK_DEADLOCK FALSE
