\* One of the site graph, the binary files, the image, the text's noise and the Python module.
CONSTANTS
    None = None
    Sites <- mcSites
    Artifacts <- mcArtifacts
    SceneCells = 2
    TaskCells = 1
    NotFinite = 99
    FullScale = 2
    Drawings <- mcDrawings
    Synonyms <- mcSynonyms
    Arguments <- mcArguments
    PolicyArguments <- mcPolicyArguments
    Values <- mcValues
    FileConfigs <- mcFileConfigs
    IndexArguments = {0, 5}
    BatchSizes = {0, 2}
    SampleTotals <- mcSampleTotals
    Broken = {3}
    MaxIndex = 6
    MaxCalls = 2
    MaxDelivered = 4

SPECIFICATION Spec

INVARIANTS
    ComponentsCounted
    NearestAreJoined
    CutFilesRefused
    PanelsApart
    
    
    BatchesAreContiguous

\* Every part ends: a graph judged, a file read, an image encoded, a word read, calls used up.
CHECK_DEADLOCK FALSE
