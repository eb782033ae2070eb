SPECIFICATION Spec
CONSTANTS
    c1 = c1
    c2 = c2
    c3 = c3
    Configs <- mcConfigs
    ShapeCount <- mcShapeCount
    FrameCount <- mcFrameCount
    SceneCounts = {1, 2}
    SampleCounts = {24}
    ArtifactDirs <- mcArtifactDirs
    TaskFamilies = {"oqp"}
    ValidSites = {c1, c2}
    Unbuildable <- mcUnbuildable
    Jobs <- mcJobs
    MaxCommands = 3
    Splits = {"train", "test", "all"}
    None = None
    Absent = Absent
    Torn = Torn
    Directory = Directory
INVARIANTS
    AcceptedIsFresh
    FinishedIsAccepted
    ExportIsTheSplit
    ExportedScenesComplete
CHECK_DEADLOCK FALSE
