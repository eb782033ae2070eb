SPECIFICATION Spec
CONSTANTS
    None = None
    SeedLimit = 1000000000
    Unit = 8
    SamplesPerEvent = 2
    TableStep = 8
    MaxEvents = 4
    Variety = "crowded"
    Policies = {}
    Profiles = {"canonical", "event_clause", "pair_clause", "fully"}
    LocalIndices = {0, 1}
    Candidates <- mcCandidates
    PathPoints <- mcPoints
    Identities <- mcIdentities
    Answers <- mcAnswers
CONSTRAINT Bounded
INVARIANT AllProfilesDecode
CHECK_DEADLOCK FALSE
