SPECIFICATION Spec
CONSTANTS
    None = None
    SeedLimit = 1000000000
    Unit = 8
    SamplesPerEvent = 2
    TableStep = 8
    MaxEvents = 3
    Variety = "all"
    Policies = {"obstruction", "bridging"}
    Profiles = {"canonical", "event_clause", "pair_clause", "fully"}
    LocalIndices = {0, 1}
    Candidates <- mcCandidates
    PathPoints <- mcPoints
    Identities <- mcIdentities
    Answers <- mcAnswers
CONSTRAINT Bounded
INVARIANTS
    AcceptedConfigGenerates
    
    EventsFollowTheShape
    AnswersAreTrue
    AnswerKeyIsAccepted
    
    TableTellsTheTarget
    AllProfilesDecode
    LostLineRefused
    TextTellsTheTarget
    MediaEndTogether
PROPERTIES NoJump
CHECK_DEADLOCK FALSE
