SPECIFICATION NoveltySpec
CONSTANTS
    None = None
    Genesis <- MCGenesis
    MaxGeneration = 2
    ChildrenPerGen = 1
    Scores = {0}
    Outcomes = {"benchmark_complete"}
    Stages <- MCNoveltyStages
    RecordConfigured = FALSE
    SealedSplit = FALSE
    FinalAnchor = FALSE
    MaxFaults = 0
INVARIANTS
    NoveltySeesAccepted
