SPECIFICATION Spec
CONSTANTS
    None = None
    Genesis <- MCGenesis
    MaxGeneration = 2
    ChildrenPerGen = 1
    Scores = {0, 1}
    Outcomes = {"benchmark_complete"}
    Stages <- MCShortStages
    RecordConfigured = TRUE
    SealedSplit = FALSE
    FinalAnchor = FALSE
    MaxFaults = 0
INVARIANTS
    GateComparesParent
