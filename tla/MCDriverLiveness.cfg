SPECIFICATION FairSpec
CONSTANTS
    None = None
    Genesis <- MCGenesis
    MaxGeneration = 1
    ChildrenPerGen = 2
    Scores = {0, 1}
    Outcomes = {"benchmark_complete", "timeout"}
    Stages <- MCAllStages
    RecordConfigured = TRUE
    SealedSplit = TRUE
    FinalAnchor = TRUE
    MaxFaults = 1
PROPERTIES
    RunTerminates
    ImplementsLineage
INVARIANTS
    ReportIsHonest
