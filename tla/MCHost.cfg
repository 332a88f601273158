\* the archive's owner alone, crashed and losing copies; a root and two descendants;
\* the evidence and the edits of three generations
SPECIFICATION HostSpec
CONSTANTS
    Workload <- MCWorkload
    Evaluations = {"evaluation", "evaluation of a sibling"}
    Scaffold = "scaffold"
    Forged = "forged"
    Owner = Owner
    Readers = {}
    Procs = {1, 2, 3}
    Root = 1
    Nobody = 0
    Analyzers = {"trajectory_only", "failure_patterns", "trace_browser"}
    BatchOutcomes <- MCBatches
    HistoryCycles = 2
    MaxObservations = 3
    JudgeWorkers = 2
    JudgeAttempts = 2
    LastCycle = 3
    MaxReruns = 1
    Unmade = Unmade
    ChangeTasks = {1}
    Seen <- MCSeen
    Manifests <- MCManifests
    Generations = 3
    Tries = 2
    Nothing = Nothing
INVARIANTS
    HistoryKept
    CertificatesKept
    TargetsDie
    JudgedByBehavior
    AttributionIsEarned
PROPERTIES
    GuardRestores
    OrderlyTimeoutEnds
CHECK_DEADLOCK FALSE
