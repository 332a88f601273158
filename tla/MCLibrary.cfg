CONSTANTS
    Tasks <- MCTasks
    ExtraTask = 9
    Parts = 5
    RoundSizes = {1, 3}
    TaskLimits = {None, 2}
    None = None
    MaxEdits = 2
    Candidates <- MCCandidates
    TaskIds = {a, b, c}
    Rewards = {0, 1}
    Unscored = Unscored
    Trials = {1, 2}
    HarborResults <- MCHarborResults
    MaxTampers = 2
    NoFile = NoFile
    First = First
    Second = Second
    Unreadable = Unreadable
    TrainTasks = {1, 2}
    LongNamed = {2}
    BatchRewards = {0, 1}
    BatchParents = {p, q}
    MaxAttempts = 2
    NoBatch = NoBatch
    SeedFiles <- MCSeedFiles
    RecipeAssets <- MCAssets
    KindOf <- MCKindOf
    LockFile = "uv.lock"
    MaxInits = 2
    Absent = Absent
    StageList <- MCStageList
    NeededStages = {"select"}
    Bundles = {"gepa", "ahe"}
    ImportSets = {{}, {"gepa"}, {"ahe"}}
    MaxRewrites = 1
    NotRead = NotRead
    HostEnvironments <- MCHostEnvironments
    OverrideSets <- MCOverrideSets
    Capitals <- MCCapitals
    HostOf <- MCHostOf
    OfficialEndpoint = "official"
    AuthFiles = {{"auth"}}
    MultiLine = {"broken"}
    MaxChanges = 1
    NoRecord = NoRecord
    Refused = Refused
SPECIFICATION Spec
INVARIANTS SplitsAreFair ScoredTasksAreFrozen FrontierIsExact
    ReplayIsCertified ScoreCountsCleanPasses VerdictIsEarned GenesisIsTheSeed
    FrozenAsResolved RolesSeeTheirSources
CHECK_DEADLOCK FALSE
