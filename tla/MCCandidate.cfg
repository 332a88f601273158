SPECIFICATION Spec
CONSTANTS
    Roots <- MCRoots
    Timeout = 3600000
    MaxRetries = 1
    Lateness = {36000000}
    CanRaise = {"import", "away", "in", "space_away", "space_in", "check",
                "discard", "undo_space", "undo_installed", "undo_moved"}
    Gone = Gone
    Names <- MCNames
    Letters = {"a", "b"}
    Texts <- MCTexts
    ChunkSize = 2
    Longest = 3
    Files <- MCFiles
    DirsOf <- MCDirsOf
    ParentFiles = {"prompt", "score"}
    IgnoredFiles = {"cache"}
    OutsidePaths = {"score", "sealed", "locked"}
    Leftover = TRUE
    MaxTouches = 4
    NoContent = NoContent
    None = None
    Trees = {"base", "one", "two", "stray"}
    BaseTree = "base"
    Outside = {"stray"}
    Configured = {"analyze", "mutate", "validate", "novelty"}
    MaxRuns = 4
    MaxCrashes = 1
    GatedTasks = {1, 2}
    Strategies <- MCStrategies
    Predictions <- MCPredictions
    Headings = {speed, care}
    MinResults = 2
    LastBorn = 3
    MaxKills = 1
    Unwritten = Unwritten
SYMMETRY HeadingSymmetry
INVARIANTS ImportIsSafe BudgetSuffices NoMentionMissed
    TagIsTheCandidate NothingStale ProgressIsReal
PROPERTIES QuietCommitIsJudged
CHECK_DEADLOCK FALSE
