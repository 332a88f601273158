SPECIFICATION FilesSpec
CONSTANTS
    Files <- MCFiles
    DirsOf <- MCDirsOf
    ParentFiles = {"prompt", "score"}
    IgnoredFiles = {"cache"}
    OutsidePaths = {"score", "sealed", "locked"}
    Leftover = TRUE
    MaxTouches = 4
    NoContent = NoContent
INVARIANTS SurfaceIsTheBoundary
CHECK_DEADLOCK FALSE
