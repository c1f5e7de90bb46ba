\* Three VUs, one feeding task and the progress task.
CONSTANTS
    NumVus = 3
    NumPacers = 1
    HasProgress = TRUE
    Defaults = {0, 1}
    Paths <- MCPaths
    InitFiles <- MCFiles
    MaxFiles = 2

SPECIFICATION CommandSpec

INVARIANTS
    TypeOK
    CommandSound
    StartTogether
    OutcomeComplete
    InitErrorClean
    ExitCodeTruthful

PROPERTIES
    FilesSafe
    RunAdvances

\* The process ends, or hangs (see RunLifecycleStart.cfg).
CHECK_DEADLOCK FALSE
