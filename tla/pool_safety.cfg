SPECIFICATION PoolSpec
CONSTANTS
    Jobs = {j1, j2}
    Workers = {w1, w2}
    NoWorker = NoWorker
    NoJobID = NoJobID
    LeaseDuration = 1
    Delays = {0}
    AttemptLimits = {2}
    Creations = {1}
    PurgeAges = {0}
    PurgeLimits = {1}
    PurgeStatuses = {"SUCCEEDED"}
    MaxIdle = 0
    MaxLeases = 0
    MaxReplays = 1
    KeepHistory = FALSE
    Interruptible = {w1, w2}
    MaxInterruptions = 1
    MaxBackoff = 1
    TimelyHeartbeats = TRUE
INVARIANTS
    ExclusiveExecution
    SucceededJobHasSuccessfulRun
    AttemptsAccounted
    RunLeftRunningIsExplained
PROPERTIES
    SuccessIsNotRerun
    DeletedRunNotTakenAgain
CHECK_DEADLOCK FALSE
SYMMETRY JobSymmetry
