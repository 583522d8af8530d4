SPECIFICATION FairPoolSpec
CONSTANTS
    Jobs = {j1}
    Workers = {w1, w2}
    NoWorker = NoWorker
    NoJobID = NoJobID
    LeaseDuration = 1
    Delays = {0}
    AttemptLimits = {2}
    Creations = {1}
    PurgeAges = {1}
    PurgeLimits = {1}
    PurgeStatuses = {"NONE"}
    MaxIdle = 1
    MaxLeases = 0
    MaxReplays = 0
    KeepHistory = FALSE
    Interruptible = {w1}
    MaxInterruptions = 1
    MaxBackoff = 1
    TimelyHeartbeats = FALSE
INVARIANT
    AttemptsAccountedWithStalls
PROPERTY
    EveryJobSettles
CHECK_DEADLOCK FALSE
