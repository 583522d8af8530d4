\* Two workers and a handler over one row, statement by statement.
SPECIFICATION FairSqlSpec
CONSTANTS
    Jobs = {j1}
    Workers = {w1, w2}
    NoWorker = NoWorker
    Apis = {a1}
    NoJobId = NoJobId
    LeaseDuration = 1
    Delays = {1}
    AttemptLimits = {2}
    Creations = {1}
    PurgeAges = {0}
    PurgeLimits = {1}
    PurgeStatuses = {"NONE", "FAILED"}
    MaxIdle = 0
    MaxLeases = 0
    MaxReplays = 1
    KeepHistory = TRUE
    MaxEvents = 2
INVARIANTS
    BackendsLeaseAlike
    AuditComplete
PROPERTIES
    OrphanIsTakenAgain
CHECK_DEADLOCK FALSE
