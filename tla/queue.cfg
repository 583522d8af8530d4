\* Two jobs, two workers, every method in any order, with the audit history.
SPECIFICATION Spec
CONSTANTS
    Jobs = {j1, j2}
    Workers = {w1, w2}
    NoWorker = NoWorker
    LeaseDuration = 1
    Delays = {0, 1}
    AttemptLimits = {1}
    Creations = {1, 2}
    PurgeAges = {0, 1}
    PurgeLimits = {1}
    PurgeStatuses = {"NONE", "LEASED"}
    MaxIdle = 1
    MaxLeases = 2
    MaxReplays = 1
    KeepHistory = TRUE
INVARIANTS
    LeaseConsistent
    HistoryMatchesState
    CountersAudited
PROPERTY
    ImplementsLifecycle
SYMMETRY Symmetry
