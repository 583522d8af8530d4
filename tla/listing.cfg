\* One request over each kind of table while others change it.
SPECIFICATION FairListSpec
CONSTANTS
    Jobs = {1, 2}
    Stamps = {1, 2}
    Tables = {"memory", "sqlite", "runs", "sqliteRuns", "history", "sqliteHistory"}
    Scopes = {{1, 2}, {2}}
    Filters = {"NONE", "FAILED"}
    Limits = {0, 1}
    Offsets = {0, 1}
    Given <- MCGiven
    DefaultLimit = 2
    MaxChanges = 2
INVARIANTS
    ListTypeOK
    WalkReturnsEachOnce
    EnvelopeAgrees
    BulkReportsWhatItDid
PROPERTY
    RequestAnswered
CHECK_DEADLOCK FALSE
