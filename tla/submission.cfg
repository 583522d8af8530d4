\* Two handlers in two processes over either backend, killed and restarted.
SPECIFICATION FairSubSpec
CONSTANTS
    Procs = {p1, p2}
    Keys = {k1}
    Fields = {f1, f2}
    Clients = {c1, c2}
    NoFile = NoFile
    Torn = Torn
    Backends = {"file", "sqlite"}
    Shared = Shared
    Kinds = {"sync", "async", "patch", "put"}
    MaxAttempts = 2
    MaxPosts = 3
    MaxFaults = 1
INVARIANTS
    ToldRunStands
    ExecutedAtMostOnce
    PatchesKept
PROPERTY
    AcceptedJobEnds
CHECK_DEADLOCK FALSE
