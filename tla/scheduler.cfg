SPECIFICATION SchedSpec
CONSTANTS
    n1 = n1
    n2 = n2
    w1 = w1
    Nodes = {n1, n2}
    Serving = {n1}
    Workflows = {w1}
    Offers <- TwoProcesses
    MaxThreads = 2
    MaxJobs = 1
INVARIANTS
    OneLeader
    CronRunsUnderLock
    TriggersMatchRegistrations
    RunningFlagExact
    ScheduleFileIsCurrent
