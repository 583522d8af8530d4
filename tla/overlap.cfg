SPECIFICATION SchedSpec
CONSTANTS
    n1 = n1
    n2 = n2
    w1 = w1
    Nodes = {n1}
    Serving = {}
    Workflows = {w1}
    Offers <- OneInterval
    MaxThreads = 1
    MaxJobs = 2
INVARIANT
    ScheduledRunsDoNotOverlap
