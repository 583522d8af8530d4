SPECIFICATION SchedFairSpec
CONSTANTS
    n1 = n1
    n2 = n2
    w1 = w1
    Nodes = {n1, n2}
    Serving = {}
    Workflows = {w1}
    Offers <- OneInterval
    MaxThreads = 1
    MaxJobs = 1
PROPERTY
    FollowerTakesOver
