SPECIFICATION FairSpec
CONSTANTS
    NTasks = 4
    Workflows <- AllWorkflows
    ClockSteps = {0, 1}
INVARIANTS
    TypeOK
    ConcurrencyBounded
    StartsAfterUpstream
    NoTaskForgotten
    EndStatusIsExplained
    CompensationReversesUpstream
    OneBranchRuns
PROPERTY
    RunReturns
