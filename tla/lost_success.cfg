SPECIFICATION Spec
CONSTANTS
    NTasks = 2
    Workflows <- FailFastWorkflows
    ClockSteps = {1}
PROPERTY
    SentSuccessIsCompensated
