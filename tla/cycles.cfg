SPECIFICATION CycleSpec
CONSTANT NTasks = 3
INVARIANTS
    VerdictCorrect
PROPERTY
    VerdictReached
CHECK_DEADLOCK FALSE
