CONSTANTS
    StartBlock = 1
    TopBlock = 3
    Active <- EvmJobs
    StepOf <- PerCall
SPECIFICATION JobSpec
INVARIANTS EstablishedInOrder GuardedOnce NoGap
CHECK_DEADLOCK FALSE
