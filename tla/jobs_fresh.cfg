CONSTANTS
    StartBlock = 1
    TopBlock = 2
    Active <- EvmJobs
    StepOf <- PerCall
SPECIFICATION JobSpec
INVARIANT WaitsForDependencies
CHECK_DEADLOCK FALSE
