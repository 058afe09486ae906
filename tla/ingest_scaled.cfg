CONSTANTS
    StartBlock = 1
    TopBlock = 3
    Workers = {"b", "t", "h", "h2"}
    JobOf <- TwoHandlers
    BlocksPerCall <- PerCall
    HasTx = {2, 3}
    MayBeHeaderless = {}
SPECIFICATION Spec
INVARIANT ExactlyOnce
