CONSTANTS
    StartBlock = 1
    TopBlock = 4
    Workers = {"crawlBlock", "crawlTransaction", "handleTransaction"}
    JobOf <- OneEach
    BlocksPerCall <- PerCall
    HasTx = {2, 4}
    MayBeHeaderless = {3}
SPECIFICATION FairSpec
INVARIANTS NoHole ExactlyOnce InOrder
PROPERTIES CheckpointsGrow EventuallyIndexed ImplementsIndexer
