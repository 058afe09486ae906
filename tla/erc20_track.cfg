CONSTANTS
    StartBlock = 0
    Top = 2
    Addr = {"ann", "bob"}
    None = None
    Null = Null
    Initial <- Nothing
    Blocks <- SomeBlocks
    BlocksPerCall = 2
    Reindexes = 1
    Upgrades = 0
    Rows = 0
    Failures = 0
SPECIFICATION MCSpec
INVARIANTS ReindexStopsTracking
CHECK_DEADLOCK FALSE
