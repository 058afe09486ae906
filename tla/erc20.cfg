CONSTANTS
    StartBlock = 0
    Top = 3
    Addr = {"ann", "bob"}
    None = None
    Null = Null
    Initial <- Nothing
    Blocks <- SomeBlocks
    BlocksPerCall = 2
    Reindexes = 1
    Upgrades = 1
    Rows = 1
    Failures = 1
SPECIFICATION MCSpec
INVARIANTS SupplyFollowsBalances BalancesAtCheckpoint NeverThrows
    ActivityOnce VerifiedCodesComplete
CHECK_DEADLOCK FALSE
