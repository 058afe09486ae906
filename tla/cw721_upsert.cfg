CONSTANTS
    StartBlock = 0
    Top = 4
    Token = {"t", "u"}
    Addr = {"ann", "bob"}
    None = None
    Blocks <- SomeBlocks
    BlocksPerCall = 2
    Page = 2
    Requests = 2
    Nft = {"t1", "t2", "t3"}
    MaxId = 3
    Incidents = 2
SPECIFICATION MCSpec
INVARIANT InstantiateUpserts
CHECK_DEADLOCK FALSE
