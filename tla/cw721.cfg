CONSTANTS
    StartBlock = 0
    Top = 4
    Token = {"t", "u"}
    Addr = {"ann", "bob"}
    None = None
    Blocks <- SomeBlocks
    BlocksPerCall = 2
    Page = 2
    Requests = 2
    Nft = {"t1", "t2"}
    MaxId = 2
    Incidents = 1
SPECIFICATION MCSpec
INVARIANTS OwnersExact HistoryExact NeverStuck MediaHandled
CHECK_DEADLOCK FALSE
