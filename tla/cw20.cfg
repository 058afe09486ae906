CONSTANTS
    StartBlock = 0
    Top = 3
    Addr = {"ann", "bob"}
    None = None
    Initial <- Owned
    Blocks <- SomeBlocks
    BlocksPerCall = 2
    BlocksPerDay = 4
    Page = 2
    Attempts = 2
    Reindexes = 1
    MaxFaults = 1
SPECIFICATION Spec
INVARIANTS SupplyIsHoldings BalancesOfOneBlock HistoryExact NeverRefused
