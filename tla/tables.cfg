CONSTANTS
    TopRange = 4
    AccountsTop = 2
    Losses = 2
    Step = 4
    Slack = 2
    Width = 2
    Batches <- SomeBatches
SPECIFICATION MCSpec
INVARIANTS
    AccountsFresh
    Erc721Exact
    SharedRowsAccepted
    TableRowsAccepted
CHECK_DEADLOCK FALSE
