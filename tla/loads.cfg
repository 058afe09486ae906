CONSTANTS
    Chunks = 2
    WasmTop = 4
    Code = {1, 2, 3}
    Incidents = 2
    Top = 3
    Messages = 2
    Implementation = {"a", "b"}
    BlocksPerCall = 2
    Uploads <- SomeUploads
    MaxRequests = 3
    RecordsPerCall = 2
    Deaths = 1
SPECIFICATION MCSpec
INVARIANTS
    GenesisLoaded
    EventsIndexed
    ContractsExact
    CreatorsRight
    ProxiesCurrent
    VerdictsRight
PROPERTY
    RequestsDecided
CHECK_DEADLOCK FALSE
