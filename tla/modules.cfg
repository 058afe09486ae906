CONSTANTS
    Top = 4
    IbcTop = 3
    StakingTop = 3
    Length = 7
SPECIFICATION Spec
INVARIANTS
    VotesLatest
    FinalCount
    StatusRepaired
    TransfersExact
    StopsExplained
    
    FeegrantsExact
CHECK_DEADLOCK FALSE
