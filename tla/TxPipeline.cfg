SPECIFICATION FairSpec
CONSTANTS
    T = 15
    OwnerSubmit = 2
    OwnerMargin = 10
    BrokerSubmit = 0
    BrokerMargin = 10
    IdleTimeout = 50
    OwnerCapacity = 3
    MaxFrames = 2
INVARIANTS
    SettledBetweenCycles
    OutcomesTruthful
PROPERTIES
    RxStartOnlyAfterBurst
    NoLateBurst
PROPERTY CycleEnds
CHECK_DEADLOCK FALSE
