SPECIFICATION ObserversFairSpec
CONSTANTS
    b1 = b1
    Installations <- OneAtATime
    Browsers <- OneBrowser
    PipeCapacity = 2
    SseCapacity = 1
    RecentCapacity = 3
    MaxRuns = 2
    MaxSeq = 2
    MaxFaults = 2
    MaxCuts = 1
INVARIANTS IdentityUnique HistoryFaithful
PROPERTY ObserversCatchUp
CHECK_DEADLOCK FALSE
