SPECIFICATION FairSpec
CONSTANTS
    Fates <- LossyLine
    Faults = TRUE
    MaxKills = 1
    MaxStarts = 3
    MaxCycles = 2
INVARIANTS CleanExitLeavesIdle ReceivesWhileHealthy
PROPERTY NoBurstOnceClosed
PROPERTY FailureNoticed StopEnds
CHECK_DEADLOCK FALSE
