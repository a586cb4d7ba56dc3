SPECIFICATION FairSpec
CONSTANTS
    Fates <- SoundLine
    Faults = FALSE
    MaxKills = 1
    MaxStarts = 3
    MaxCycles = 0
PROPERTY KilledIsRestarted
CHECK_DEADLOCK FALSE
