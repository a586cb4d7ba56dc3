SPECIFICATION FairSpec
CONSTANTS
    Connections = {c1}
    Controls <- MCControls
    InitialParameters <- Initial
    Hold = 1
    RandomBytes <- MCRandomBytes
    Capacity = 2
    RequestTimeout = 4
    RawSamples <- MCRawSamples
    MaxTime = 7
    MaxMessages = 2
    MaxGeneration = 0
PROPERTIES
    TransmissionsSpaced
    EveryRequestEnds
CHECK_DEADLOCK FALSE
