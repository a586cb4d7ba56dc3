SPECIFICATION FairSpec
CONSTANTS
    BufferSize = 4
    ReadMaximum = 2
    DropLimit = 1
    DrainLimit = 2
    StatusEvery = 2
    Hold = 1
    FrameBytes = 3
    Hypotheses <- TwoHypotheses
    Clarity <- LateOrTwice
    Tolerance = 1
    MaxTime = 6
    MaxCycles = 1
INVARIANTS
    NoSplicedStream
    HeardBeforeTransmit
    PublishedOnce
PROPERTIES
    RingIsFifo
    DropNoticed
CHECK_DEADLOCK FALSE
