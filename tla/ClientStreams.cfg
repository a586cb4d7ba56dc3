SPECIFICATION FairSpec
CONSTANTS
    k1 = k1
    a1 = a1
    KissClients <- OneKiss
    AgwClients <- OneAgw
    SubscriberCapacity = 1
    MaxFrames = 2
    MaxCycles = 1
    MaxMessages <- FewMessages
INVARIANT ClientsAccounted
PROPERTY FramesServed
CHECK_DEADLOCK FALSE
