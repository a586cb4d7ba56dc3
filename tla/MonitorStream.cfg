SPECIFICATION FairSpec
CONSTANTS
    c1 = c1
    c2 = c2
    s1 = s1
    Connections <- OneConnection
    Subscribers <- OneSubscriber
    QueueCapacity = 2
    FeedCapacity = 1
    MaxMessages = 2
    MaxFrames = 1
INVARIANTS HubAccounts StagesInOrder
PROPERTY NeverHeldUp
CHECK_DEADLOCK FALSE
