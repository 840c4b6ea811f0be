SPECIFICATION FairSpec
CONSTANTS
    s1 = s1
    s2 = s2
    p1 = p1
    p2 = p2
    p3 = p3
    Subscribers <- MCSubscribers
    Picks <- TwoPicks
    MaxHistory = 1
    MaxQueueCapacity = 4
    MaximumNumberOfPicks = 2
    MaxTime = 9
    ClockBound = 5
    StartTime = 3
    Backfills <- OldAndYoung
    MinInsertTicks = 1
    MaxStepBack = 0
    MaxStored = 4
INVARIANTS
    TypeOK
    RetentionContract
    NoPickSkipped
    OnlyOwedDelivered
    ExpiredPicksBounded
PROPERTIES
    Delivery
    ImplementsFeed
