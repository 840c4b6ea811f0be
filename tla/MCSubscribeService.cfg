SPECIFICATION FairSpec
CONSTANTS
    s1 = s1
    s2 = s2
    Subscribers <- TwoSubscribers
    Backfilling = {s1}
    Unauthorized = {s2}
    MaximumNumberOfSubscribers = 1
    MAXIMUM_QUEUE_SIZE = 1
    StopBeforeStart = FALSE
    MaxPicks = 2
INVARIANTS
    TypeOK
    NoSubscriptionLeaks
    FinishedAtMostOnce
    WritesFollowTheStore
PROPERTIES
    EveryPickReachesTheSubscriber
    ShutdownDrains
CHECK_DEADLOCK FALSE
