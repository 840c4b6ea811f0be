SPECIFICATION Spec
CONSTANTS
    s1 = s1
    s2 = s2
    Subscribers <- TwoSubscribers
    Backfilling = {}
    Unauthorized = {}
    MaximumNumberOfSubscribers = 1
    MAXIMUM_QUEUE_SIZE = 1
    StopBeforeStart = FALSE
    MaxPicks = 1
PROPERTIES
    RefusedOnlyWhenFull
CHECK_DEADLOCK FALSE
