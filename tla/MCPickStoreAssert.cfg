SPECIFICATION Spec
CONSTANTS
    s1 = s1
    s2 = s2
    p1 = p1
    p2 = p2
    p3 = p3
    Subscribers <- OneSubscriber
    Picks <- MCPicks
    MaxHistory = 1
    MaxQueueCapacity = 2
    MaximumNumberOfPicks = 2
    MaxTime = 9
    ClockBound = 3
    StartTime = 1
    Backfills <- MCBackfills
    MinInsertTicks = 1
    MaxStepBack = 0
    MaxStored = 3
INVARIANTS
    LastReadPastCursor
