SPECIFICATION FairSpec
CONSTANTS
    p1 = p1
    p2 = p2
    p3 = p3
    Publishers <- ThreePublishers
    Unauthorized = {p3}
    MaximumNumberOfPublishers = 1
    MaximumConsecutiveInvalidMessages = 2
    HandlerThreads = 2
    StopBeforeStart = FALSE
    MaxMessages <- LongSession
INVARIANTS
    TypeOK
    CountIsRegistered
    OvershootBounded
    PurgeIsDeserved
    ResponseAddsUp
PROPERTIES
    ShutdownDrains
CHECK_DEADLOCK FALSE
