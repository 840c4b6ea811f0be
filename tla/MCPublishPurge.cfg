SPECIFICATION Spec
CONSTANTS
    p1 = p1
    p2 = p2
    p3 = p3
    Publishers <- TwoPublishers
    Unauthorized = {}
    MaximumNumberOfPublishers = 2
    MaximumConsecutiveInvalidMessages = 1
    HandlerThreads = 2
    StopBeforeStart = FALSE
    MaxMessages <- ThreeEach
PROPERTIES
    PurgedIsSilenced
CHECK_DEADLOCK FALSE
