SPECIFICATION FairSpec
CONSTANTS
    Paces <- MCPaces
INVARIANTS
    TypeOK
    NoUseAfterDestruction
    ThreadsAreJoined
PROPERTIES
    StopReturns
    BothServeOrNone
CHECK_DEADLOCK FALSE
