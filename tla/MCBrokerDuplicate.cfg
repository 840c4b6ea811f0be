SPECIFICATION Spec
CONSTANTS
    LocalCapacity = 1
    Messages <- MCShortMessages
    QueueCapacity = 2
    PickRetentionInterval = 2
    MaxHistory = 1
    MaxQueueCapacity = 8
    DeleteDatabaseIfExists = FALSE
    ClockBound = 4
    MaxSubmissions = 3
    Publishers = 2
INVARIANTS
    NoDuplicateInStore
