SPECIFICATION FairSpec
CONSTANTS
    LocalCapacity = 1
    Messages <- MCMessages
    QueueCapacity = 2
    PickRetentionInterval = 1
    MaxHistory = 1
    MaxQueueCapacity = 4
    DeleteDatabaseIfExists = FALSE
    ClockBound = 2
    MaxSubmissions = 3
    Publishers = 2
INVARIANTS
    TypeOK
    StoredPicksArePersisted
    PersistedPicksAreServed
    EveryPickAccountedFor
    OneSpellingOnePick
PROPERTIES
    RebroadcastOnlyAfterRetention
    ImplementsRelay
