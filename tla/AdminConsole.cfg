SPECIFICATION FairConsoleSpec
CONSTANTS
    c1 = c1
    Clients = {c1}
    None = None
    Resync = Resync
    Reader = Reader
    Windows = {}
    PoolSize = 2
    ReplaySize = 2
    ReplayLimit = 1
    QueueSize = 1
    WireSize = 1
    MaxEvents = 3
    MaxLosses = 1
    MaxFailures = 1
    Snapshots <- SomeSnapshots
    Undated <- SomeUndated
PROPERTIES
    ImplementsFeed
    FeedCatchesUp
    ReconnectReloads
CHECK_DEADLOCK FALSE
