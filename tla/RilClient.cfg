CONSTANTS
    MaxConnections = 2
    MaxRequests = 2
    MaxReports = 1
    PoolSize = 2
    Failures = {"thread", "full"}
    None = None
SPECIFICATION FairSpec
INVARIANTS
    TokensReturned
PROPERTIES
    LostConnectionNoticed
    LockReleased
