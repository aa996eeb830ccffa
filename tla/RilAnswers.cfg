CONSTANTS
    Callers = {c1}
    Requests <- EachKind
    Handled <- RawID
    PoolSize = 2
    TableSize = 2
    MaxSends = 3
    Reader = Reader
    None = None
SPECIFICATION FairSpec
INVARIANTS
    HandlerRunsOnce
PROPERTIES
    TokensComeBack
