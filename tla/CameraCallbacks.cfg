CONSTANTS
    Callbacks = {c1, c2}
    None = None
    MaxQueue = 2
SPECIFICATION FairSpec
INVARIANTS
    ClosedIsQuiet
PROPERTIES
    DataStillLent
    CallsReturn
