CONSTANTS
    Outs = {"deep", "fast"}
    LowLatency = {"fast"}
    Offload = {}
    Nobody = "nobody"
    Returned = "returned"
SPECIFICATION FairSpec
INVARIANTS
    ChosenInputStays
    CallsReleaseLocks
PROPERTIES
    ImplementsActiveInput
    CallsReturn
