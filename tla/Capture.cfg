CONSTANTS
    Outputs = {"primary"}
    Primary = "primary"
    LowLatency = {"primary"}
    MaxGeneration = 4
    Mains = {"FRONT"}
    Resampled = FALSE
    Supports <- MCSupports
    Frames = 1
SPECIFICATION FairSpec
INVARIANTS
    
    TableHoldsAttached
    AuxIsSupported
    

    
