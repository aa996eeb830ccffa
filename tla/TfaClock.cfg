CONSTANTS
    PcmOutcomes <- AllOutcomes
    EnableMayFail = TRUE
    Garbage <- ZeroMemory
    MaxUsers = 2
SPECIFICATION FairSpec

    
    
PROPERTIES
    PowerReturns
