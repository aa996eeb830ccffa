CONSTANTS
    MaxCmds = 3
    FxLibrary = TRUE
    OpenFails = TRUE
SPECIFICATION FairSpec
INVARIANTS
    DeviceOutlivesCall
    
    MetadataInForce
PROPERTIES
    CallsReturn
    AnswersCome
