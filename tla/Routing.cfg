CONSTANTS
    Streams <- OffloadStreams
    Primary = "DEEP_BUFFER"
    OutRoutes <- MixedRoutes
    InRoutes <- MixedInputs
    Sources <- TalkSource
    Modes <- TwoModes
    AmrTypes <- BothBands
    BluetoothWbs <- BothSco
    TwoMicDisabled = FALSE
    Misread <- OneMisread
SPECIFICATION Spec
INVARIANTS
    TypeOK
    RefCountExact
    UsecasesMatchStreams
    OnePlaybackDevice
    CallDecides
    
    
