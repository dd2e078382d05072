SPECIFICATION MetalSpec
CONSTANTS
    NLayers = 3
    Swa <- SlidingLayers
    Confs <- Calls
    none = none
INVARIANTS
    
    
    MirrorFollows
CHECK_DEADLOCK FALSE
