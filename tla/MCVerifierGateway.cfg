SPECIFICATION GwFairSpec
CONSTANTS
    i1 = i1
    i2 = i2
    f1 = f1
    Ids <- MCIds
    Frags <- MCFrags
    Closures <- OneFragment
    MaxDrafts = 0
    MaxContext = 1
    MaxCrashes = 1
    MaxErrors = 0
    MaxRefusals = 1
INVARIANTS
    RepliesFollow
PROPERTIES
    FailureIsFinal
    GwImplementsFrontier
    
