CONSTANTS
    ResidentCut = 2
    ResidentCap = 2
    CutAlign = 2
    Interval = 2
    Prompts <- McPrompts
    Turns <- McTurns
    Shapes <- McShapes
    Configs <- McConfigs
    Visible = 1
    Eos = 0
    MaxPrompt = 6
    MaxRequests = 2
    i1 = i1
    i2 = i2
    f1 = f1
    f2 = f2
    Ids <- MCIds
    Frags <- MCFrags
    Closures <- MCClosures
    MaxDrafts = 0
    MaxContext = 2
    MaxCrashes = 1
    MaxErrors = 1
    MaxRefusals = 1
SPECIFICATION EngineSpec
SYMMETRY MCSymmetry
INVARIANTS
    DecodesFromPrompt
    CommitsWhatWasShown
    StateIsExact
    Lossless
    JournalExact
    
PROPERTY
    ImplementsFrontier
CHECK_DEADLOCK FALSE
