CONSTANTS
    ResidentCut = 2
    ResidentCap = 2
    CutAlign = 2
    Interval = 2
    Prompts <- McPrompts
    Turns <- McTurns
    Shapes <- McShapes
    Configs <- McConfigs
    Visible = 1
    Eos = 0
    MaxPrompt = 6
    MaxRequests = 2
SPECIFICATION Spec
INVARIANT WarmPrefixAnswers
CHECK_DEADLOCK FALSE
