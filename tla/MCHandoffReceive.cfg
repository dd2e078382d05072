SPECIFICATION FairSpec
CONSTANTS
    epoch1 = epoch1
    epoch2 = epoch2
    promptA = promptA
    promptB = promptB
    none = none
    Scopes <- MCScopes
    Accepted <- MCScopes
    Prompts <- MCPrompts
    None <- none
    MaxGen = 2
    Segments = 1
    MaxRequests = 2
    MaxConnects = 3
INVARIANTS
    InstalledIsDurable
    LiveAnswersRequest
PROPERTIES
    Implements
    RequestEnds
