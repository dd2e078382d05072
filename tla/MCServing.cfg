SPECIFICATION ServingSpec
CONSTANTS
    t1 = t1
    t2 = t2
    t3 = t3
    s0 = s0
    r1 = r1
    r2 = r2
    any = any
    none = none
    Threads <- MCThreads
    Slots <- MCSlots
    AnySlot <- any
    Wants <- MCUnnamed
    MaxQueued = 2
    NoThread <- none
    NoSlot <- none
    SlotIndices <- MCIndices
    Width = 2
    Outcomes <- MCOutcomes
    NoIndex <- none
    NoResult <- none
    Requests <- MCRequests
    FailureLimit = 3
    NoRequest <- none
    Seqs <- MCSeqs
    Groups <- MCWholeGroup
INVARIANTS
    PointersLive
    BoundedSkip
    BreakerInv
    
PROPERTIES
    UnnamedAcquireEnds
    DecodeEnds
    
    RouteRecovers
