SPECIFICATION StateSpec
CONSTANTS
    w1 = w1
    w2 = w2
    v1 = v1
    l1 = l1
    k1 = k1
    k2 = k2
    t1 = t1
    t2 = t2
    t3 = t3
    s0 = s0
    s1 = s1
    r1 = r1
    gx10 = gx10
    alias = alias
    spark = spark
    any = any
    none = none
    Workers <- MCWorkers
    Savers <- MCSavers
    Restorers <- MCRestorers
    Keys <- MCKeys
    Bodies <- MCBody
    IdemLimit = 1
    MaxVersion = 3
    MaxLives = 3
    None <- none
    Threads <- MCThreads
    Slots <- MCSlots
    AnySlot <- any
    Wants <- MCWants
    MaxQueued = 1
    NoThread <- none
    NoSlot <- none
    Readers <- MCReaders
    MaxSessions = 2
    MaxBytes = 3
    MaxFrame = 4
    MaxTotal = 5
    NoSession <- none
SYMMETRY MCSymmetry
INVARIANTS
    LinearHistory
    IdempotentOnce
    PoolExact
    StreamExact
    RegistryExact
CHECK_DEADLOCK FALSE
