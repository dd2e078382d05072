SPECIFICATION TransfersSpec
CONSTANTS
    t1 = t1
    gx10 = gx10
    spark = spark
    none = none
    Tasks <- MCOneTask
    Modes = {"move", "copy"}
    MaxVersion = 1
    MaxPayload = 2
    MaxFaults = 2
    Absent <- none
INVARIANTS
    DestinationFirst
    NeverLost
PROPERTIES
    ResumesToEnd
    
CHECK_DEADLOCK FALSE
