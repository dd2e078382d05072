SPECIFICATION Spec
CONSTANTS
    t1 = t1
    t2 = t2
    none = none
    Tasks <- MCTwoTasks
    Modes = {"move"}
    MaxFaults = 1
    None <- none
INVARIANT
    NeverLost
