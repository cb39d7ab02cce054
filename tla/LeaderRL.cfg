SPECIFICATION FairSpec
CONSTANTS
    robot_num = 2
    Goals = {g1, g2}
    Targets <- MCTargets
    Threads = 2
    MaxMsgs = 2
INVARIANTS
    NeverReadsUnset
    StoredIsNewest
PROPERTIES
    SleepEnds
CHECK_DEADLOCK FALSE
