SPECIFICATION FairSpec
CONSTANTS
    Goals = {g1, g2}
    NoGoal = NoGoal
    Targets <- MCTargets
    MaxCrashes = 1
    MaxOthers = 1
INVARIANTS
    ResultIsTruthful
    OneWinner
PROPERTIES
    CancelInTime
    OnlyChangeIsUnbounded
CHECK_DEADLOCK FALSE
