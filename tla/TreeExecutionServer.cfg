SPECIFICATION FairSpec
CONSTANTS
    Goals <- MCGoals
    MaxVersion = 3
INVARIANTS
    OneTreeAtATime
    EndedGoalIsReported
    TreeIsUpToDate
PROPERTIES
    AcceptedCancelEnds
CHECK_DEADLOCK FALSE
