SPECIFICATION FairSpec
CONSTANTS
    a = a
    b = b
    Nodes = {a, b}
    MaxRuns <- MCMaxRuns
    MaxExpired = 1
    Overlap = FALSE
    NoGoal = NoGoal
INVARIANTS
    NoGoalLeftBehind
    ReceivedGoalIsSafe
PROPERTIES
    ImplementsActionClient
    RunCompletes
CHECK_DEADLOCK FALSE
