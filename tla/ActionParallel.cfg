SPECIFICATION Spec
CONSTANTS
    a = a
    b = b
    Nodes = {a, b}
    MaxRuns <- MCMaxRuns
    MaxExpired = 0
    Overlap = TRUE
    NoGoal = NoGoal
INVARIANTS
    ReceivedResultIsTaken
CHECK_DEADLOCK FALSE
