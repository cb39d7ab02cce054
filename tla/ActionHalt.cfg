SPECIFICATION Spec
CONSTANTS
    a = a
    b = b
    Nodes = {a, b}
    MaxRuns <- MCMaxRuns
    MaxExpired = 0
    Overlap = FALSE
    NoGoal = NoGoal
INVARIANTS
    CancelsCurrentGoal
CHECK_DEADLOCK FALSE
