SPECIFICATION FairSpec
CONSTANTS
    Nodes <- MCNodes
    ServiceNames <- MCServiceNames
    Remapped <- MCRemapped
    MaxRuns = 2
PROPERTIES
    VerdictIsOfThisRun
    RunCompletes
CHECK_DEADLOCK FALSE
