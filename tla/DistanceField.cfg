SPECIFICATION FairSpec
CONSTANTS
    Width = 3
    Height = 3
    Straight = 5
    Diagonal = 7
    Occupancy <- MCOccupancy
    World <- MCWorld
    Origin <- MCOrigin
    Ir = 20
INVARIANTS
    PushesOffTheWall
PROPERTIES
    EndsExact
CHECK_DEADLOCK FALSE
