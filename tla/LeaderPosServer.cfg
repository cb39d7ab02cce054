SPECIFICATION FairSpec
CONSTANTS
    g1 = g1
    g2 = g2
    Goals = {g1, g2}
    Requests <- MCRequests
INVARIANTS
    CancelStopsLeader
    RouteSpacing
PROPERTIES
    LeaderFollowsRoute
    ImplementsActionGoals
    OnlyLostRequestHangs
CHECK_DEADLOCK FALSE
