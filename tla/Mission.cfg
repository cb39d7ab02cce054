SPECIFICATION FairSpec
CONSTANTS
    StatePorts <- MCStatePorts
    WaypointPorts <- MCWaypointPorts
    Route <- MCRoute
    MaxCrashes = 1
    MaxOthers = 1
INVARIANTS
    LeaderLeadsActiveFollowers
    SuccessMeansDone
    LeftActiveOnlyByTheLeader
PROPERTIES
    EndedMissionActsNoMore
    ImplementsActionClient
    MissionEnds
CHECK_DEADLOCK FALSE
