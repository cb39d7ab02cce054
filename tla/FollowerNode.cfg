SPECIFICATION FairSpec
CONSTANTS
    MaxRobots = 2
    Values <- MCValues
    NotFinite = NotFinite
    Defaults <- MCDefaults
    Tunables <- MCTunables
    m1 = m1
    m2 = m2
    Maps <- MCMaps
    NoMap = NoMap
    NoCore = NoCore
    MaxFaults = 1
INVARIANTS
    IndicesInRange
    CommandsReachTheirRobot
    MovingRobotIsReachable
    StoppedUnlessActive
    NoStaleMap
PROPERTIES
    AcceptedGainsHold
    EveryRobotIsDriven
