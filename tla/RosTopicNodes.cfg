SPECIFICATION FairSpec
CONSTANTS
    Subs <- MCSubs
    Pubs <- MCPubs
    Topics <- MCTopics
    Remapped <- MCRemapped
    MaxMsgs = 2
INVARIANTS
    TypeOK
PROPERTIES
    HandedNewestOnce
    EveryoneIsHanded
CHECK_DEADLOCK FALSE
