SPECIFICATION FairSpec
CONSTANTS
    QueueCapacity = 1
    LinkCapacity = 1
    ReconnectBase = 2
    ReconnectLimit = 3
    MaxNotes = 2
    MaxSessions = 1
CHECK_DEADLOCK FALSE
PROPERTIES
    PingSettles
