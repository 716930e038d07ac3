SPECIFICATION FairSpec
CONSTANTS
    QueueCapacity = 1
    LinkCapacity = 4
    ReconnectBase = 2
    ReconnectLimit = 3
    MaxNotes = 2
    MaxSessions = 2
\* Run returns after cancellation, and the bound on notes is reached.
CHECK_DEADLOCK FALSE
INVARIANTS
    DeliverySound
PROPERTIES
    Stops
    KeepsTrying
    PingSettles
