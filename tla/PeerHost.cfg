SPECIFICATION FairSpec
CONSTANTS
    Instances = {i1, i2}
    Conns = {c1, c2}
    Notes = {n1}
    NoConn = NoConn
    NoInstance = NoInstance
    MaximumConnections = 1
    RecentCapacity = 1
    RecentTTL = 1
    DuplicateCapacity = 1
    MaxTime = 2
    MaxAdmitted = 2
INVARIANTS
    RegistrySound
    CacheSound
PROPERTIES
    CloseTerminates
    LostSessionsEnd
CHECK_DEADLOCK FALSE
