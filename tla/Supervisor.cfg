SPECIFICATION FairSpec
CONSTANTS
    MaxRequests = 1
INVARIANTS
    StopsInOrder
    NothingLeftBehind
    ResultExact
PROPERTIES
    Returns
