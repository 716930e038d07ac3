SPECIFICATION FairSpec
CONSTANTS
    Publishers = {p1, p2}
    Viewers = {v1}
    NoViewer = NoViewer
    Capacity = 1
    MaxNotes = 3
\* The hub stops when the bound on notes is reached and every viewer has left.
CHECK_DEADLOCK FALSE
INVARIANTS
    DeliverySound
    ShownInOrder
PROPERTIES
    NobodyWaits
