SPECIFICATION FairSpec
CONSTANTS
    PacketCapacity = 2
    NoteCapacity = 1
    MaxPackets = 5
INVARIANTS
    Conservation
    InOrder
    DrainsAtEOF
PROPERTIES
    Terminates
    CaptureNeverBlocks
