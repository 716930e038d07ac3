SPECIFICATION Spec
CONSTANTS
    Frames <- AllFrames
    MaxTime = 4
    Tick = 30
    Capacity = 2
    TTL = 3
    MaxPackets = 3
    Policies <- AllPolicies
    Overlays <- AllOverlays
    HttpPort = 1
    Peers <- PeerAddresses
    PeerPort = 7
    Unset = Unset
    MinimumNote = 60
    MaximumNote = 64
    MinimumDuration = 20
    MaximumDuration = 45
    Loudness <- LoudnessTable
INVARIANTS
    RegistrySound
    NoFeedback
    MappingSound
PROPERTIES
    RemovalsExact
