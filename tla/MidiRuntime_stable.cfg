SPECIFICATION Spec
CONSTANTS
    A = A
    B = B
    None = None
    Names = {A, B}
    Enumerations <- StableLists
    Exact = {B}
    Matches = {}
    NumChannels = 2
    Notes = {60}
    Durations = {1, 2}
    MaxRate = 2
    MaxPolyphony = 1
    MinRetrigger = 1
    Window = 2
    Horizon = 2
    MaxNotes = 3
INVARIANTS
    TimersOwned
    SilentUnlessActive
    NoHangingNote
    RateBound
PROPERTIES
    ImplementsVoiceBank
