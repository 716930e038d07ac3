SPECIFICATION Spec
CONSTANTS
    A = A
    B = B
    None = None
    Names = {A, B}
    Enumerations <- ShiftingLists
    Exact = {B}
    Matches = {}
    NumChannels = 2
    Notes = {60}
    Durations = {1}
    MaxRate = 2
    MaxPolyphony = 2
    MinRetrigger = 1
    Window = 2
    Horizon = 1
    MaxNotes = 3
INVARIANTS
    NoHangingNote
