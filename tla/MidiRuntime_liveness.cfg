SPECIFICATION FairSpec
CONSTANTS
    A = A
    B = B
    None = None
    Names = {A}
    Enumerations <- OneList
    Exact = {}
    Matches = {A}
    NumChannels = 2
    Notes = {60}
    Durations = {1, 2}
    MaxRate = 2
    MaxPolyphony = 2
    MinRetrigger = 1
    Window = 2
    Horizon = 1
    MaxNotes = 2
PROPERTIES
    NotesEnd
