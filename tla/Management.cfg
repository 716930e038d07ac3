SPECIFICATION MCSpec
CONSTANTS
    Rules <- TwoRules
    Configs <- SmallConfigs
    Canonical = canonical
    Handwritten = handwritten
    Edited = {}
    Bad = bad
    Torn = torn
    None = none
    Overlays <- FlowOverlays
    NoOverlay <- Quiet
    Worlds <- OneWorld
    Clients = {c1, c2}
    Requests <- SmallRequests
    Redacted = "<redacted>"
    Forged = forged
    Foreign <- Edits
    MaxKnown = 2
    MaxRequests = 2
    MaxEdits = 1
INVARIANTS
    AnswersTrue
PROPERTIES
    CommitsSound
    ShutdownClean
