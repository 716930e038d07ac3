SPECIFICATION Spec
CONSTANTS
    Rules = {r1, r2}
    Configs <- SmallConfigs
    Canonical = canonical
    Handwritten = handwritten
    Edited <- OneEdited
    Bad = bad
    Torn = torn
    None = none
    Overlays = {plain, muted}
    NoOverlay = plain
    Worlds <- TwoWorlds
    r1 = r1
    d1 = d1
    d2 = d2
    k1 = k1
    k2 = k2
INVARIANTS
    SnapshotsSound
    InSync
    SurvivesPowerLoss
PROPERTIES
    ColdFieldsFixed
    NoLostUpdate
    MutationKeepsEdits
    RollbackIsExact
