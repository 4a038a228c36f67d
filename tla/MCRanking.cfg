\* Edits racing for the settings while bakes race for the timeline.
SPECIFICATION Spec
CONSTANTS
    Null = Null
    Nobody = Nobody
    Candidates = {c1, c2, c3}
    Editors = {e1, e2}
    Bakers = {b1, b2}
    DefaultSlot = 3
    MinSlot = 2
    MaxSlot = 5
    Data <- ThreeData
    Metas <- TwoMetas
    MaxEdits = 3
SYMMETRY Symmetry
CHECK_DEADLOCK FALSE
INVARIANTS
    NoEditIsLost
    BakedLayoutSound
    LaterBakeReplaces
    SerialBakesAgree
PROPERTIES
    OnlyRemovalLosesCandidates
