\* A track created and saved, and the save after that.
SPECIFICATION AutosaveSpec
CONSTANTS
    Projects = {"here", "there"}
    FirstProject = "here"
    InitialTracks <- OneOfEach
    OtherTracks <- OneThere
    ProjectOf <- HereOrThere
    FirstId = 6
    Deltas <- BothWays
    Cuts = {2}
    MinLen = 1
    HistoryLimit = 2
    MaxEdits = 2
    MaxTrouble = 0
CHECK_DEADLOCK FALSE
INVARIANTS
    TrackIdsAreRows
