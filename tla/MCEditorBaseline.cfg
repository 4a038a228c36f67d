\* The page of one project opened while a flush of the other waits for its answers.
SPECIFICATION AutosaveSpec
CONSTANTS
    Projects = {"here", "there"}
    FirstProject = "here"
    InitialTracks <- OneOfEach
    OtherTracks <- OneThere
    ProjectOf <- HereOrThere
    FirstId = 6
    Deltas <- BothWays
    Cuts = {2}
    MinLen = 1
    HistoryLimit = 2
    MaxEdits = 1
    MaxTrouble = 1
CHECK_DEADLOCK FALSE
INVARIANTS
    BaselineIsOfThePage
