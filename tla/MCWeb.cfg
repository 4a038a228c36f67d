\* Two candidates edited while saves fail and come back in any order; two jobs,
\* one of which may run twice, and two losses; three edits in the editor of one of
\* two projects, one failure or one leave: saves overlap, fail, and end when the
\* page of the other project is open.
SPECIFICATION Spec
CONSTANTS
    Cands = {c1, c2}
    FirstCands = {c1}
    MaxChanges = 3
    Projects = {"here", "there"}
    FirstProject = "here"
    InitialTracks <- OneOfEach
    OtherTracks <- OneThere
    ProjectOf <- HereOrThere
    FirstId = 6
    Deltas <- Backwards
    Cuts = {2}
    MinLen = 1
    HistoryLimit = 2
    MaxEdits = 3
    MaxTrouble = 1
    StreamJobs = {s1, s2}
    MaxPublished = 3
    MaxLosses = 2
CHECK_DEADLOCK FALSE
INVARIANTS
    WebTypeOK
    NothingForgotten
    StripFollowsJob
    SavedMeansStored
    OnlyTheUserDeletes
    OneRowPerClip
PROPERTIES
    FlushIsBarrier
    RollbackHasCause
