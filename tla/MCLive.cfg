\* Lost workers, failed webhooks and failed saves, each repeated until done:
\* three things in all of two edits and two requests that fail or pages left.
SPECIFICATION LiveSpec
CONSTANTS
    NoJob = NoJob
    NoPayload = NoPayload
    Jobs = {j1, j2}
    Payloads = {p1}
    Unbindable = {}
    Handlers = {h1}
    Workers = {w1}
    MaxTries = 1
    MaxRetries = 0
    MaxCrashes = 1
    MaxLate = 0
    Faults <- OnlyWorkerLost
    Hooks = {k1, k2}
    MaxEvents = 2
    MaxHookFaults = 1
    Projects = {"here", "there"}
    FirstProject = "here"
    InitialTracks <- OneVideo
    OtherTracks <- OneThere
    ProjectOf <- HereOrThere
    FirstId = 6
    Deltas <- Backwards
    Cuts = {2}
    MinLen = 1
    HistoryLimit = 2
    MaxEdits = 2
    MaxTrouble = 2
CHECK_DEADLOCK FALSE
PROPERTIES
    DeliveryLive
    EveryJobConcludes
    EveryEventAnswered
    
