\* Two requests racing over two rows, the broker refusing messages, handlers dying;
\* edits of two projects' timelines, interleaved, cut off and misdirected.
SPECIFICATION RequestsSpec
CONSTANTS
    NoJob = NoJob
    NoPayload = NoPayload
    Jobs = {j1, j2}
    Payloads = {p1}
    Unbindable = {}
    Handlers = {h1, h2}
    Workers = {w1}
    MaxTries = 1
    MaxRetries = 1
    MaxCrashes = 0
    MaxLate = 0
    Faults <- RequestFaults
    Editing = {h1, h2}
    Projects = {r1, r2}
    TrackIds = {1, 2}
    ClipIds = {1, 2, 3}
    TrackKinds = {"VIDEO"}
    Starts = {0, 1}
    Lengths = {2}
    Indexes = {0}
    MaxRequests = 3
SYMMETRY Alike
CHECK_DEADLOCK FALSE
INVARIANTS
    OneJobPerKey
    DurationFollowsClips
PROPERTIES
    SucceededNeverReopens
