\* One job under every fault: executed twice at once, reported late, retried by hand.
SPECIFICATION Spec
CONSTANTS
    NoJob = NoJob
    NoPayload = NoPayload
    Jobs = {j1}
    Payloads = {p1, p2}
    Unbindable = {p2}
    Handlers = {h1, h2}
    Workers = {w1, w2}
    MaxTries = 2
    MaxRetries = 1
    MaxCrashes = 2
    MaxLate = 1
    Faults <- AllFaults
SYMMETRY Symmetry
INVARIANTS
    TypeOK
    NoJobLeftBehind
    RowNeverAheadOfWorkers
PROPERTIES
    DeliverySafe
