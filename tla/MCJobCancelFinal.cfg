\* A cancel while a worker holds the message.
SPECIFICATION Spec
CONSTANTS
    NoJob = NoJob
    NoPayload = NoPayload
    Jobs = {j1}
    Payloads = {p1}
    Unbindable = {}
    Handlers = {h1}
    Workers = {w1}
    MaxTries = 1
    MaxRetries = 0
    MaxCrashes = 0
    MaxLate = 0
    Faults <- NoFaults
PROPERTIES
    CanceledIsFinal
