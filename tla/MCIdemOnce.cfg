\* A request that missed the cache before the first one answered.
SPECIFICATION IdemSpec
CONSTANTS
    NoRequest = NoRequest
    IdemRequests = {r1, r2}
    Bodies = {b1}
    SlowHandlers = FALSE
CHECK_DEADLOCK FALSE
INVARIANTS
    HandlerRunsOnce
