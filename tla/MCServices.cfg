\* Every service of the API with two requests, hooks or workers at work.
SPECIFICATION Spec
CONSTANTS
    Callers = {p1, p2}
    Requested = {"SIGN_IN", "SIGN_UP"}
    MaxCodes = 2
    OtpMaxAttempts = 1
    Visits = {v1, v2}
    MaxSessions = 2
    MaxTime = 3
    CacheTTL = 2
    TombstoneTTL = 3
    RefreshTTL = 2
    Hooks = {h1, h2}
    MaxEvents = 3
    MaxHookFaults = 1
    Requests = {u1, u2}
    LastMonth = 2
    Amounts = {1}
    Limits <- OneOrUnlimited
    Kinds = {"project"}
    MaxCharged = 2
    NoRequest = NoRequest
    IdemRequests = {r1, r2, r3, r4}
    Bodies = {b1, b2}
    SlowHandlers = FALSE
    MaxResults = 2
    MaxRuns = 3
    CallTries = 2
    MaxMishaps = 1
CHECK_DEADLOCK FALSE
INVARIANTS
    ServicesTypeOK
    OneSessionPerCode
    AttemptsBounded
    RotationNeverMultiplies
    StaleWithinTTL
    AckedTookEffect
    MirrorsStripe
    WithinLimit
    Ledger
    OneAtATime
    LockHasHolder
    ReplayMatchesBody
    StuckRowsHaveCause
    NoticePerExecution
    NoticeOncePerEvent
PROPERTIES
    DoneStaysDone
