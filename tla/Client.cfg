SPECIFICATION ClientFairSpec
CONSTANTS
    r1 = r1
    r2 = r2
    r3 = r3
    s1 = s1
    Requests = {r1, r2, r3}
    Timed = {r1, r2}
    Nested = {r3}
    BadNames = {r1}
    Threads = {t1, t2}
    Caller = Caller
    NoRequest = NoRequest
    SSL = TRUE
    MaxErrors = 1
    MaxEofs = 1
    Number <- Numbers
    SyncCalls = {s1}
    Usage <- Mixed
    NoCall = NoCall
    NoBody = NoBody
    SmallBuffer = 5
    Unknown = Unknown
CHECK_DEADLOCK FALSE
INVARIANTS
    SingleOperation
    ResponseMatchesRequest
    OwnRequest
PROPERTIES
    SelfBlockIsPermanent
    CallsReturn
