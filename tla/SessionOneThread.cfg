SPECIFICATION FairSpec
CONSTANTS
    Requests = {r1, r2, r3}
    Timed = {r1, r2}
    Nested = {r3}
    BadNames = {r3}
    Caller = Caller
    Threads = {t1}
    NoRequest = NoRequest
    SSL = TRUE
    MaxErrors = 2
    MaxEofs = 1
CHECK_DEADLOCK FALSE
INVARIANTS
    AtMostOnce
    NoLostWakeup
PROPERTIES
    WedgeIsPermanent
    ImplementsContract
    AllAnswered
