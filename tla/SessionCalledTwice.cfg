SPECIFICATION Spec
CONSTANTS
    Requests = {r1}
    Timed = {r1}
    Nested = {}
    BadNames = {}
    Caller = Caller
    Threads = {t1, t2}
    NoRequest = NoRequest
    SSL = FALSE
    MaxErrors = 1
    MaxEofs = 0
CHECK_DEADLOCK FALSE
INVARIANT AtMostOnce
