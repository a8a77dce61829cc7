SPECIFICATION FairSpec
CONSTANTS
    Roles = {"server", "client"}
    Threads = {t1}
    Messages = {m1, m2}
    MaxSends = 3
    MaxReads = 1
    MaxRetries = 1
CHECK_DEADLOCK FALSE
INVARIANTS
    OneWrite
    DisconnectOnce
PROPERTIES
    ImplementsChannel
    EventuallyWritten
    EndIsNoticed
