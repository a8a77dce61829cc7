SPECIFICATION FairSpec
CONSTANTS
    Events = {e1, e2}
    Header = Header
    Heartbeat = Heartbeat
    Limit = 1
    MaxSends = 2
    MaxBeats = 1
CHECK_DEADLOCK FALSE
INVARIANTS
    QueueBounded
    OneWrite
    HeartbeatAlive
    DisconnectOnce
PROPERTIES
    ClosedStaysQuiet
    ImplementsChannel
    EventuallyWritten
    CloseIsNoticed
