SPECIFICATION SFairSpec
CONSTANTS
    Starters = {u1}
    Stoppers = {}
    Runners = {}
    Waiters = {}
    Posters = {}
    Creators = {}
    Destroyers = {}
    Workers = {w1, w2}
    Pool = 1
    Timers = {}
    Repeating = {}
    NoTimer = NoTimer
    Handlers = {}
    MaxReady = 0
    Owners = {u1}
    Endpoints = {"v4", "v6"}
    Targets <- MCTargets
    Acceptors = {a1, a2}
    NoEndpoint = NoEndpoint
    NoAcceptor = NoAcceptor
    Faults = {"resolve", "open", "option", "bind", "accept"}
    MaxEndpoints = 2
    MaxBacklog = 1
CHECK_DEADLOCK FALSE
INVARIANTS
    NoPortLeft
PROPERTIES
    AllOrStopped
    ConnectionsAccepted
