SPECIFICATION SignalFairSpec
CONSTANTS
    Starters = {}
    Stoppers = {}
    Runners = {}
    Waiters = {u1}
    Posters = {}
    Creators = {}
    Destroyers = {}
    Workers = {w1}
    Pool = 1
    Timers = {}
    Repeating = {}
    NoTimer = NoTimer
    Handlers = {}
    MaxReady = 1
    Watchers = {u1}
    Callbacks = {"plain", "stop"}
    MaxSignals = 2
CHECK_DEADLOCK FALSE
PROPERTY
    StopReturns
