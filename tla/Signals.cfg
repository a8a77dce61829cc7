SPECIFICATION SignalFairSpec
CONSTANTS
    Starters = {u1}
    Stoppers = {u1}
    Runners = {}
    Waiters = {}
    Posters = {}
    Creators = {u1}
    Destroyers = {}
    Workers = {w1, w2, w3}
    Pool = 1
    Timers = {x}
    Repeating = {}
    NoTimer = NoTimer
    Handlers = {}
    MaxReady = 1
    Watchers = {u1}
    Callbacks = {"plain", "throw", "abort"}
    MaxSignals = 2
CHECK_DEADLOCK FALSE
PROPERTIES
    SignalServed
