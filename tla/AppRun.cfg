SPECIFICATION FairSpec
CONSTANTS
    Starters = {}
    Stoppers = {}
    Runners = {u1}
    Waiters = {}
    Posters = {u1}
    Creators = {}
    Destroyers = {u1}
    Workers = {w1}
    Pool = 1
    Timers = {x}
    Repeating = {x}
    NoTimer = NoTimer
    Handlers = {"plain", "throw", "stop", "after"}
    MaxReady = 2
CHECK_DEADLOCK FALSE
PROPERTIES
    RunReturns
