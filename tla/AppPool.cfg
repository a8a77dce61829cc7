SPECIFICATION FairSpec
CONSTANTS
    Starters = {u1}
    Stoppers = {u1}
    Runners = {}
    Waiters = {u2}
    Posters = {u1}
    Creators = {u1}
    Destroyers = {u2}
    Workers = {w1, w2}
    Pool = 2
    Timers = {x}
    Repeating = {x}
    NoTimer = NoTimer
    Handlers = {"plain", "throw", "abort"}
    MaxReady = 1
CHECK_DEADLOCK FALSE
INVARIANTS
    StopQuiesces
    PoolServes
    NoUseAfterDestroy
PROPERTIES
    StopReturns
    TimersFire
