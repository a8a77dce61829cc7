SPECIFICATION HSpec
CONSTANTS
    Global = 2
    Local = 2
    MaxCalls = 2
    Names <- MCNames
    Values <- MCValues
    Methods = {"get", "put"}
    Routes <- MCRoutes
    Targets <- MCTargets
    MaxRoutes = 3
CHECK_DEADLOCK FALSE
INVARIANTS
    OnceInOrder
    ShortCircuits
    MostSpecific
    ParametersBound
