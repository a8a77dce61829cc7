SPECIFICATION FairSpec
CONSTANTS
    MaxRequests = 3
    MaxDone = 2
    SSL = TRUE
    Early = {1, 3}
CHECK_DEADLOCK FALSE
INVARIANTS
    OneOperation
    AnsweredInOrder
PROPERTY
    PatientRequestAnswered
