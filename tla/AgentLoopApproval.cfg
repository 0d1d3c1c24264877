SPECIFICATION Spec
CONSTANTS
    Executors = {e1}
    MaxIterations = 2
    MaxRepairs = 1
    MaxTries = 2
    MaxActions = 2
    MaxTrouble = 2
INVARIANT
    ApprovedBeforeEffect
CHECK_DEADLOCK FALSE
