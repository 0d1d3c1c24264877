SPECIFICATION Spec
CONSTANTS
    Workers = {w1, w2}
    Jobs = {j1, j2}
    None = None
    MaxAttempts = 2
    MaxExpiry = 2
    MaxCrash = 1
CONSTRAINT ExecsBounded
SYMMETRY Symmetry
INVARIANTS TypeOK NoJobLost BudgetKept
