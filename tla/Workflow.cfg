SPECIFICATION Spec
CONSTANTS
    t1 = t1
    t2 = t2
    Tasks = {t1, t2}
    DependsOn <- Chain
    MaxConcurrency = 1
    Workers = {w1, w2}
    Users = {u1, u2}
    UserOps = {"approve", "reject", "pause", "resume", "cancel", "retry",
               "approve_child"}
    MaxOps = 3
    MaxStarts = 2
SYMMETRY Symmetry
INVARIANTS
    StartedAfterDependencies
    SynthesisIsComplete
CHECK_DEADLOCK FALSE
