SPECIFICATION LiveSpec
CONSTANTS
    None = None
    QueueWorkers = {"w"}
    QueuedJobs = {"j", "k"}
    MaxExpiry = 4
    MaxCrash = 1
    Tasks = {1, 2, 3, 4}
    DependsOn <- Joined
    MaxConcurrency = 2
    FlowWorkers = {"w"}
    Users = {"u"}
    UserOps = {"approve"}
    MaxStarts = 2
    Executors = {"e"}
    MaxIterations = 2
    MaxRepairs = 1
    MaxTries = 2
    MaxActions = 2
    MaxTrouble = 1
    CronSlots = {2, 3, 99}
    StartsAt = 2
    EndsAt = None
    CatchUp = 1
    Horizon = 3
    Schedulers = {"p", "q"}
    DueWorkers = {"w"}
    MaxAttempts = 2
    MaxJobs = 4
    MaxFault = 1
    MaxSwitch = 2
    Threads = {"h"}
    SessionIds = {1, 2}
    RunOf <- OneRun
    SessionLimit = 2
    RunLimit = 1
    MaxFailures = 2
INVARIANTS
    ApprovedWhileOpen
    RunsAreAnswered
    SlotsAreAccounted
PROPERTIES
    OneWorkerKeepsOrder
    PodsAreKept
    JobSettles
    WorkflowSettles
    ExecutionEnds
    SlotsServed
    PodsReclaimed
CHECK_DEADLOCK FALSE
