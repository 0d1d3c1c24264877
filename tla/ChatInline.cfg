SPECIFICATION FairSpec
CONSTANTS
    None = None
    Messages = {m1, m2}
    Handlers = {h1, h2}
    Inline = TRUE
    Limit <- Steady
INVARIANTS
    TypeOK
    RunOncePerMessage
    NothingStranded
PROPERTY QueuedGetsItsTurn
CHECK_DEADLOCK FALSE
