SPECIFICATION Spec
CONSTANTS
    None = None
    Messages = {m1, m2}
    Handlers = {h1, h2}
    Inline = FALSE
    Limit <- Calm
SYMMETRY Symmetry
CHECK_DEADLOCK FALSE
INVARIANT QueueMovesOn
