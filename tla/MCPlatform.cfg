SPECIFICATION Spec
CONSTANTS
    p1 = p1
    p2 = p2
    NoAnswer = NoAnswer
    Refusal = Refusal
SYMMETRY Symmetry
INVARIANTS
    ReportsAreProven
    SandboxesAreAccounted
    ContentIsAccounted
    AccountsHold
PROPERTIES
    GatewayIsGoverned
    KeepsPromise
CHECK_DEADLOCK FALSE
