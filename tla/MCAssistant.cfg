SPECIFICATION Spec
CONSTANTS
    p1 = p1
    p2 = p2
SYMMETRY Symmetry
INVARIANTS
    DecisionsProgress
    SkillsAreReviewed
    KnowledgeIsFaithful
    OutsideIsMetOnce
    RecordsMatchWorkplaces
PROPERTIES
    AgentsAreGoverned
CHECK_DEADLOCK FALSE
