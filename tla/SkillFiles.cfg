SPECIFICATION SkillRun
CONSTANTS
    p1 = p1
    p2 = p2
INVARIANT FilesMatchContext
CHECK_DEADLOCK FALSE
