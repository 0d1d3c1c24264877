SPECIFICATION ReconnectRun
CONSTANTS
    p1 = p1
    p2 = p2
INVARIANT ResumedOnce
