CONSTANTS
    Threads = {t1, t2}
    NoThread = NoThread
    MaxDepth = 2
    MaxState = 3
SPECIFICATION ReenterSpec
INVARIANT ReenterExclusion
CHECK_DEADLOCK FALSE
