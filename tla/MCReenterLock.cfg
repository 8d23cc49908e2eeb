CONSTANTS
    Threads = {t1, t2}
    NoThread = NoThread
    MaxDepth = 3
    MaxState = 5
SPECIFICATION ReenterSpec
INVARIANT SafeOutsideWindow
CHECK_DEADLOCK FALSE
