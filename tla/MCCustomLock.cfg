CONSTANTS
    Threads = {t1, t2, t3}
    NoThread = NoThread
SPECIFICATION Spec
INVARIANT MutualExclusion
INVARIANT NoStrandedWaiter
PROPERTY ImplementsMutex
PROPERTY SomeoneGetsIn
