CONSTANTS
    a = a
    b = b
    c = c
    d = d
    None = None
    Nodes <- MCNodes
    Id <- MCId
    First <- MCFirst
    Silent = {b}
    MaxCalls = 4
SPECIFICATION Spec
INVARIANT RunsInOrder
INVARIANT LateReportsAreSafe
INVARIANT ListenerKnowsRecent
PROPERTY FinishedWhenAllDone
PROPERTY DisposedIsQuiet
PROPERTY FlowEnds
CHECK_DEADLOCK FALSE
