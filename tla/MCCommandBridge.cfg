CONSTANTS
    Inits = {w1}
    MaxDeaths = 1
    NoBinder = NoBinder
    MaxCalls = 2
SPECIFICATION Spec
INVARIANT AnswersInCallOrder
INVARIANT CallbacksAccountedFor
PROPERTY CallsEnd
CHECK_DEADLOCK FALSE
