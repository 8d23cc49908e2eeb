CONSTANTS
    Inits = {w1, w2}
    MaxDeaths = 2
    NoBinder = NoBinder
SPECIFICATION ConnSpec
INVARIANT NoStuckWaiter
PROPERTY Reconnects
CHECK_DEADLOCK FALSE
