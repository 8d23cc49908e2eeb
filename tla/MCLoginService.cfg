CONSTANTS
    Clicks = {c1, c2}
    MaxDeaths = 2
    NoBinder = NoBinder
SPECIFICATION Spec
INVARIANT ReleaseIsClean
PROPERTY BindingHeals
PROPERTY LoginEnds
CHECK_DEADLOCK FALSE
