CONSTANTS
    MaxRequests = 5
    Predefined = TRUE
    Paged = TRUE
    RetryRefreshes = FALSE
    NoData = NoData
SPECIFICATION Spec
INVARIANT TypeOK
INVARIANT PageNumberCountsAnswers
INVARIANT InOrderWhenSequential
INVARIANT NoOrphanSpinner
PROPERTY SpinnerStops
CHECK_DEADLOCK FALSE
