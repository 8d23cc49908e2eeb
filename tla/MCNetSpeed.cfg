CONSTANTS
    Averages <- MCAverages
    SamplesToChange = 2
    MaxTries = 1
    MaxClicks = 2
SPECIFICATION Spec
INVARIANT SoundUnlessRaced
INVARIANT DownloadIsSampled
PROPERTY ChangeIsEarned
PROPERTY DownloadsEnd
CHECK_DEADLOCK FALSE
