CONSTANTS
    MaxFileSize = 2
    CheckSizeTimes = 2
    MaxMessages = 9
    MaxKills = 2
SPECIFICATION Spec
INVARIANT NewestOnDisk
INVARIANT SizeBounded
INVARIANT FilesInOrder
INVARIANT NothingLost
PROPERTY QueueDrains
CHECK_DEADLOCK FALSE
