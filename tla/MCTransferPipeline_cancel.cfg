CONSTANTS
    Parts <- LiveAndPicture
    Size = 2
    Workers <- TwoWorkers
    MaxRetries = 1
    MaxPrepareFirst = 2
    StreamWindow = 1
    StreamCapacity = 1
    Undeletable <- OneFile
    Settings <- FourSettings
SPECIFICATION Spec
INVARIANT CancellationIsRecorded
CHECK_DEADLOCK FALSE
