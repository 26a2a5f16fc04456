CONSTANTS
    c1 = c1
    c2 = c2
    WindowOf <- TwoAndOne
    Contents = {c1, c2}
    SizeOf <- OneSize
    MaxReports = 1
    MaxTotalBytes = 1
    Bytes <- TwoReports
    PersistInterval = 2
    Entries <- SomeEntries
    MaxMishaps = 1
    MaxLists = 1
    ScopeOf <- TwoScopes
    ProblemAssets <- OneAsset
    MaxPreviews = 1
    MaxPending = 1
    MaxClears = 1
    MaxOpenings = 1
    MaxUpsets = 1
    Receivers = {"a", "b"}
    MaxReported = 1
    MaxRefreshes = 3
    MaxDeletes = 2
    TransferPreferences = {"preparationMode"}
    MaxChoices = 2
    MaxDiscoveries = 1
    MaxFaults = 1
SPECIFICATION ServicesSpec
INVARIANTS SkipIsBacked OneUploadPerHash
INVARIANTS ReportsAreCurrent CompletionFlushes
INVARIANTS ImagesAreOwned ClearedStaysCleared
INVARIANTS HistoryIsOfReceiver DeletedStaysGone
INVARIANT ChoiceStands
PROPERTY DiscoveryIsConsented
CHECK_DEADLOCK FALSE
