CONSTANTS
    Size <- WholeAndChunked
    Configs <- TwoConfigs
    SingleMax = 2
    MaxChunks = 2
    MaxFileBytes = 3
    MaxRetries = 1
    HashWorkers = 2
    MaxRuns = 2
    MaxLoads = 2
SPECIFICATION FairSpec
INVARIANTS RowsAreTruthful CountersAgree ProgressIsExact
PROPERTY RunEnds
CHECK_DEADLOCK FALSE
