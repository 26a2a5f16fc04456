CONSTANTS
    MaxReports = 1
    MaxTotalBytes = 1
    Bytes <- OneReport
    PersistInterval = 2
    Entries <- TwoEntries
    MaxMishaps = 1
    MaxLists = 0
SPECIFICATION ReportSpec
INVARIANT CrashKeepsCheckpoint
CHECK_DEADLOCK FALSE
