SPECIFICATION FairSpec
CONSTANTS
    d1 = d1  d2 = d2
    Job <- Jobs
    MaxCmds = 6
    MaxCallbacks = 3
INVARIANTS
    TypeOK
    OneDownload
    ProgressIsLive
    CancelsOnlyItsOwn
PROPERTIES
    DownloadsEnd
