SPECIFICATION FairSpec
CONSTANTS
    Thread = {t1, t2}
    NoJob = NoJob
    Archives <- MCArchives
    Modes = {"unzip", "commit", "plain", "download"}
    QueueLimit = 2
    Journal = 3
    MaxTasks = 2
    MaxShort = 2
    MaxFaults = 1
INVARIANTS CompleteWhenDone JournalFits
PROPERTIES OnlyEmptyFilesStray TaskEnds PoolStops
CHECK_DEADLOCK FALSE
