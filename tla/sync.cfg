SPECIFICATION FairSyncSpec
CONSTANTS
    Game = {g1, g2}
    OtherApp = {o1}
    NoTitle = NoTitle
    Unknown = Unknown
    Modes = {"events", "polling"}
    MaxEvents = 3
    MaxCrashes = 2
    MaxFailures = 1
INVARIANTS SleepsOverNoTitle CrashLoopEnds
PROPERTIES BlockedAcrossSwitch HeldUntilPrepared HeldTitleIsPrepared
