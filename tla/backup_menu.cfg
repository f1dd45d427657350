CONSTANTS
    Worker = {w1, w2}
    Name = {1, 2, 3, 4, 5, 6}
    LocalBackups <- OneLocal
    RemoteBackups <- OneRemote
    MaxPicks = 2
    MaxFaults = 1
SPECIFICATION FairSpec
INVARIANT MenuPointersGood
PROPERTIES RemoteRestoreIsSafe ControlReturns
CHECK_DEADLOCK FALSE
