CONSTANTS
    MaxNode = 4
    Name = {1, 2}
    Jksv = 9
    Page = 1
    MaxLost = 1
    MaxOther = 1
SPECIFICATION Spec
INVARIANTS ListedIsOnDrive DownloadFetchesListed
PROPERTY ListingMissesNothing
CHECK_DEADLOCK FALSE
