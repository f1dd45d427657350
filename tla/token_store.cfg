SPECIFICATION Spec
CONSTANTS
    Missing = Missing
    Torn = Torn
    MaxLogins = 2
    MaxRefreshes = 2
    MaxCrashes = 1
    MaxFaults = 1
CHECK_DEADLOCK FALSE
INVARIANTS CleanAfterSignOut ConfigNotMislaid RenewedTokenKept
PROPERTY SignedOutHolds
