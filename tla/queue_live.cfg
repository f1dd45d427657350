SPECIFICATION FairSpec
CONSTANTS
    Key = {k1, k2}
    Legacy = {k1}
    MaxVersion = 2
    Digest <- MCDigest
    NoFile = NoFile
    Torn = Torn
    MaxCrashes = 0
    MaxFaults = 0
PROPERTIES QueuedGetsUploaded QueueDrains
