SPECIFICATION Spec
CONSTANTS
    Key = {k1}
    Legacy = {k1}
    MaxVersion = 3
    Digest <- MCDigest
    NoFile = NoFile
    Torn = Torn
    MaxCrashes = 2
    MaxFaults = 2
INVARIANTS MetadataDescribesZip StoredSignatureIsUploaded SkippedSaveIsSafe IInv
PROPERTY ImplementsLedger
