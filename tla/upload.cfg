SPECIFICATION FairSpec
CONSTANTS
    Sizes = {1, 2, 3}
    MaxSlices = 2
    Directories = 2
    MaxFaults = 3
    MaxRevokes = 2
    Missing = Missing
    Garbled = Garbled
INVARIANTS SurvivesOneRejection SlicesKept
PROPERTIES ImplementsContract CallEnds
