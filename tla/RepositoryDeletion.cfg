SPECIFICATION FairSpec
CONSTANTS
    s1 = s1
    s2 = s2
    folder = folder
    Storages = {s1, s2}
    Root <- OneRoot
    Directories = {d1, d2, d3}
    None = None
    MaxDeletions = 2
INVARIANTS
    DeletionInvariant
PROPERTIES
    OnlyTheDeletedDirectoryIsMoved
    FinishedDeletionIsDone
    RecordedDeletionIsFinished
