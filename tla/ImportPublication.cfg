SPECIFICATION FairSpec
CONSTANTS
    Refs <- MCRefs
    Commits <- MCCommits
    Ancestors <- MCAncestors
    Local = {"l"}
    Advertisements <- MCAdvertisements
    FirstImport <- MCFirstImport
    Settings <- MCSettings
    RefWrites <- MCRefWrites
    MaxRuns = 3
    MaxWrites = 1
    MaxChanges = 1
    MaxFaults = 1
    MaxCrashes = 1
    MaxPages = 1
    MaxDisturbances = 2
    None = "none"
INVARIANTS
    ImportInvariant
    PublicationsDoNotOverlap
    StoppedRunsLeaveNothing
    RetiredTipsAreKept
PROPERTIES
    LocalWorkIsKept
    DefaultBranchIsSafe
    RunsEnd
CHECK_DEADLOCK FALSE
