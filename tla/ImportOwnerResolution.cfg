SPECIFICATION Spec
CONSTANTS
    Refs <- MCRefs
    Commits <- MCCommits
    Ancestors <- MCAncestors
    Local = {"l"}
    Advertisements <- MCAdvertisements
    FirstImport <- MCFirstImport
    Settings <- MCSettings
    RefWrites <- MCRefWrites
    MaxRuns = 3
    MaxWrites = 1
    MaxChanges = 1
    MaxFaults = 1
    MaxCrashes = 1
    MaxPages = 1
    MaxDisturbances = 2
    None = "none"
PROPERTIES
    OwnerResolutionIsFinal
CHECK_DEADLOCK FALSE
