SPECIFICATION FairSpec
CONSTANTS
    feature = feature
    diverged = diverged
    behind = behind
    unrelated = unrelated
    NoCommit = NoCommit
    SourceCommits = {feature}
    TargetCommits = {feature, behind, diverged}
    Titles = {"one"}
    Times = {1, 2}
    OpenedAt = 1
    Zones = {"+0000"}
    Method <- MixedMethod
INVARIANTS
    MergeInvariant
    RecoveryRefusesNothing
    BackupIsAccepted
PROPERTIES
    ImplementsOutcome
    PublishedMergeIsRecorded
