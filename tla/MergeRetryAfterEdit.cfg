SPECIFICATION Spec
CONSTANTS
    feature = feature
    diverged = diverged
    behind = behind
    unrelated = unrelated
    NoCommit = NoCommit
    SourceCommits = {feature}
    TargetCommits = {diverged}
    Titles = {"one", "two"}
    Times = {1}
    OpenedAt = 1
    Zones = {"+0000"}
    Method <- MixedMethod
INVARIANTS
    RetryRecreatesTheCommit
