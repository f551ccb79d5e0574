SPECIFICATION FairSpec
CONSTANTS
    r1 = r1
    r2 = r2
    Revisions = {r1, r2}
    NoRevision = NoRevision
    Times = {1}
    Texts = {"one", "two"}
    NoText = "none"
    Editors = {"e1", "e2"}
    MaxNumber = 2
    MaxEdits = 2
INVARIANTS
    CreationInvariant
PROPERTIES
    EditsReplaceWhatWasRead
    NoRequestOpensASecond
    ProvisionalIsSettled
