SPECIFICATION FairSpec
CONSTANTS
    Digests = {"host", "external"}
    External = {"external"}
    Runners = {"r1"}
    Events = {"push", "workflow"}
    Workflows = {"workflow"}
    Outcomes = {"passed", "skipped"}
    Failures = {"unavailable", "interrupted"}
    Endings = {"skipped", "error"}
    MaxJobs = 2
    MaxVersion = 2
    MaxEpoch = 1
    QueueLimit = 2
    MaxActiveJobs = 1
INVARIANTS
    ExecutedOnce
    UnstartedWorkIsAuthorised
    ExecutedWorkWasAgreedTo
    OnlyTwoKindsAreRefused
PROPERTIES
    ImplementsExecutionGrant
    JobsAreSettled
CHECK_DEADLOCK FALSE
