SPECIFICATION Spec
CONSTANTS
    Digests = {"host", "external"}
    External = {"external"}
    Runners = {"r1"}
    Events = {"push", "workflow"}
    Workflows = {"workflow"}
    Outcomes = {"passed", "skipped"}
    Failures = {"unavailable", "interrupted"}
    Endings = {"skipped"}
    MaxJobs = 2
    MaxVersion = 2
    MaxEpoch = 1
    QueueLimit = 2
    MaxActiveJobs = 1
INVARIANTS
    JobsAreRestorable
CHECK_DEADLOCK FALSE
