SPECIFICATION FairSpec
CONSTANTS
    Plans <- MCPlans
    MaxRuns = 2
    MaxJobs = 3
    MaxFaults = 2
    QueueLimit = 5
    MaxActiveJobs = 2
    PendingLimit = 1
    Outcomes = {"passed", "failed"}
    Failures = {"error"}
INVARIANTS
    TypeOK
    GroupsAreExclusive
    ClaimsMayStart
    ReleasedJobsHadTheirNeeds
    RunsAreSettled
PROPERTIES
    RunsEnd
CHECK_DEADLOCK FALSE
