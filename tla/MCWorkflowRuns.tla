--------------------------- MODULE MCWorkflowRuns ---------------------------
EXTENDS WorkflowRuns

Job(key, needs, if) ==
    [key |-> key, needs |-> needs, if |-> if, failFast |-> TRUE, maxParallel |-> 0, tolerated |-> FALSE,
     broken |-> FALSE, group |-> "none", cancelInProgress |-> FALSE, queue |-> "single"]
File(group, list) ==
    [group |-> group, cancelInProgress |-> FALSE, queue |-> "single", refused |-> {}, jobs |-> list]

\* A deployment, the newest of which wins; its second job needs the group of
\* the tests, and its third is released when the second is cancelled, even while
\* the first is still running.
Deploy == [File("deploy", <<Job("build", {}, "success"),
                            [Job("ship", {"build"}, "success") EXCEPT !.group = "test"],
                            Job("undo", {"ship"}, "cancelled")>>)
           EXCEPT !.cancelInProgress = TRUE]
\* Tests, which queue up; their second job runs whatever happened, even though
\* a job it needs was refused, and needs the group of the deployment.
Test == [File("test", <<Job("unit", {}, "success"),
                        [Job("report", {"unit", "lint"}, "always") EXCEPT !.group = "deploy"]>>)
         EXCEPT !.queue = "max", !.refused = {"lint"}]
\* A matrix that runs one by one, and a job for when it fails, whose plan
\* cannot be evaluated.
Matrix2 == File("none", <<[Job("m", {}, "success") EXCEPT !.maxParallel = 1],
                          [Job("m", {}, "success") EXCEPT !.maxParallel = 1],
                          [Job("alarm", {"m"}, "failure") EXCEPT !.broken = TRUE]>>)
MCPlans == <<Deploy, Test, Matrix2>>
=============================================================================
