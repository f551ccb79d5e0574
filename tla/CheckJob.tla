------------------------------ MODULE CheckJob -----------------------------
\* The record of one check job (internal/state, table check_jobs) and the
\* updates every transaction applies to it.  CheckJobs drives it for the jobs
\* of one repository, WorkflowRuns for the jobs of a workflow run.
\*
\* A job keeps a claim (the credential that leased it), a lease with its
\* deadline, the start of its execution with the attempt registered by it, and
\* the facts that end it.  Times are abstracted to whether they are recorded;
\* "late" says that the deadline of a lease in use is past.
EXTENDS Naturals

Queued == {"pending", "waiting"}
Active == {"claimed", "started"}
Unfinished == Queued \cup Active
Results == {"passed", "failed", "error", "incomplete", "unavailable", "cancelled", "skipped"}
Statuses == {"absent"} \cup Unfinished \cup {"ambiguous", "interrupted"} \cup Results
LeaseLosses == {"kept", "deadline", "restart"}
Attempts == {"none", "pending"} \cup Results

NoLease == 0
Unclaimed == [role |-> "none", runner |-> "none", epoch |-> 0, generation |-> 0]

\* The facts a job is admitted with.
Admitted(status, origin) ==
    [status |-> status, origin |-> origin, credential |-> Unclaimed, lease |-> NoLease,
     late |-> FALSE, lost |-> "kept", started |-> FALSE, attempt |-> "none",
     finished |-> FALSE, cancel |-> FALSE, interrupted |-> FALSE]

\* terminalCheckJob: an ambiguous job counts, although a late result may still end it.
IsTerminal(job) == job.status \notin {"absent"} \cup Unfinished
IsHistory(job) == IsTerminal(job) /\ job.status # "ambiguous"

\* claimCheckJob, after its checks.
Claimed(job, credential, lease) ==
    [job EXCEPT !.status = "claimed", !.credential = credential, !.lease = lease]

\* startCheckJobTx: the start and its attempt are one write.
Started(job) == [job EXCEPT !.status = "started", !.started = TRUE, !.attempt = "pending"]

MutantLeaseLost(job, how) == [job EXCEPT !.status = "pending", !.late = FALSE, !.lost = how]   \* requeues the job
\* Work whose lease is lost may have run: it never becomes claimable again.
LeaseLost(job, how) == [job EXCEPT !.status = "ambiguous", !.late = FALSE, !.lost = how]

\* interruptCheckJobTx: a job that did not start loses its lease.
Interrupted(job) ==
    [job EXCEPT !.status = "interrupted", !.lease = NoLease, !.late = FALSE,
                !.finished = TRUE, !.interrupted = TRUE]

MutantCancelled(job) ==                        \* ends work that may be running
    IF job.status \in Unfinished \cup {"ambiguous"}
    THEN [job EXCEPT !.status = "cancelled", !.cancel = TRUE, !.finished = TRUE] ELSE job
\* cancelCheckJobTx: work that did not start is cancelled, work that may run
\* gets the intent, and history stays as it is.
Cancelled(job) ==
    IF job.status \in Queued \cup {"claimed"}
    THEN [job EXCEPT !.status = "cancelled", !.late = FALSE, !.cancel = TRUE, !.finished = TRUE]
    ELSE IF job.status \in {"started", "ambiguous"} THEN [job EXCEPT !.cancel = TRUE] ELSE job

\* FailCheckJobBeforeStart and finishUnstartedActionsJobTx: only the status and
\* the finish time are written.
EndedUnstarted(job, status) == 
    [job EXCEPT !.status = status, !.late = FALSE, !.finished = TRUE]

\* finalizeCheckJobTx: the attempt's result becomes the job's.
Completed(job, result) ==
    [job EXCEPT !.status = result, !.attempt = result, !.late = FALSE, !.finished = TRUE,
                !.cancel = @ \/ result = "cancelled"]

\* restoreCheckJobRecovery: unfinished work is closed, leases are machine-local.
Restored(job) == IF IsTerminal(job) \/ job.status = "absent" THEN job ELSE Interrupted(job)

HasClaim(job) == job.credential # Unclaimed
HasLease(job) == job.lease # NoLease
HasAttempt(job) == job.attempt # "none"
IsLost(job) == job.lost # "kept"

\* A claim that preflight ended without an execution.
PreStartFailure(job) ==
    /\ HasClaim(job) /\ HasLease(job) /\ job.finished
    /\ ~job.started /\ ~HasAttempt(job) /\ ~IsLost(job) /\ ~job.interrupted /\ ~job.cancel

StatusFits(job) ==
    /\ job.status \in Queued =>
          ~(HasClaim(job) \/ job.started \/ job.finished \/ HasLease(job) \/ IsLost(job)
            \/ HasAttempt(job) \/ job.cancel)
    /\ job.status = "claimed" =>
          HasClaim(job) /\ HasLease(job)
          /\ ~(job.started \/ job.finished \/ IsLost(job) \/ HasAttempt(job))
    /\ job.status = "started" =>
          HasClaim(job) /\ job.started /\ HasLease(job) /\ ~(job.finished \/ IsLost(job))
    /\ job.status = "ambiguous" =>
          HasClaim(job) /\ HasLease(job) /\ IsLost(job) /\ ~job.finished
    /\ job.status = "interrupted" =>
          \/ PreStartFailure(job)
          \/ job.finished /\ job.interrupted /\ ~HasLease(job) /\ ~IsLost(job)
    /\ job.status = "cancelled" =>
          /\ job.finished /\ job.cancel
          /\ HasClaim(job) =>
                /\ HasLease(job) /\ (job.started <=> HasAttempt(job))
                /\ ~job.started => ~IsLost(job)
          /\ ~HasClaim(job) => ~(job.started \/ HasLease(job) \/ HasAttempt(job))
    /\ job.status = "skipped" =>
          /\ job.finished /\ ~IsLost(job) /\ ~job.cancel
          /\ HasClaim(job) => job.started /\ HasLease(job) /\ HasAttempt(job)
          /\ ~HasClaim(job) => ~(job.started \/ HasLease(job) \/ HasAttempt(job))
    /\ job.status \in Results \ {"cancelled", "skipped"} =>
          \/ job.status \in {"error", "unavailable"} /\ PreStartFailure(job)
          \/ HasClaim(job) /\ job.started /\ job.finished /\ HasLease(job) /\ HasAttempt(job)

\* ValidateCheckRecovery and validateCheckJobTimelineAndLease, which every
\* backup and every restore applies to each job and its attempt.
Restorable(job) ==
    /\ HasLease(job) => HasClaim(job)
    /\ job.started => HasClaim(job)
    /\ HasAttempt(job) => job.started
    /\ IsLost(job) => HasLease(job)
    /\ job.interrupted => job.status = "interrupted"
    /\ StatusFits(job)
    /\ IsLost(job) /\ ~job.started => job.lost = "deadline"
    /\ job.attempt = "pending" => job.status \in {"started", "ambiguous", "interrupted"}
    /\ job.attempt \in Results => job.status = job.attempt
=============================================================================
