--------------------------- MODULE CheckJobsProofs --------------------------
(***************************************************************************)
(* Proofs about CheckJobs: what the jobs of a repository promise about the *)
(* execution of their commands holds for any events, runners, policies and *)
(* bounds.  Each update of a job record (CheckJob) is one lemma, and every *)
(* step but a start keeps the execution facts of all jobs (KeepsJobs).     *)
(***************************************************************************)
EXTENDS CheckJobs, TLAPS

\* What makes a record one that the next update leaves restorable.
JobOK(job) ==
    /\ job.status = "absent" => ~job.started
    /\ job.status = "claimed" => ~job.cancel
    /\ job.status = "waiting" => job.origin.event \in Workflows
    /\ job.status # "absent" => Restorable(job) \/ RefusedByBackups(job)

Verdict(job) ==
    IF job.status \in {"absent"} \cup Unfinished THEN "open"
    ELSE IF job.status = "ambiguous" THEN "uncertain" ELSE job.status
Verdicts == {"open", "uncertain", "interrupted"} \cup Results

\* ExecutionGrant's Settled, for the verdict of one job.
CanBecome(job, v) ==
    \/ v = Verdict(job)
    \/ Verdict(job) = "open" /\ v = "uncertain"
    \/ Verdict(job) = "open" /\ v = "interrupted"
    \/ Verdict(job) = "open" /\ ~job.started /\ v \in {"cancelled", "error", "unavailable", "skipped"}
    \/ Verdict(job) \in {"open", "uncertain"} /\ job.started /\ v \in Results

\* A step other than a start leaves the execution as it was and settles only what
\* the job promised.
Promises(job, new) == new.started = job.started /\ CanBecome(job, Verdict(new))

Unstarted == Queued \cup {"claimed"}

\* What every update but an admission, a claim and a start does to a record.
Updates(job, new) ==
    /\ new \in JobRecords /\ JobOK(new)
    /\ new.origin = job.origin /\ new.credential = job.credential
    /\ new.status \in Unstarted => job.status \in Unstarted
    /\ new.status = "claimed" => job.status = "claimed"
    /\ Promises(job, new)
-----------------------------------------------------------------------------
(* The updates of CheckJob *)

USE DEF Queued, Active, Unfinished, Unstarted

\* No update is one as well.
LEMMA KeptUpdates ==
    ASSUME NEW job \in JobRecords, JobOK(job)
    PROVE  Updates(job, job)
  BY DEF Updates, Promises, CanBecome

\* A job is admitted with nothing but its facts; one of a workflow run waits.
LEMMA AdmittedIsOK ==
    ASSUME NEW origin \in Origins, NEW status \in {"pending", "waiting"},
           status = "waiting" => origin.event \in Workflows
    PROVE  LET new == Admitted(status, origin) IN
           /\ new \in JobRecords /\ JobOK(new)
           /\ new.status = status /\ new.origin = origin /\ new.started = FALSE
  BY DEF Admitted, JobRecords, Statuses, LeaseLosses, Attempts, Credentials, NoLease, JobOK, Restorable,
     StatusFits, HasClaim, HasLease, HasAttempt, IsLost, PreStartFailure, RefusedByBackups, SkippedTooLate, FailedUnclaimed, Unclaimed, Results

\* A waiting job is released, or ends as one that was never claimed.
LEMMA SettledUpdates ==
    ASSUME NEW job \in JobRecords, JobOK(job), job.status = "waiting", NEW new \in Settlements(job)
    PROVE  Updates(job, new)
  <1>0. /\ job.started = FALSE /\ ~job.cancel /\ ~job.finished /\ job.credential = Unclaimed /\ job.lease = 0
        /\ job.lost = "kept" /\ job.attempt = "none" /\ ~job.interrupted /\ job.origin.event \in Workflows
    BY DEF JobRecords, JobOK, Restorable, StatusFits, RefusedByBackups, SkippedTooLate, FailedUnclaimed,
       HasClaim, HasLease, NoLease, IsLost, HasAttempt
  <1>1. CASE new = job
    BY <1>1, KeptUpdates
  <1>2. CASE new = [job EXCEPT !.status = "pending"]
    <2>1. new \in JobRecords
      BY <1>2 DEF JobRecords, Statuses
    <2>2. /\ new.status = "pending" /\ new.origin = job.origin /\ new.credential = Unclaimed /\ new.lease = 0
          /\ new.started = FALSE /\ ~new.cancel /\ ~new.finished /\ new.lost = "kept"
          /\ new.attempt = "none" /\ ~new.interrupted
      BY <1>0, <1>2 DEF JobRecords
    <2>3. JobOK(new)
      BY <2>2 DEF JobOK, Restorable, StatusFits, HasClaim, HasLease, NoLease, HasAttempt, IsLost, Results
    <2> QED
      BY <1>0, <2>1, <2>2, <2>3 DEF Updates, Promises, CanBecome, Verdict
  <1>3. ASSUME NEW status \in Endings, new = EndedUnstarted(job, status) PROVE Updates(job, new)
    <2>0. status \in {"skipped", "error"}
      BY ConstantsAssumption
    <2>1. new \in JobRecords
      BY <1>3, <2>0 DEF EndedUnstarted, JobRecords, Statuses, Results
    <2>2. /\ new.status = status /\ new.origin = job.origin /\ new.credential = Unclaimed /\ new.lease = 0
          /\ new.started = FALSE /\ ~new.cancel /\ new.finished /\ new.lost = "kept"
          /\ new.attempt = "none" /\ ~new.interrupted
      BY <1>0, <1>3 DEF EndedUnstarted, JobRecords
    <2>3. JobOK(new)
      BY <1>0, <2>0, <2>2 DEF JobOK, Restorable, RefusedByBackups, FailedUnclaimed, StatusFits,
         HasClaim, HasLease, NoLease, HasAttempt, IsLost, Results
    <2> QED
      BY <1>0, <2>0, <2>1, <2>2, <2>3 DEF Updates, Promises, CanBecome, Verdict
  <1> QED
    BY <1>1, <1>2, <1>3 DEF Settlements

\* A claim gives a pending job its first lease and nothing else.
LEMMA ClaimedIsOK ==
    ASSUME NEW job \in JobRecords, JobOK(job), job.status = "pending",
           NEW credential \in Credentials, credential # Unclaimed
    PROVE  LET new == Claimed(job, credential, job.lease + 1) IN
           /\ new \in JobRecords /\ JobOK(new)
           /\ new.started = job.started /\ new.origin = job.origin /\ new.credential = credential
           /\ new.status = "claimed" /\ Verdict(new) = Verdict(job)
  <1> DEFINE new == Claimed(job, credential, job.lease + 1)
  <1>1. /\ job.lease = 0 /\ ~job.started /\ ~job.cancel /\ ~job.finished
        /\ job.lost = "kept" /\ job.attempt = "none" /\ ~job.interrupted
    BY DEF JobRecords, JobOK, Restorable, StatusFits, RefusedByBackups, SkippedTooLate, FailedUnclaimed, HasLease, NoLease, IsLost, HasAttempt
  <1>2. new = [job EXCEPT !.status = "claimed", !.credential = credential, !.lease = 1]
    BY <1>1 DEF Claimed
  <1>3. new \in JobRecords
    BY <1>2 DEF JobRecords, Statuses
  <1>4. /\ new.status = "claimed" /\ new.credential = credential /\ new.lease = 1
        /\ ~new.started /\ ~new.cancel /\ ~new.finished
        /\ new.lost = "kept" /\ new.attempt = "none" /\ ~new.interrupted
    BY <1>1, <1>2 DEF JobRecords
  <1> HIDE DEF new
  <1>5. JobOK(new)
    BY <1>4 DEF NoLease, JobOK, Restorable, StatusFits, HasClaim, HasLease, HasAttempt, IsLost, Results
  <1> QED
    BY <1>2, <1>3, <1>4, <1>5 DEF JobRecords, Verdict, new

\* A start is recorded with its attempt on a job that was not started.
LEMMA StartedIsOK ==
    ASSUME NEW job \in JobRecords, JobOK(job), job.status = "claimed"
    PROVE  LET new == Started(job) IN
           /\ new \in JobRecords /\ JobOK(new)
           /\ ~job.started /\ new.started /\ new.origin = job.origin /\ new.credential = job.credential
           /\ new.status = "started" /\ Verdict(new) = Verdict(job)
  BY DEF Started, JobRecords, Statuses, Attempts, NoLease, JobOK, Restorable, StatusFits,
     HasClaim, HasLease, HasAttempt, IsLost, PreStartFailure, RefusedByBackups, SkippedTooLate, FailedUnclaimed, Verdict, Results

\* A lost lease makes the outcome of active work uncertain.
LEMMA LeaseLostUpdates ==
    ASSUME NEW job \in JobRecords, JobOK(job), job.status \in Active,
           NEW how \in {"deadline", "restart"}, how = "restart" => job.status = "started"
    PROVE  Updates(job, LeaseLost(job, how))
  <1> DEFINE new == LeaseLost(job, how)
  <1>1. new \in JobRecords
    BY DEF LeaseLost, JobRecords, Statuses, LeaseLosses
  <1>2. JobOK(new)
    BY DEF LeaseLost, JobRecords, NoLease, JobOK, Restorable, StatusFits,
       HasClaim, HasLease, HasAttempt, IsLost, PreStartFailure, RefusedByBackups, SkippedTooLate, FailedUnclaimed, Results
  <1>3. CanBecome(job, Verdict(new))
    BY DEF LeaseLost, JobRecords, CanBecome, Verdict, Results
  <1> QED
    BY <1>1, <1>2, <1>3 DEF Updates, Promises, LeaseLost, JobRecords

\* Work that is not over is interrupted: at a restore also what was started.
LEMMA InterruptedUpdates ==
    ASSUME NEW job \in JobRecords, JobOK(job), job.status \in Unfinished
    PROVE  Updates(job, Interrupted(job))
  <1> DEFINE new == Interrupted(job)
  <1>1. new \in JobRecords
    BY DEF Interrupted, JobRecords, Statuses, NoLease
  <1>2. /\ job.lost = "kept" /\ job.attempt \notin Results
        /\ job.started => job.credential # Unclaimed
        /\ job.attempt # "none" => job.started
    BY DEF JobRecords, JobOK, Restorable, StatusFits, RefusedByBackups, SkippedTooLate, FailedUnclaimed, IsLost, HasAttempt, HasClaim, Results
  <1>3. JobOK(new)
    BY <1>2 DEF Interrupted, JobRecords, NoLease, JobOK, Restorable, StatusFits,
       HasClaim, HasLease, HasAttempt, IsLost, Results
  <1>4. CanBecome(job, Verdict(new))
    BY DEF Interrupted, JobRecords, CanBecome, Verdict, Results
  <1> QED
    BY <1>1, <1>3, <1>4 DEF Updates, Promises, Interrupted, JobRecords

\* A cancellation ends work that did not start, and only asks otherwise.
LEMMA CancelledUpdates ==
    ASSUME NEW job \in JobRecords, JobOK(job), job.status # "absent"
    PROVE  Updates(job, Cancelled(job))
  <1> DEFINE new == Cancelled(job)
  <1>1. CASE job.status \in Queued \cup {"claimed"}
    <2>1. new = [job EXCEPT !.status = "cancelled", !.late = FALSE, !.cancel = TRUE, !.finished = TRUE]
      BY <1>1 DEF Cancelled
    <2>2. new \in JobRecords
      BY <2>1 DEF JobRecords, Statuses, Results
    <2>3. JobOK(new)
      BY <1>1, <2>1 DEF JobRecords, NoLease, JobOK, Restorable, StatusFits,
         HasClaim, HasLease, HasAttempt, IsLost, PreStartFailure, RefusedByBackups, SkippedTooLate, FailedUnclaimed, Results
    <2>4. CanBecome(job, Verdict(new))
      BY <1>1, <2>1 DEF JobRecords, CanBecome, Verdict, Results, JobOK, Restorable, StatusFits, RefusedByBackups, SkippedTooLate, FailedUnclaimed
    <2> QED
      BY <2>1, <2>2, <2>3, <2>4 DEF Updates, Promises, JobRecords
  <1>2. CASE job.status \in {"started", "ambiguous"}
    <2>1. new = [job EXCEPT !.cancel = TRUE]
      BY <1>2 DEF Cancelled
    <2>2. new \in JobRecords
      BY <2>1 DEF JobRecords
    <2>3. JobOK(new)
      BY <1>2, <2>1 DEF JobRecords, NoLease, JobOK, Restorable, StatusFits,
         HasClaim, HasLease, HasAttempt, IsLost, PreStartFailure, RefusedByBackups, SkippedTooLate, FailedUnclaimed, Results
    <2>4. CanBecome(job, Verdict(new))
      BY <1>2, <2>1 DEF JobRecords, CanBecome, Verdict
    <2> QED
      BY <2>1, <2>2, <2>3, <2>4 DEF Updates, Promises, JobRecords
  <1>3. CASE job.status \notin Queued \cup {"claimed", "started", "ambiguous"}
    BY <1>3, KeptUpdates DEF Cancelled
  <1> QED
    BY <1>1, <1>2, <1>3

\* A claim that preflight ended.
LEMMA EndedUnstartedUpdates ==
    ASSUME NEW job \in JobRecords, JobOK(job), job.status = "claimed", NEW status \in Failures
    PROVE  Updates(job, EndedUnstarted(job, status))
  <1> DEFINE new == EndedUnstarted(job, status)
  <1>0. status \in {"unavailable", "error", "interrupted"}
    BY ConstantsAssumption
  <1>1. new \in JobRecords
    BY <1>0 DEF EndedUnstarted, JobRecords, Statuses, Results
  <1>2. JobOK(new)
    BY <1>0 DEF EndedUnstarted, JobRecords, NoLease, JobOK, Restorable, StatusFits,
       HasClaim, HasLease, HasAttempt, IsLost, PreStartFailure, RefusedByBackups, SkippedTooLate, FailedUnclaimed, Results
  <1>3. CanBecome(job, Verdict(new))
    BY <1>0 DEF EndedUnstarted, JobRecords, CanBecome, Verdict, Results, JobOK, Restorable, StatusFits, RefusedByBackups, SkippedTooLate, FailedUnclaimed
  <1> QED
    BY <1>0, <1>1, <1>2, <1>3 DEF Updates, Promises, EndedUnstarted, JobRecords

\* A result ends the attempt it is of, also after the lease was lost.
LEMMA CompletedUpdates ==
    ASSUME NEW job \in JobRecords, JobOK(job), job.status \in {"started", "ambiguous"},
           job.attempt = "pending", NEW result \in Outcomes,
           result = "skipped" => job.origin.event \in Workflows
    PROVE  Updates(job, Completed(job, result))
  <1> DEFINE new == Completed(job, result)
  <1>0. result \in Results
    BY ConstantsAssumption
  <1>1. new \in JobRecords
    BY <1>0 DEF Completed, JobRecords, Statuses, Attempts, Results
  <1>2. JobOK(new)
    BY <1>0 DEF Completed, JobRecords, NoLease, JobOK, Restorable, StatusFits,
       HasClaim, HasLease, HasAttempt, IsLost, PreStartFailure, RefusedByBackups, SkippedTooLate, FailedUnclaimed, Results
  <1>3. CanBecome(job, Verdict(new))
    BY <1>0 DEF Completed, JobRecords, CanBecome, Verdict, Results, JobOK, Restorable, RefusedByBackups, SkippedTooLate, FailedUnclaimed, HasAttempt
  <1> QED
    BY <1>0, <1>1, <1>2, <1>3 DEF Updates, Promises, Completed, JobRecords, Results

\* A deadline passes.
LEMMA LateUpdates ==
    ASSUME NEW job \in JobRecords, JobOK(job), job.status \in Active
    PROVE  Updates(job, [job EXCEPT !.late = TRUE])
  <1> DEFINE new == [job EXCEPT !.late = TRUE]
  <1>1. new \in JobRecords
    BY DEF JobRecords
  <1>2. JobOK(new)
    BY DEF JobRecords, NoLease, JobOK, Restorable, StatusFits,
       HasClaim, HasLease, HasAttempt, IsLost, PreStartFailure, RefusedByBackups, SkippedTooLate, FailedUnclaimed, Results
  <1>3. CanBecome(job, Verdict(new))
    BY DEF JobRecords, CanBecome, Verdict
  <1> QED
    BY <1>1, <1>2, <1>3 DEF Updates, Promises, JobRecords
-----------------------------------------------------------------------------
(* The invariant *)

\* A policy has an epoch, and a consent that is active was given to it.
PolicyOK ==
    /\ policy.version > 0 => policy.epoch > 0
    /\ policy.active => [consent |-> policy.consent, version |-> policy.version] \in agreed

AllJobsOK == \A i \in Rows : JobOK(jobs[i])

JobInvariant ==
    /\ TypeOK /\ PolicyOK /\ AllJobsOK
    /\ UnstartedWorkIsAuthorised /\ ExecutedOnce /\ ExecutedWorkWasAgreedTo

\* UnstartedWorkIsAuthorised of one job.
AuthorisedAt(i) ==
    /\ jobs[i].status \in Unstarted => AuthorityCurrent(jobs[i], policy)
    /\ jobs[i].status = "claimed" => CredentialCurrent(jobs[i].credential)

\* What a step does to the execution of the jobs: it starts one, or it settles
\* what they promised.
Starting(i) == jobs[i].status = "claimed" /\ jobs' = [jobs EXCEPT ![i] = Started(jobs[i])]
Effect ==
    \/ \A i \in Rows : Promises(jobs[i], jobs'[i])
    \/ \E i \in Rows : Starting(i)

\* A step that updates records keeps all of it, if it keeps unstarted work authorised.
LEMMA UpdatesKeep ==
    ASSUME JobInvariant, TypeOK', PolicyOK', \A i \in Rows : AuthorisedAt(i)',
           \A i \in Rows : Updates(jobs[i], jobs'[i]), ran' = ran, agreed \subseteq agreed'
    PROVE  JobInvariant' /\ Effect
  <1>1. AllJobsOK'
    BY DEF AllJobsOK, Updates
  <1>2. \A i \in Rows : /\ Promises(jobs[i], jobs'[i])
                        /\ jobs'[i].started = jobs[i].started /\ jobs'[i].origin = jobs[i].origin
    BY DEF Updates, Promises
  <1>3. ExecutedOnce'
    BY <1>2 DEF JobInvariant, ExecutedOnce
  <1>4. ExecutedWorkWasAgreedTo'
    BY <1>2 DEF JobInvariant, ExecutedWorkWasAgreedTo
  <1>5. UnstartedWorkIsAuthorised'
    BY DEF UnstartedWorkIsAuthorised, AuthorisedAt
  <1> QED
    BY <1>1, <1>2, <1>3, <1>4, <1>5 DEF JobInvariant, Effect

\* One that leaves the authority alone does: it makes no work unstarted.
LEMMA WorkUpdatesKeep ==
    ASSUME JobInvariant, jobs' \in [Rows -> JobRecords], worker' \in [Workers -> WorkerRecords],
           \A i \in Rows : Updates(jobs[i], jobs'[i]), UNCHANGED <<policy, agreed, live, ran>>
    PROVE  JobInvariant' /\ Effect
  <1>1. TypeOK' /\ PolicyOK'
    BY DEF JobInvariant, TypeOK, PolicyOK
  <1>2. ASSUME NEW i \in Rows PROVE AuthorisedAt(i)'
    <2>1. /\ jobs'[i].origin = jobs[i].origin /\ jobs'[i].credential = jobs[i].credential
          /\ jobs'[i].status \in Unstarted => jobs[i].status \in Unstarted
          /\ jobs'[i].status = "claimed" => jobs[i].status = "claimed"
      BY DEF Updates
    <2>2. AuthorisedAt(i)
      BY DEF JobInvariant, UnstartedWorkIsAuthorised, AuthorisedAt
    <2> QED
      BY <2>1, <2>2 DEF AuthorisedAt, AuthorityCurrent, CredentialCurrent
  <1> QED
    BY <1>1, <1>2, UpdatesKeep

\* The same for a step that updates one record.
LEMMA OneUpdateKeeps ==
    ASSUME JobInvariant, worker' \in [Workers -> WorkerRecords], UNCHANGED <<policy, agreed, live, ran>>,
           NEW i \in Rows, NEW new, Updates(jobs[i], new), jobs' = [jobs EXCEPT ![i] = new]
    PROVE  JobInvariant' /\ Effect
  <1>1. jobs' \in [Rows -> JobRecords]
    BY DEF JobInvariant, TypeOK, Updates
  <1>2. ASSUME NEW k \in Rows PROVE Updates(jobs[k], jobs'[k])
    <2>1. CASE k = i
      BY <2>1 DEF JobInvariant, TypeOK
    <2>2. CASE k # i
      <3>1. jobs'[k] = jobs[k] /\ jobs[k] \in JobRecords /\ JobOK(jobs[k])
        BY <2>2 DEF JobInvariant, AllJobsOK, TypeOK
      <3> QED
        BY <3>1, KeptUpdates
    <2> QED
      BY <2>1, <2>2
  <1> QED
    BY <1>1, <1>2, WorkUpdatesKeep

\* A step that changes no record keeps them all.
LEMMA NoUpdateKeeps ==
    ASSUME JobInvariant, worker' \in [Workers -> WorkerRecords],
           UNCHANGED <<policy, agreed, live, jobs, ran>>
    PROVE  JobInvariant' /\ Effect
  <1>1. jobs' \in [Rows -> JobRecords] /\ \A i \in Rows : Updates(jobs[i], jobs'[i])
    BY KeptUpdates DEF JobInvariant, AllJobsOK, TypeOK
  <1> QED
    BY <1>1, WorkUpdatesKeep

LEMMA InvariantInit == Init => JobInvariant
  <1> SUFFICES ASSUME Init PROVE JobInvariant
    OBVIOUS
  <1>1. NoOrigin \in Origins /\ Unclaimed \in Credentials
    BY ConstantsAssumption DEF NoOrigin, Origins, Credentials
  <1>2. Admitted("absent", NoOrigin) \in JobRecords
    BY <1>1 DEF Admitted, JobRecords, Statuses, LeaseLosses, Attempts
  <1>3. Idle \in WorkerRecords
    BY <1>1, ConstantsAssumption DEF Idle, NoClaim, WorkerRecords, Claims
  <1>4. TypeOK
    BY <1>2, <1>3, ConstantsAssumption DEF Init, TypeOK
  <1>5. \A i \in Rows : jobs[i].status = "absent" /\ ~jobs[i].started /\ ran[i] = 0
    BY DEF Init, Admitted
  <1> QED
    BY <1>4, <1>5, ConstantsAssumption DEF JobInvariant, AllJobsOK, Init, PolicyOK, JobOK, UnstartedWorkIsAuthorised,
       ExecutedOnce, ExecutedWorkWasAgreedTo
-----------------------------------------------------------------------------
(* Authority *)

\* Under a policy whose authority is not current, unstarted work is withdrawn.
LEMMA WithoutStaleUpdates ==
    ASSUME TypeOK, \A i \in Rows : JobOK(jobs[i]), NEW p, NEW new, new = WithoutStale(p)
    PROVE  /\ new \in [Rows -> JobRecords]
           /\ \A i \in Rows : /\ Updates(jobs[i], new[i])
                              /\ new[i].status \in Unstarted =>
                                    new[i] = jobs[i] /\ AuthorityCurrent(jobs[i], p)
  <1>1. ASSUME NEW i \in Rows
        PROVE  /\ Updates(jobs[i], new[i])
               /\ new[i].status \in Unstarted =>
                     new[i] = jobs[i] /\ AuthorityCurrent(jobs[i], p)
    <2>1. jobs[i] \in JobRecords /\ JobOK(jobs[i])
      BY DEF TypeOK
    <2>2. CASE IsStale(jobs[i], p)
      <3>1. new[i] = Interrupted(jobs[i]) /\ jobs[i].status \in Unfinished
        BY <2>2 DEF WithoutStale, IsStale
      <3>2. new[i].status = "interrupted"
        BY <2>1, <3>1 DEF Interrupted, JobRecords
      <3> QED
        BY <2>1, <3>1, <3>2, InterruptedUpdates
    <2>3. CASE ~IsStale(jobs[i], p)
      <3>1. new[i] = jobs[i]
        BY <2>3 DEF WithoutStale
      <3> QED
        BY <2>1, <2>3, <3>1, KeptUpdates DEF IsStale
    <2> QED
      BY <2>2, <2>3
  <1>2. new \in [Rows -> JobRecords]
    BY <1>1 DEF WithoutStale, Updates
  <1> QED
    BY <1>1, <1>2

\* A step that withdraws a policy's consent withdraws all unstarted work.
LEMMA WithdrawalKeeps ==
    ASSUME JobInvariant, TypeOK', PolicyOK', NEW p, p.active = FALSE, jobs' = WithoutStale(p),
           agreed \subseteq agreed', UNCHANGED ran
    PROVE  JobInvariant' /\ Effect
  <1>1. TypeOK /\ \A i \in Rows : JobOK(jobs[i])
    BY DEF JobInvariant, AllJobsOK
  <1>2. \A i \in Rows : /\ Updates(jobs[i], jobs'[i])
                        /\ jobs'[i].status \in Unstarted =>
                              jobs'[i] = jobs[i] /\ AuthorityCurrent(jobs[i], p)
    BY <1>1, WithoutStaleUpdates
  <1>3. \A i \in Rows : ~AuthorityCurrent(jobs[i], p)
    BY DEF AuthorityCurrent
  <1>4. \A i \in Rows : AuthorisedAt(i)'
    BY <1>2, <1>3 DEF AuthorisedAt
  <1> QED
    BY <1>2, <1>4, UpdatesKeep

Policies == [version : 0..MaxVersion, digest : Digests \cup {"none"}, consent : 0..MaxVersion,
             active : BOOLEAN, epoch : 0..(MaxEpoch + 1)]

\* New contents are a version of their own, without consent.
LEMMA WrittenIsPolicy ==
    ASSUME TypeOK, NEW digest \in Digests, policy.version < MaxVersion
    PROVE  LET p == Written(digest) IN
           /\ p \in Policies /\ p.version > 0 /\ p.active = FALSE /\ p.epoch > 0
           /\ p.consent = policy.consent
  <1> DEFINE epoch == IF policy.epoch = 0 THEN 1 ELSE policy.epoch
  <1>1. policy \in Policies
    BY DEF TypeOK, Policies
  <1>2. /\ Written(digest) = [policy EXCEPT !.version = policy.version + 1, !.digest = digest,
                                           !.active = FALSE, !.epoch = epoch]
        /\ policy.version + 1 \in 1..MaxVersion /\ epoch \in 1..(MaxEpoch + 1)
    BY <1>1, ConstantsAssumption DEF Policies, Written
  <1> HIDE DEF epoch
  <1>3. /\ Written(digest).version = policy.version + 1 /\ Written(digest).active = FALSE
        /\ Written(digest).epoch = epoch /\ Written(digest).consent = policy.consent
    BY <1>1, <1>2 DEF Policies
  <1>4. policy.version + 1 \in 0..MaxVersion /\ epoch \in 0..(MaxEpoch + 1)
    BY <1>2, ConstantsAssumption
  <1>5. Written(digest) \in Policies
    BY <1>1, <1>2, <1>4 DEF Policies
  <1> QED
    BY <1>2, <1>3, <1>5

LEMMA WritePolicyKeeps ==
    ASSUME JobInvariant, NEW digest \in Digests, WritePolicy(digest)
    PROVE  JobInvariant' /\ Effect
  <1>0. TypeOK /\ \A i \in Rows : JobOK(jobs[i])
    BY DEF JobInvariant, AllJobsOK
  <1>1. jobs' = WithoutStale(policy') /\ jobs' \in [Rows -> JobRecords]
    BY <1>0, WithoutStaleUpdates DEF WritePolicy
  <1>2. policy' \in Policies /\ policy'.active = FALSE /\ policy'.epoch > 0
    BY <1>0, WrittenIsPolicy DEF WritePolicy
  <1>3. TypeOK' /\ PolicyOK'
    BY <1>0, <1>1, <1>2 DEF TypeOK, PolicyOK, Policies, WritePolicy
  <1> QED
    BY <1>1, <1>2, <1>3, WithdrawalKeeps DEF WritePolicy

LEMMA RevokeConsentKeeps ==
    ASSUME JobInvariant, RevokeConsent
    PROVE  JobInvariant' /\ Effect
  <1>0. TypeOK /\ PolicyOK /\ \A i \in Rows : JobOK(jobs[i])
    BY DEF JobInvariant, AllJobsOK
  <1>1. jobs' = WithoutStale(policy') /\ jobs' \in [Rows -> JobRecords]
    BY <1>0, WithoutStaleUpdates DEF RevokeConsent
  <1>2. /\ policy'.version = policy.version /\ policy'.active = FALSE /\ policy'.epoch = policy.epoch
        /\ policy' \in Policies
    BY <1>0 DEF TypeOK, RevokeConsent, Policies
  <1>3. TypeOK' /\ PolicyOK'
    BY <1>0, <1>1, <1>2 DEF TypeOK, PolicyOK, RevokeConsent, Policies
  <1> QED
    BY <1>1, <1>2, <1>3, WithdrawalKeeps DEF RevokeConsent

\* A consent makes the policy it is given to active, under a number of its own.
LEMMA ConsentedIsPolicy ==
    ASSUME NEW p \in Policies, p.consent < MaxVersion
    PROVE  LET new == Consented(p) IN
           /\ new \in Policies /\ new.version = p.version /\ new.active = TRUE
           /\ new.consent = p.consent + 1 /\ new.consent \in 1..MaxVersion /\ new.epoch = p.epoch
  <1>1. Consented(p) = [p EXCEPT !.consent = p.consent + 1, !.active = TRUE] /\ p.consent + 1 \in 1..MaxVersion
    BY ConstantsAssumption DEF Policies, Consented
  <1>2. /\ Consented(p).version = p.version /\ Consented(p).active = TRUE
        /\ Consented(p).consent = p.consent + 1 /\ Consented(p).epoch = p.epoch
    BY <1>1 DEF Policies
  <1>3. p.consent + 1 \in 0..MaxVersion
    BY <1>1, ConstantsAssumption
  <1>4. Consented(p) \in Policies
    BY <1>1, <1>3 DEF Policies
  <1> QED
    BY <1>1, <1>2, <1>4

\* What is recorded of it is the policy it made active.
LEMMA AgreeRecords ==
    ASSUME TypeOK, policy' \in Policies, policy'.version \in 1..MaxVersion, policy'.epoch > 0,
           policy'.consent = policy.consent + 1, policy'.consent \in 1..MaxVersion,
           Agree(policy'.version), jobs' \in [Rows -> JobRecords], UNCHANGED <<live, worker, ran>>
    PROVE  TypeOK' /\ PolicyOK' /\ agreed \subseteq agreed'
  BY DEF TypeOK, PolicyOK, Agree, Policies

\* A consent finds no unstarted work: what there was went with the last one.
LEMMA ConsentKeeps ==
    ASSUME JobInvariant, ~policy.active, policy.version > 0, policy.consent < MaxVersion,
           policy' = Consented(policy), Agree(policy'.version), UNCHANGED <<live, jobs, worker, ran>>
    PROVE  JobInvariant' /\ Effect
  <1>0. TypeOK /\ PolicyOK /\ \A i \in Rows : jobs[i] \in JobRecords /\ JobOK(jobs[i])
    BY DEF JobInvariant, AllJobsOK, TypeOK
  <1>1. /\ policy' \in Policies /\ policy'.version = policy.version /\ policy'.version \in 1..MaxVersion
        /\ policy'.consent = policy.consent + 1 /\ policy'.consent \in 1..MaxVersion /\ policy'.epoch > 0
    <2>1. policy \in Policies /\ policy.version \in 1..MaxVersion /\ policy.epoch > 0
      BY <1>0, ConstantsAssumption DEF TypeOK, Policies, PolicyOK
    <2> QED
      BY <2>1, ConsentedIsPolicy
  <1>2. TypeOK' /\ PolicyOK' /\ agreed \subseteq agreed'
    BY <1>0, <1>1, AgreeRecords DEF TypeOK
  <1>3. \A i \in Rows : jobs[i].status \notin Unstarted
    BY DEF JobInvariant, UnstartedWorkIsAuthorised, AuthorityCurrent
  <1>4. \A i \in Rows : AuthorisedAt(i)'
    BY <1>3 DEF AuthorisedAt
  <1>5. \A i \in Rows : Updates(jobs[i], jobs'[i])
    BY <1>0, KeptUpdates
  <1> QED
    BY <1>2, <1>4, <1>5, UpdatesKeep

LEMMA GrantConsentKeeps ==
    ASSUME JobInvariant, NEW expected \in 0..MaxVersion, GrantConsent(expected)
    PROVE  JobInvariant' /\ Effect
  <1>1. policy'.version = policy.version
    BY ConsentedIsPolicy DEF JobInvariant, TypeOK, GrantConsent, Policies
  <1>2. Agree(policy'.version)
    BY <1>1 DEF GrantConsent, IsExpected
  <1> QED
    BY <1>2, ConsentKeeps DEF GrantConsent

\* Contents that are written withdraw all unstarted work, and their consent
\* starts without any.
LEMMA SaveAndEnableKeeps ==
    ASSUME JobInvariant, NEW base \in 0..MaxVersion, NEW digest \in Digests, SaveAndEnable(base, digest)
    PROVE  JobInvariant' /\ Effect
  <1>0. TypeOK /\ \A i \in Rows : JobOK(jobs[i])
    BY DEF JobInvariant, AllJobsOK
  <1>1. CASE digest # policy.digest
    <2>1. /\ policy' = Consented(Written(digest)) /\ jobs' = WithoutStale(Written(digest))
          /\ policy.version < MaxVersion /\ policy.consent < MaxVersion
          /\ Agree(policy'.version) /\ UNCHANGED <<live, worker, ran>>
      BY <1>1 DEF SaveAndEnable
    <2>2. /\ Written(digest) \in Policies /\ Written(digest).version > 0 /\ Written(digest).active = FALSE
          /\ Written(digest).epoch > 0 /\ Written(digest).consent = policy.consent
      BY <1>0, <2>1, WrittenIsPolicy
    <2>3. /\ policy' \in Policies /\ policy'.version \in 1..MaxVersion /\ policy'.epoch > 0
          /\ policy'.consent = policy.consent + 1 /\ policy'.consent \in 1..MaxVersion
      <3>1. policy' \in Policies /\ policy'.version > 0
        BY <2>1, <2>2, ConsentedIsPolicy
      <3>2. policy'.version \in 1..MaxVersion
        BY <3>1, ConstantsAssumption DEF Policies
      <3> QED
        BY <2>1, <2>2, <3>1, <3>2, ConsentedIsPolicy
    <2>4. jobs' \in [Rows -> JobRecords]
      BY <1>0, <2>1, WithoutStaleUpdates
    <2>5. TypeOK' /\ PolicyOK' /\ agreed \subseteq agreed'
      BY <1>0, <2>1, <2>3, <2>4, AgreeRecords
    <2> QED
      BY <2>1, <2>2, <2>5, WithdrawalKeeps
  <1>2. CASE digest = policy.digest
    <2>1. /\ ~policy.active /\ policy.consent < MaxVersion /\ policy' = Consented(policy)
          /\ Agree(policy'.version) /\ UNCHANGED <<live, jobs, worker, ran>>
      BY <1>2 DEF SaveAndEnable
    <2>2. policy.version > 0
      BY <1>2 DEF SaveAndEnable
    <2> QED
      BY <2>1, <2>2, ConsentKeeps
  <1> QED
    BY <1>1, <1>2

LEMMA IssueRunnerKeeps ==
    ASSUME JobInvariant, NEW r \in Runners, IssueRunner(r)
    PROVE  JobInvariant' /\ Effect
  <1>0. TypeOK /\ PolicyOK /\ \A i \in Rows : jobs[i] \in JobRecords /\ JobOK(jobs[i])
    BY DEF JobInvariant, AllJobsOK, TypeOK
  <1>1. TypeOK' /\ PolicyOK'
    BY <1>0 DEF TypeOK, PolicyOK, IssueRunner
  <1>2. ASSUME NEW i \in Rows PROVE AuthorisedAt(i)'
    <2>1. AuthorisedAt(i)
      BY DEF JobInvariant, UnstartedWorkIsAuthorised, AuthorisedAt
    <2> QED
      BY <1>0, <2>1 DEF AuthorisedAt, AuthorityCurrent, CredentialCurrent, IssueRunner, TypeOK
  <1>3. \A i \in Rows : Updates(jobs[i], jobs'[i])
    BY <1>0, KeptUpdates DEF IssueRunner
  <1> QED
    BY <1>1, <1>2, <1>3, UpdatesKeep DEF IssueRunner

\* Revoking a runner withdraws exactly the claims that only it could start.
LEMMA RevokeRunnerKeeps ==
    ASSUME JobInvariant, NEW r \in Runners, RevokeRunner(r)
    PROVE  JobInvariant' /\ Effect
  <1>0. TypeOK /\ PolicyOK /\ \A i \in Rows : jobs[i] \in JobRecords /\ JobOK(jobs[i])
    BY DEF JobInvariant, AllJobsOK, TypeOK
  <1>1. ASSUME NEW i \in Rows
        PROVE  /\ Updates(jobs[i], jobs'[i])
               /\ jobs'[i].status = "claimed" => jobs'[i] = jobs[i] /\ jobs[i].credential.runner # r
               /\ jobs'[i].status \in Queued => jobs'[i] = jobs[i]
    <2>1. CASE jobs[i].status = "claimed" /\ jobs[i].credential.runner = r
      <3>1. jobs'[i] = Interrupted(jobs[i])
        BY <2>1 DEF RevokeRunner, WithoutClaimsOf
      <3>2. jobs'[i].status = "interrupted"
        BY <1>0, <3>1 DEF Interrupted, JobRecords
      <3> QED
        BY <1>0, <2>1, <3>1, <3>2, InterruptedUpdates
    <2>2. CASE ~(jobs[i].status = "claimed" /\ jobs[i].credential.runner = r)
      <3>1. jobs'[i] = jobs[i]
        BY <2>2 DEF RevokeRunner, WithoutClaimsOf
      <3> QED
        BY <1>0, <2>2, <3>1, KeptUpdates
    <2> QED
      BY <2>1, <2>2
  <1>2. jobs' \in [Rows -> JobRecords]
    BY <1>1 DEF RevokeRunner, WithoutClaimsOf, Updates
  <1>3. TypeOK' /\ PolicyOK'
    BY <1>0, <1>2 DEF TypeOK, PolicyOK, RevokeRunner
  <1>4. ASSUME NEW i \in Rows PROVE AuthorisedAt(i)'
    <2>1. AuthorisedAt(i)
      BY DEF JobInvariant, UnstartedWorkIsAuthorised, AuthorisedAt
    <2>2. jobs'[i].status \in Unstarted => AuthorityCurrent(jobs'[i], policy')
      BY <1>1, <2>1 DEF AuthorisedAt, RevokeRunner
    <2>3. jobs'[i].status = "claimed" => CredentialCurrent(jobs[i].credential)' /\ jobs'[i] = jobs[i]
      BY <1>0, <1>1, <2>1 DEF AuthorisedAt, CredentialCurrent, RevokeRunner, TypeOK
    <2> QED
      BY <2>2, <2>3 DEF AuthorisedAt, CredentialCurrent
  <1> QED
    BY <1>1, <1>3, <1>4, UpdatesKeep DEF RevokeRunner
-----------------------------------------------------------------------------
(* The queue *)

\* The generation of a rerun is one more than one of its family.
LEMMA GenerationBounded ==
    ASSUME TypeOK, NEW i \in Rows, NEW g \in 1..MaxJobs, NEW event \in Events \cup {"none"}
    PROVE  OriginFor(event, RootOf(i), g) \in Origins
  <1>1. jobs[i].origin \in Origins
    BY DEF TypeOK, JobRecords
  <1>2. RootOf(i) \in 0..MaxJobs
    BY <1>1, ConstantsAssumption DEF RootOf, Origins, Rows
  <1>3. policy.version \in 0..MaxVersion /\ policy.consent \in 0..MaxVersion
    BY DEF TypeOK
  <1> QED
    BY <1>2, <1>3, ConstantsAssumption DEF OriginFor, Origins

\* A job is admitted under the current policy, on a row that never ran.
LEMMA AdmittedJobsAreOK ==
    ASSUME NEW origin \in Origins, NEW new \in AdmittedJobs(origin)
    PROVE  /\ new \in JobRecords /\ JobOK(new)
           /\ new.origin = origin /\ new.started = FALSE /\ new.status # "claimed"
           /\ Verdict(new) \in {"open", "skipped", "error"}
  <1>1. CASE origin.event \in Workflows
    <2> DEFINE job == Admitted("waiting", origin)
    <2>1. /\ job \in JobRecords /\ JobOK(job)
          /\ job.status = "waiting" /\ job.origin = origin /\ job.started = FALSE
      BY <1>1, AdmittedIsOK
    <2>2. new \in Settlements(job)
      BY <1>1 DEF AdmittedJobs
    <2> HIDE DEF job
    <2>3. Updates(job, new)
      BY <2>1, <2>2, SettledUpdates
    <2>4. Verdict(new) \in {"open", "skipped", "error"}
      <3>1. CASE new = job \/ new = [job EXCEPT !.status = "pending"]
        BY <2>1, <3>1 DEF Verdict, JobRecords
      <3>2. ASSUME NEW status \in Endings, new = EndedUnstarted(job, status)
            PROVE  Verdict(new) \in {"open", "skipped", "error"}
        BY <2>1, <3>2, ConstantsAssumption DEF Verdict, EndedUnstarted, JobRecords
      <3> QED
        BY <2>2, <3>1, <3>2 DEF Settlements
    <2> QED
      BY <2>1, <2>3, <2>4 DEF Updates, Promises
  <1>2. CASE origin.event \notin Workflows
    <2>1. new = Admitted("pending", origin)
      BY <1>2 DEF AdmittedJobs
    <2> QED
      BY <2>1, AdmittedIsOK DEF Verdict
  <1> QED
    BY <1>1, <1>2

LEMMA InsertKeeps ==
    ASSUME JobInvariant, NEW i \in Rows, NEW origin \in Origins, Insert(i, origin),
           origin.version = policy.version, origin.consent = policy.consent
    PROVE  JobInvariant' /\ Effect
  <1>0. TypeOK /\ PolicyOK /\ \A k \in Rows : jobs[k] \in JobRecords /\ JobOK(jobs[k])
    BY DEF JobInvariant, AllJobsOK, TypeOK
  <1>a. PICK new \in AdmittedJobs(origin) : jobs' = [jobs EXCEPT ![i] = new]
    BY DEF Insert
  <1>1. /\ jobs' = [jobs EXCEPT ![i] = new] /\ jobs[i].status = "absent" /\ policy.active
        /\ UNCHANGED <<policy, agreed, live, worker, ran>>
    BY <1>a DEF Insert, FreeRow
  <1>2. /\ new \in JobRecords /\ JobOK(new)
        /\ new.origin = origin /\ new.started = FALSE /\ new.status # "claimed"
        /\ Verdict(new) \in {"open", "skipped", "error"}
    BY AdmittedJobsAreOK
  <1>3. jobs' \in [Rows -> JobRecords] /\ jobs'[i] = new /\ \A k \in Rows \ {i} : jobs'[k] = jobs[k]
    BY <1>0, <1>1, <1>2 DEF TypeOK
  <1>4. TypeOK' /\ PolicyOK' /\ AllJobsOK'
    BY <1>0, <1>1, <1>2, <1>3 DEF TypeOK, PolicyOK, AllJobsOK
  <1>b. jobs[i].started = FALSE
    BY <1>0, <1>1 DEF JobOK, JobRecords
  <1>5. jobs[i].started = FALSE /\ ran[i] = 0
    BY <1>0, <1>b DEF JobInvariant, ExecutedOnce, TypeOK
  <1>6. UnstartedWorkIsAuthorised'
    <2>1. ASSUME NEW k \in Rows PROVE AuthorisedAt(k)'
      <3>1. AuthorisedAt(k)
        BY DEF JobInvariant, UnstartedWorkIsAuthorised, AuthorisedAt
      <3>2. CASE k = i
        BY <1>1, <1>2, <1>3, <3>2 DEF AuthorisedAt, AuthorityCurrent
      <3>3. CASE k # i
        BY <1>1, <1>3, <3>1, <3>3 DEF AuthorisedAt, AuthorityCurrent, CredentialCurrent
      <3> QED
        BY <3>2, <3>3
    <2> QED
      BY <2>1 DEF UnstartedWorkIsAuthorised, AuthorisedAt
  <1>7. ExecutedOnce' /\ ExecutedWorkWasAgreedTo'
    BY <1>1, <1>3, <1>5 DEF JobInvariant, ExecutedOnce, ExecutedWorkWasAgreedTo
  <1>8. Effect
    <2>1. ASSUME NEW k \in Rows PROVE Promises(jobs[k], jobs'[k])
      <3>1. CASE k = i
        BY <1>1, <1>2, <1>3, <1>5, <3>1 DEF Promises, CanBecome, Verdict
      <3>2. CASE k # i
        BY <1>3, <3>2 DEF Promises, CanBecome
      <3> QED
        BY <3>1, <3>2
    <2> QED
      BY <2>1 DEF Effect
  <1> QED
    BY <1>4, <1>6, <1>7, <1>8 DEF JobInvariant

LEMMA QueueKeeps ==
    ASSUME JobInvariant, NEW i \in Rows
    PROVE  /\ \A event \in Events : Admit(i, event) => JobInvariant' /\ Effect
           /\ \A k \in Rows : Rerun(k, i) => JobInvariant' /\ Effect
           /\ SettleWaiting(i) => JobInvariant' /\ Effect
           /\ CancelCheckJob(i) => JobInvariant' /\ Effect
  <1>0. TypeOK /\ \A k \in Rows : jobs[k] \in JobRecords /\ JobOK(jobs[k])
    BY DEF JobInvariant, AllJobsOK, TypeOK
  <1>1. ASSUME NEW event \in Events, Admit(i, event) PROVE JobInvariant' /\ Effect
    <2>1. OriginFor(event, 0, 0) \in Origins
      BY <1>0, ConstantsAssumption DEF OriginFor, Origins, TypeOK
    <2>2. OriginFor(event, 0, 0).version = policy.version /\ OriginFor(event, 0, 0).consent = policy.consent
      BY DEF OriginFor
    <2> QED
      BY <1>1, <2>1, <2>2, InsertKeeps DEF Admit
  <1>2. ASSUME NEW k \in Rows, Rerun(k, i) PROVE JobInvariant' /\ Effect
    <2>1. PICK g \in 1..MaxJobs : Insert(i, OriginFor(jobs[k].origin.event, RootOf(k), g))
      BY <1>2 DEF Rerun
    <2> DEFINE origin == OriginFor(jobs[k].origin.event, RootOf(k), g)
    <2>2. jobs[k].origin.event \in Events \cup {"none"}
      BY <1>0 DEF JobRecords, Origins
    <2>3. origin \in Origins
      BY <1>0, <2>2, GenerationBounded
    <2>4. origin.version = policy.version /\ origin.consent = policy.consent
      BY DEF OriginFor
    <2> QED
      BY <2>1, <2>3, <2>4, InsertKeeps
  <1>3. ASSUME CancelCheckJob(i) PROVE JobInvariant' /\ Effect
    <2>1. jobs[i].status # "absent" /\ jobs' = [jobs EXCEPT ![i] = Cancelled(jobs[i])]
      BY <1>3 DEF CancelCheckJob
    <2>2. Updates(jobs[i], Cancelled(jobs[i]))
      BY <1>0, <2>1, CancelledUpdates
    <2>3. worker' \in [Workers -> WorkerRecords] /\ UNCHANGED <<policy, agreed, live, ran>>
      BY <1>0, <1>3 DEF TypeOK, CancelCheckJob
    <2> QED
      BY <2>1, <2>2, <2>3, OneUpdateKeeps
  <1>4. ASSUME SettleWaiting(i) PROVE JobInvariant' /\ Effect
    <2>1. PICK new \in Settlements(jobs[i]) : jobs' = [jobs EXCEPT ![i] = new]
      BY <1>4 DEF SettleWaiting
    <2>2. Updates(jobs[i], new)
      BY <1>0, <1>4, SettledUpdates DEF SettleWaiting
    <2>3. worker' \in [Workers -> WorkerRecords] /\ UNCHANGED <<policy, agreed, live, ran>>
      BY <1>0, <1>4 DEF TypeOK, SettleWaiting
    <2> QED
      BY <2>1, <2>2, <2>3, OneUpdateKeeps
  <1> QED
    BY <1>1, <1>2, <1>3, <1>4
-----------------------------------------------------------------------------
(* Leases *)

LEMMA LeasesKeep ==
    ASSUME JobInvariant
    PROVE  /\ \A i \in Rows : LeaseRunsOut(i) => JobInvariant' /\ Effect
           /\ ExpireLeases => JobInvariant' /\ Effect
  <1>0. TypeOK /\ \A k \in Rows : jobs[k] \in JobRecords /\ JobOK(jobs[k])
    BY DEF JobInvariant, AllJobsOK, TypeOK
  <1>1. ASSUME NEW i \in Rows, LeaseRunsOut(i) PROVE JobInvariant' /\ Effect
    <2>1. jobs[i].status \in Active /\ jobs' = [jobs EXCEPT ![i] = [jobs[i] EXCEPT !.late = TRUE]]
      BY <1>1 DEF LeaseRunsOut
    <2>2. Updates(jobs[i], [jobs[i] EXCEPT !.late = TRUE])
      BY <1>0, <2>1, LateUpdates
    <2>3. worker' \in [Workers -> WorkerRecords] /\ UNCHANGED <<policy, agreed, live, ran>>
      BY <1>0, <1>1 DEF TypeOK, LeaseRunsOut
    <2> QED
      BY <2>1, <2>2, <2>3, OneUpdateKeeps
  <1>2. ASSUME ExpireLeases PROVE JobInvariant' /\ Effect
    <2>1. ASSUME NEW i \in Rows PROVE Updates(jobs[i], jobs'[i])
      <3>1. CASE IsExpired(i)
        <4>1. jobs'[i] = LeaseLost(jobs[i], "deadline") /\ jobs[i].status \in Active
          BY <1>2, <3>1 DEF ExpireLeases, IsExpired
        <4> QED
          BY <1>0, <4>1, LeaseLostUpdates
      <3>2. CASE ~IsExpired(i)
        <4>1. jobs'[i] = jobs[i]
          BY <1>2, <3>2 DEF ExpireLeases
        <4> QED
          BY <1>0, <4>1, KeptUpdates
      <3> QED
        BY <3>1, <3>2
    <2>2. jobs' \in [Rows -> JobRecords]
      BY <1>2, <2>1 DEF ExpireLeases, Updates
    <2>3. worker' \in [Workers -> WorkerRecords] /\ UNCHANGED <<policy, agreed, live, ran>>
      BY <1>0, <1>2 DEF TypeOK, ExpireLeases
    <2> QED
      BY <2>1, <2>2, <2>3, WorkUpdatesKeep
  <1> QED
    BY <1>1, <1>2
-----------------------------------------------------------------------------
(* Workers *)

\* A worker that gives its claim up.
LEMMA AbandonKeepsType ==
    ASSUME TypeOK, NEW w \in Workers, Abandon(w)
    PROVE  worker' \in [Workers -> WorkerRecords]
  <1>1. Idle \in WorkerRecords
    BY ConstantsAssumption DEF Idle, NoClaim, WorkerRecords, Claims, Credentials
  <1> QED
    BY <1>1 DEF TypeOK, Abandon

\* What a worker owns is a row.
LEMMA OwnedRow ==
    ASSUME TypeOK, NEW w \in Workers, Owns(w)
    PROVE  worker[w].claim.job \in Rows /\ Held(w) = jobs[worker[w].claim.job]
  BY ConstantsAssumption DEF TypeOK, WorkerRecords, Claims, Owns, Rows, Held

\* A worker's step that updates the job it owns, and nothing else of the jobs.
LEMMA HeldUpdateKeeps ==
    ASSUME JobInvariant, NEW w \in Workers, Owns(w), NEW new, SetHeld(w, new), Updates(Held(w), new),
           worker' = worker \/ Abandon(w), UNCHANGED <<policy, agreed, live, ran>>
    PROVE  JobInvariant' /\ Effect
  <1>1. TypeOK
    BY DEF JobInvariant
  <1>2. worker[w].claim.job \in Rows /\ Held(w) = jobs[worker[w].claim.job]
    BY <1>1, OwnedRow
  <1>3. worker' \in [Workers -> WorkerRecords]
    BY <1>1, AbandonKeepsType DEF TypeOK
  <1>4. jobs' = [jobs EXCEPT ![worker[w].claim.job] = new]
    BY DEF SetHeld
  <1> QED
    BY <1>2, <1>3, <1>4, OneUpdateKeeps

\* A claim is of current authority, by a credential that is good.
LEMMA ClaimKeeps ==
    ASSUME JobInvariant, NEW w \in Workers, NEW i \in Rows, Claim(w, i)
    PROVE  JobInvariant' /\ Effect
  <1> DEFINE credential == CredentialOf(w)
             new == Claimed(jobs[i], credential, jobs[i].lease + 1)
             stripped == WithoutStale(policy)
  <1>0. TypeOK /\ PolicyOK /\ \A k \in Rows : jobs[k] \in JobRecords /\ JobOK(jobs[k])
    BY DEF JobInvariant, AllJobsOK, TypeOK
  <1>1. /\ jobs[i].status = "pending" /\ AuthorityCurrent(jobs[i], policy)
        /\ policy.version > 0 /\ MayClaim(w) /\ UNCHANGED <<policy, agreed, live, ran>>
    BY DEF Claim, OldestPending, IsStale
  <1>2. /\ stripped \in [Rows -> JobRecords]
        /\ \A k \in Rows : /\ Updates(jobs[k], stripped[k])
                           /\ stripped[k].status \in Unstarted => stripped[k] = jobs[k]
    BY <1>0, WithoutStaleUpdates
  <1>3. stripped[i] = jobs[i]
    BY <1>1 DEF WithoutStale, IsStale
  <1>4. credential \in Credentials /\ credential # Unclaimed
    <2>1. CASE w = "coordinator"
      BY <1>0, <1>1, <2>1, ConstantsAssumption DEF CredentialOf, Credentials, Unclaimed, TypeOK, PolicyOK
    <2>2. CASE w # "coordinator"
      BY <2>2 DEF CredentialOf, Credentials, Unclaimed, Workers
    <2> QED
      BY <2>1, <2>2
  <1>5. CredentialCurrent(credential)
    <2>1. CASE w = "coordinator"
      BY <2>1 DEF CredentialOf, CredentialCurrent
    <2>2. CASE w # "coordinator"
      BY <1>1, <2>2 DEF CredentialOf, CredentialCurrent, MayClaim
    <2> QED
      BY <2>1, <2>2
  <1>6. /\ new \in JobRecords /\ JobOK(new)
        /\ new.started = jobs[i].started /\ new.origin = jobs[i].origin /\ new.credential = credential
        /\ new.status = "claimed" /\ Verdict(new) = Verdict(jobs[i])
    BY <1>0, <1>1, <1>4, ClaimedIsOK
  <1>7. jobs' = [stripped EXCEPT ![i] = new]
    BY <1>2, <1>3 DEF Claim
  <1>a. jobs[i].lease = 0
    BY <1>0, <1>1 DEF JobRecords, JobOK, Restorable, StatusFits, RefusedByBackups, SkippedTooLate, FailedUnclaimed, HasLease, NoLease
  <1>b. worker' \in [Workers -> WorkerRecords]
    <2> DEFINE claim == [job |-> i, lease |-> jobs[i].lease + 1, credential |-> credential]
    <2>1. claim \in Claims
      BY <1>4, <1>a, ConstantsAssumption DEF Claims, Rows
    <2>2. [phase |-> "claimed", claim |-> claim] \in WorkerRecords
      BY <2>1 DEF WorkerRecords
    <2>3. worker' = [worker EXCEPT ![w] = [phase |-> "claimed", claim |-> claim]]
      BY DEF Claim
    <2> HIDE DEF claim
    <2> QED
      BY <1>0, <2>2, <2>3 DEF TypeOK
  <1> HIDE DEF new, stripped, credential
  <1>8. jobs'[i] = new /\ \A k \in Rows \ {i} : jobs'[k] = stripped[k]
    BY <1>2, <1>7
  <1>9. jobs' \in [Rows -> JobRecords]
    BY <1>2, <1>6, <1>7
  <1>10. TypeOK' /\ PolicyOK'
    BY <1>0, <1>1, <1>9, <1>b DEF TypeOK, PolicyOK
  <1>11. /\ AllJobsOK'
         /\ \A k \in Rows : jobs'[k].started = jobs[k].started /\ jobs'[k].origin = jobs[k].origin
    BY <1>2, <1>6, <1>8 DEF AllJobsOK, Updates, Promises
  <1>12. ExecutedOnce' /\ ExecutedWorkWasAgreedTo'
    BY <1>1, <1>11 DEF JobInvariant, ExecutedOnce, ExecutedWorkWasAgreedTo
  <1>13. UnstartedWorkIsAuthorised'
    <2>1. ASSUME NEW k \in Rows PROVE AuthorisedAt(k)'
      <3>1. AuthorisedAt(k)
        BY DEF JobInvariant, UnstartedWorkIsAuthorised, AuthorisedAt
      <3>2. CASE k = i
        BY <1>1, <1>5, <1>6, <1>8, <3>2 DEF AuthorisedAt, AuthorityCurrent, CredentialCurrent
      <3>3. CASE k # i
        BY <1>1, <1>2, <1>8, <3>1, <3>3 DEF AuthorisedAt, AuthorityCurrent, CredentialCurrent
      <3> QED
        BY <3>2, <3>3
    <2> QED
      BY <2>1 DEF UnstartedWorkIsAuthorised, AuthorisedAt
  <1>14. Effect
    <2>1. ASSUME NEW k \in Rows PROVE Promises(jobs[k], jobs'[k])
      <3>1. CASE k = i
        BY <1>6, <1>8, <3>1 DEF Promises, CanBecome
      <3>2. CASE k # i
        BY <1>2, <1>8, <3>2 DEF Updates
      <3> QED
        BY <3>1, <3>2
    <2> QED
      BY <2>1 DEF Effect
  <1> QED
    BY <1>10, <1>11, <1>12, <1>13, <1>14 DEF JobInvariant

\* A start is granted to a claim whose version was agreed to: the authority it
\* has is the current one.
LEMMA GrantKeeps ==
    ASSUME JobInvariant, NEW w \in Workers, Starts(w), MayStart(w), SetHeld(w, Started(Held(w))),
           worker' \in [Workers -> WorkerRecords], UNCHANGED authority,
           \/ ran' = ran
           \/ ran' = [ran EXCEPT ![worker[w].claim.job] = ran[worker[w].claim.job] + 1]
    PROVE  JobInvariant' /\ Effect
  <1> DEFINE i == worker[w].claim.job
             new == Started(jobs[i])
  <1>0. TypeOK /\ PolicyOK /\ \A k \in Rows : jobs[k] \in JobRecords /\ JobOK(jobs[k])
    BY DEF JobInvariant, AllJobsOK, TypeOK
  <1>1. i \in Rows /\ Held(w) = jobs[i]
    BY <1>0, OwnedRow DEF Starts
  <1>2. /\ jobs[i].status = "claimed" /\ jobs' = [jobs EXCEPT ![i] = new]
        /\ policy.active /\ jobs[i].origin.version = policy.version /\ jobs[i].origin.consent = policy.consent
        /\ UNCHANGED <<policy, agreed, live>>
    BY <1>1 DEF Starts, MayStart, SetHeld, AuthorityCurrent, authority
  <1>3. /\ new \in JobRecords /\ JobOK(new)
        /\ ~jobs[i].started /\ new.started /\ new.origin = jobs[i].origin /\ new.status = "started"
    BY <1>0, <1>1, <1>2, StartedIsOK
  <1>4. ran[i] = 0
    BY <1>0, <1>1, <1>3 DEF JobInvariant, ExecutedOnce, TypeOK
  <1>5. Effect
    BY <1>1, <1>2 DEF Effect, Starting
  <1> HIDE DEF new, i
  <1>6. jobs' \in [Rows -> JobRecords] /\ jobs'[i] = new /\ \A k \in Rows \ {i} : jobs'[k] = jobs[k]
    BY <1>0, <1>1, <1>2, <1>3 DEF TypeOK
  <1>7. /\ ran' \in [Rows -> Nat] /\ ran'[i] \in {0, 1}
        /\ \A k \in Rows \ {i} : ran'[k] = ran[k]
    BY <1>0, <1>1, <1>4 DEF TypeOK, i
  <1>8. TypeOK' /\ PolicyOK' /\ AllJobsOK'
    BY <1>0, <1>1, <1>2, <1>3, <1>6, <1>7 DEF TypeOK, PolicyOK, AllJobsOK
  <1>9. ExecutedOnce'
    BY <1>1, <1>3, <1>6, <1>7 DEF JobInvariant, ExecutedOnce
  <1>10. ExecutedWorkWasAgreedTo'
    BY <1>0, <1>1, <1>2, <1>3, <1>6, <1>7 DEF JobInvariant, ExecutedWorkWasAgreedTo, PolicyOK
  <1>11. UnstartedWorkIsAuthorised'
    <2>1. ASSUME NEW k \in Rows PROVE AuthorisedAt(k)'
      <3>1. AuthorisedAt(k)
        BY DEF JobInvariant, UnstartedWorkIsAuthorised, AuthorisedAt
      <3>2. CASE k = i
        BY <1>3, <1>6, <3>2 DEF AuthorisedAt
      <3>3. CASE k # i
        BY <1>2, <1>6, <3>1, <3>3 DEF AuthorisedAt, AuthorityCurrent, CredentialCurrent
      <3> QED
        BY <3>2, <3>3
    <2> QED
      BY <2>1 DEF UnstartedWorkIsAuthorised, AuthorisedAt
  <1> QED
    BY <1>5, <1>8, <1>9, <1>10, <1>11 DEF JobInvariant
LEMMA WorkerKeeps ==
    ASSUME JobInvariant, NEW w \in Workers, WorkerStep(w)
    PROVE  JobInvariant' /\ Effect
  <1>0. TypeOK /\ \A k \in Rows : jobs[k] \in JobRecords /\ JobOK(jobs[k])
    BY DEF JobInvariant, AllJobsOK, TypeOK
  <1>a. Owns(w) => Held(w) \in JobRecords /\ JobOK(Held(w))
    BY <1>0, OwnedRow
  <1>b. Abandon(w) => worker' \in [Workers -> WorkerRecords]
    BY <1>0, AbandonKeepsType
  <1>1. ASSUME NEW i \in Rows, Claim(w, i) PROVE JobInvariant' /\ Effect
    BY <1>1, ClaimKeeps
  <1>2. CASE Start(w)
    <2>1. worker' \in [Workers -> WorkerRecords]
      BY <1>0, <1>2 DEF Start, TypeOK, WorkerRecords
    <2> QED
      BY <1>2, <2>1, GrantKeeps DEF Start
  <1>3. CASE StartAnswerIsLost(w)
    <2>1. worker' \in [Workers -> WorkerRecords]
      BY <1>0, <1>3 DEF StartAnswerIsLost, TypeOK
    <2> QED
      BY <1>3, <2>1, GrantKeeps DEF StartAnswerIsLost
  <1>4. CASE StartFindsLeaseLost(w)
    <2>1. /\ Owns(w) /\ Held(w).status = "claimed" /\ SetHeld(w, LeaseLost(Held(w), "deadline"))
          /\ Abandon(w) /\ UNCHANGED <<policy, agreed, live, ran>>
      BY <1>4 DEF StartFindsLeaseLost, Starts, authority
    <2>2. Updates(Held(w), LeaseLost(Held(w), "deadline"))
      BY <1>a, <2>1, LeaseLostUpdates
    <2> QED
      BY <2>1, <2>2, HeldUpdateKeeps
  <1>5. ASSUME NEW status \in Failures, FailBeforeStart(w, status) PROVE JobInvariant' /\ Effect
    <2>1. /\ Owns(w) /\ Held(w).status = "claimed" /\ SetHeld(w, EndedUnstarted(Held(w), status))
          /\ Abandon(w) /\ UNCHANGED <<policy, agreed, live, ran>>
      BY <1>5 DEF FailBeforeStart, Starts, authority
    <2>2. Updates(Held(w), EndedUnstarted(Held(w), status))
      BY <1>a, <2>1, EndedUnstartedUpdates
    <2> QED
      BY <2>1, <2>2, HeldUpdateKeeps
  <1>6. CASE RenewLate(w)
    <2>1. /\ Owns(w) /\ Held(w).status \in Active /\ SetHeld(w, LeaseLost(Held(w), "deadline"))
          /\ UNCHANGED <<policy, agreed, live, worker, ran>>
      BY <1>6 DEF RenewLate, IsExpired, Held, authority
    <2>2. Updates(Held(w), LeaseLost(Held(w), "deadline"))
      BY <1>a, <2>1, LeaseLostUpdates
    <2> QED
      BY <2>1, <2>2, HeldUpdateKeeps
  <1>7. ASSUME NEW result \in Outcomes, Complete(w, result) \/ CompleteAnswerIsLost(w, result)
        PROVE  JobInvariant' /\ Effect
    <2>1. /\ Owns(w) /\ Held(w).status \in {"started", "ambiguous"} /\ Held(w).attempt = "pending"
          /\ SetHeld(w, Completed(Held(w), result))
          /\ result = "skipped" => Held(w).origin.event \in Workflows
          /\ worker' = worker \/ Abandon(w)
          /\ UNCHANGED <<policy, agreed, live, ran>>
      BY <1>7 DEF Complete, CompleteAnswerIsLost, CanReport, MayComplete, authority
    <2>2. Updates(Held(w), Completed(Held(w), result))
      BY <1>a, <2>1, CompletedUpdates
    <2> QED
      BY <2>1, <2>2, HeldUpdateKeeps
  <1>8. CASE StartIsRefused(w) \/ CompleteChangesNothing(w) \/ RunnerStops(w)
    <2>1. Abandon(w) /\ UNCHANGED <<policy, agreed, live, jobs, ran>>
      BY <1>8 DEF StartIsRefused, CompleteChangesNothing, RunnerStops, authority
    <2> QED
      BY <1>b, <2>1, NoUpdateKeeps
  <1> QED
    BY <1>1, <1>2, <1>3, <1>4, <1>5, <1>6, <1>7, <1>8 DEF WorkerStep
-----------------------------------------------------------------------------
(* The server *)

LEMMA CoordinatorStops ==
    ASSUME TypeOK, worker' = [worker EXCEPT !["coordinator"] = Idle]
    PROVE  worker' \in [Workers -> WorkerRecords]
  <1>1. "coordinator" \in Workers
    BY DEF Workers
  <1> QED
    BY <1>1, AbandonKeepsType DEF Abandon

LEMMA RestartKeeps ==
    ASSUME JobInvariant, Restart
    PROVE  JobInvariant' /\ Effect
  <1>0. TypeOK /\ \A k \in Rows : jobs[k] \in JobRecords /\ JobOK(jobs[k])
    BY DEF JobInvariant, AllJobsOK, TypeOK
  <1>1. ASSUME NEW i \in Rows PROVE Updates(jobs[i], jobs'[i])
    <2>0. jobs'[i] = AfterRestart(jobs[i])
      BY DEF Restart
    <2>1. CASE jobs[i].status = "claimed"
      BY <1>0, <2>0, <2>1, InterruptedUpdates DEF AfterRestart
    <2>2. CASE jobs[i].status = "started"
      <3>1. jobs'[i] = LeaseLost(jobs[i], "restart")
        BY <2>0, <2>2 DEF AfterRestart
      <3> QED
        BY <1>0, <2>2, <3>1, LeaseLostUpdates
    <2>3. CASE jobs[i].status \notin {"claimed", "started"}
      <3>1. jobs'[i] = jobs[i]
        BY <2>0, <2>3 DEF AfterRestart
      <3> QED
        BY <1>0, <3>1, KeptUpdates
    <2> QED
      BY <2>1, <2>2, <2>3
  <1>2. jobs' \in [Rows -> JobRecords]
    BY <1>1 DEF Restart, Updates
  <1>3. worker' \in [Workers -> WorkerRecords] /\ UNCHANGED <<policy, agreed, live, ran>>
    BY <1>0, CoordinatorStops DEF Restart, authority
  <1> QED
    BY <1>1, <1>2, <1>3, WorkUpdatesKeep

\* A restore leaves no work that is not over, so nothing needs the authority it ends.
LEMMA RestoreKeeps ==
    ASSUME JobInvariant, Restore
    PROVE  JobInvariant' /\ Effect
  <1>0. TypeOK /\ PolicyOK /\ \A k \in Rows : jobs[k] \in JobRecords /\ JobOK(jobs[k])
    BY DEF JobInvariant, AllJobsOK, TypeOK
  <1>1. ASSUME NEW i \in Rows
        PROVE  Updates(jobs[i], jobs'[i]) /\ jobs'[i].status \notin Unfinished
    <2>0. jobs'[i] = Restored(jobs[i])
      BY DEF Restore
    <2>1. CASE jobs[i].status \in Unfinished
      <3>1. jobs'[i] = Interrupted(jobs[i])
        BY <2>0, <2>1 DEF Restored, IsTerminal
      <3>2. jobs'[i].status = "interrupted"
        BY <1>0, <3>1 DEF Interrupted, JobRecords
      <3> QED
        BY <1>0, <2>1, <3>1, <3>2, InterruptedUpdates
    <2>2. CASE jobs[i].status \notin Unfinished
      <3>1. jobs'[i] = jobs[i]
        BY <2>0, <2>2 DEF Restored, IsTerminal
      <3> QED
        BY <1>0, <2>2, <3>1, KeptUpdates
    <2> QED
      BY <2>1, <2>2
  <1>2. jobs' \in [Rows -> JobRecords]
    BY <1>1 DEF Restore, Updates
  <1>3. worker' \in [Workers -> WorkerRecords]
    BY <1>0, CoordinatorStops DEF Restore
  <1>4. /\ policy'.version = policy.version /\ policy'.active = FALSE /\ policy'.epoch = policy.epoch + 1
        /\ policy' \in [version : 0..MaxVersion, digest : Digests \cup {"none"}, consent : 0..MaxVersion,
                        active : BOOLEAN, epoch : 0..(MaxEpoch + 1)]
    <2>1. /\ policy' = [policy EXCEPT !.active = FALSE, !.epoch = policy.epoch + 1]
          /\ policy.epoch + 1 \in 0..(MaxEpoch + 1)
      BY <1>0, ConstantsAssumption DEF Restore, TypeOK
    <2> QED
      BY <1>0, <2>1 DEF TypeOK
  <1>5. TypeOK' /\ PolicyOK'
    <2>1. policy'.epoch > 0
      BY <1>0, <1>4, ConstantsAssumption DEF TypeOK
    <2> QED
      BY <1>0, <1>2, <1>3, <1>4, <2>1 DEF TypeOK, PolicyOK, Restore
  <1>6. \A i \in Rows : AuthorisedAt(i)'
    BY <1>1 DEF AuthorisedAt
  <1> QED
    BY <1>1, <1>5, <1>6, UpdatesKeep DEF Restore
-----------------------------------------------------------------------------
(* The theorems *)

LEMMA NextKeeps ==
    ASSUME JobInvariant, Next
    PROVE  JobInvariant' /\ Effect
  BY WritePolicyKeeps, GrantConsentKeeps, SaveAndEnableKeeps, RevokeConsentKeeps, IssueRunnerKeeps, RevokeRunnerKeeps,
     QueueKeeps, LeasesKeep, WorkerKeeps, RestartKeeps, RestoreKeeps DEF Next

LEMMA StutterKeeps ==
    ASSUME JobInvariant, UNCHANGED vars
    PROVE  JobInvariant' /\ Effect
  <1>1. worker' \in [Workers -> WorkerRecords] /\ UNCHANGED <<policy, agreed, live, jobs, ran>>
    BY DEF JobInvariant, TypeOK, vars
  <1> QED
    BY <1>1, NoUpdateKeeps

\* The inductive invariant holds: a job is restorable or of one of the two kinds a
\* backup refuses, unstarted work has the current authority, and an active
\* consent is one that was given to the stored version of the policy.
THEOREM JobsKeepTheirInvariant == Spec => []JobInvariant
  <1>1. JobInvariant /\ [Next]_vars => JobInvariant'
    BY NextKeeps, StutterKeeps
  <1> QED
    BY InvariantInit, <1>1, PTL DEF Spec

\* The commands of a job are executed at most once, only after the start was
\* recorded, for any number of jobs, runners, lost answers, restarts and restores.
THEOREM JobsExecutedOnce == Spec => []ExecutedOnce
  <1>1. JobInvariant => ExecutedOnce
    BY DEF JobInvariant
  <1> QED
    BY JobsKeepTheirInvariant, <1>1, PTL

\* Unstarted work always has the current authority and a good credential, so the
\* store's answer for a claim of stale authority is never given.
THEOREM UnstartedWorkStaysAuthorised == Spec => []UnstartedWorkIsAuthorised
  <1>1. JobInvariant => UnstartedWorkIsAuthorised
    BY DEF JobInvariant
  <1> QED
    BY JobsKeepTheirInvariant, <1>1, PTL

\* Work is executed only under a consent that was given to the policy version it
\* was admitted under: the version the consent names, or, when it names none, the
\* one stored when it was recorded.
THEOREM ExecutionFollowsConsent == Spec => []ExecutedWorkWasAgreedTo
  <1>1. JobInvariant => ExecutedWorkWasAgreedTo
    BY DEF JobInvariant
  <1> QED
    BY JobsKeepTheirInvariant, <1>1, PTL

\* Whatever happened to it, a job passes the checks of a backup, unless it is of a
\* workflow run and skipped too late, or ended in an error without a claim.
THEOREM OnlyTwoKindsRefused == Spec => []OnlyTwoKindsAreRefused
  <1>1. JobInvariant => OnlyTwoKindsAreRefused
    BY DEF JobInvariant, AllJobsOK, JobOK, OnlyTwoKindsAreRefused
  <1> QED
    BY JobsKeepTheirInvariant, <1>1, PTL
-----------------------------------------------------------------------------
(* The refinement *)

\* The mapping of ExecutionGrant in the words of the lemmas above.
grantedView == [i \in Rows |-> jobs[i].started]
verdictView == [i \in Rows |-> Verdict(jobs[i])]

\* A start is a grant.
LEMMA StartingGrants ==
    ASSUME JobInvariant, NEW i \in Rows, Starting(i)
    PROVE  /\ verdictView[i] = "open" /\ ~grantedView[i]
           /\ grantedView' = [grantedView EXCEPT ![i] = TRUE]
           /\ verdictView' = verdictView
  <1>0. jobs \in [Rows -> JobRecords] /\ jobs[i] \in JobRecords /\ JobOK(jobs[i])
    BY DEF JobInvariant, TypeOK, AllJobsOK
  <1>1. jobs[i].status = "claimed" /\ jobs' = [jobs EXCEPT ![i] = Started(jobs[i])]
    BY DEF Starting
  <1>2. /\ ~jobs[i].started /\ Started(jobs[i]).started /\ Verdict(Started(jobs[i])) = Verdict(jobs[i])
        /\ Started(jobs[i]) \in JobRecords
    BY <1>0, <1>1, StartedIsOK
  <1>3. jobs'[i] = Started(jobs[i]) /\ \A k \in Rows \ {i} : jobs'[k] = jobs[k]
    BY <1>0, <1>1
  <1>4. Verdict(jobs[i]) = "open"
    BY <1>1 DEF Verdict
  <1>5. \A k \in Rows : Verdict(jobs'[k]) = Verdict(jobs[k])
    BY <1>2, <1>3
  <1>6. \A k \in Rows : jobs'[k].started = IF k = i THEN TRUE ELSE jobs[k].started
    BY <1>2, <1>3 DEF JobRecords
  <1> QED
    BY <1>2, <1>4, <1>5, <1>6 DEF grantedView, verdictView

\* Every other step settles what the jobs promised.
LEMMA PromisesSettle ==
    ASSUME JobInvariant', \A i \in Rows : Promises(jobs[i], jobs'[i])
    PROVE  Grants!Settle
  <1>1. \A i \in Rows : jobs'[i].status \in Statuses
    BY DEF JobInvariant, TypeOK, JobRecords
  <1>2. \A i \in Rows : Verdict(jobs'[i]) \in Verdicts
    BY <1>1 DEF Verdict, Verdicts, Statuses
  <1>3. verdictView' \in [Rows -> Verdicts]
    BY <1>2 DEF verdictView
  <1>4. \A i \in Rows : /\ grantedView[i] = jobs[i].started /\ grantedView'[i] = grantedView[i]
                        /\ verdictView[i] = Verdict(jobs[i]) /\ verdictView'[i] = Verdict(jobs'[i])
    BY DEF Promises, grantedView, verdictView
  <1>5. grantedView' = grantedView
    BY DEF Promises, grantedView
  <1>6. \A i \in Rows : Grants!Settled(i, verdictView'[i])
    BY <1>4 DEF Promises, CanBecome, Grants!Settled, Grants!Results, Results, grantedView, verdictView, Verdict
  <1> QED
    BY <1>3, <1>5, <1>6 DEF Grants!Settle, Grants!Results, Results, grantedView, verdictView, Verdict, Verdicts

\* The check jobs implement ExecutionGrant: a start is granted once, to an open
\* job, and what becomes of it is what the grant allows.
THEOREM JobsImplementExecutionGrant == Spec => ImplementsExecutionGrant
  <1>1. Init => Grants!GrantInit
    BY DEF Init, Grants!GrantInit, Admitted
  <1>2. JobInvariant /\ JobInvariant' /\ [Next]_vars =>
            [Grants!GrantNext]_<<[i \in Rows |-> jobs[i].started], verdictView>>
    <2> SUFFICES ASSUME JobInvariant, JobInvariant', [Next]_vars
                 PROVE  Grants!GrantNext
      OBVIOUS
    <2>1. Effect
      BY NextKeeps, StutterKeeps
    <2>2. CASE \A i \in Rows : Promises(jobs[i], jobs'[i])
      BY <2>2, PromisesSettle DEF Grants!GrantNext
    <2>3. ASSUME NEW i \in Rows, Starting(i) PROVE Grants!GrantNext
      <3>1. Grants!Grant(i)
        BY <2>3, StartingGrants DEF Grants!Grant, grantedView, verdictView, Verdict
      <3> QED
        BY <3>1 DEF Grants!GrantNext
    <2> QED
      BY <2>1, <2>2, <2>3 DEF Effect
  <1> QED
    BY <1>1, <1>2, JobsKeepTheirInvariant, PTL DEF Spec, ImplementsExecutionGrant, Grants!GrantSpec, verdictView, Verdict
=============================================================================
