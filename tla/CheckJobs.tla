----------------------------- MODULE CheckJobs -----------------------------
\* The check jobs of one repository: the policy and the consent that authorise
\* them, the runner credentials, the queue (internal/state/check_jobs.go), the
\* coordinator that claims and executes local jobs (internal/checkrun), and
\* external runners that do the same over the runner protocol.
\*
\* Each store method is one transaction and one action.  A worker keeps what a
\* claim gave it and acts on it later, whatever happened to the job meanwhile:
\* its lease may have run out, its authority may have been withdrawn, the
\* server may have been restarted or restored on another computer, and its
\* calls may be lost and repeated.
EXTENDS CheckJob, FiniteSets

CONSTANTS
    Digests,     \* contents of a check policy
    External,    \* the contents whose executor is the external runner
    Runners,     \* external runners, each issued one credential
    Events,      \* pushes and pull request revisions that ask for a job
    Workflows,   \* the events whose job belongs to a workflow run
    Outcomes,    \* results of an execution
    Failures,    \* how a claim ends whose execution cannot be started
    Endings,     \* how settling ends a waiting job that it does not release
    MaxJobs,     \* bound on the jobs admitted
    MaxVersion,  \* bound on policy versions and on consents
    MaxEpoch,    \* bound on restores
    QueueLimit, MaxActiveJobs

ASSUME ConstantsAssumption ==
    /\ MaxJobs \in Nat /\ MaxVersion \in Nat /\ MaxEpoch \in Nat
    /\ QueueLimit \in Nat /\ MaxActiveJobs \in Nat
    /\ {"coordinator", "none"} \cap Runners = {} /\ "none" \notin Digests
    /\ Outcomes \subseteq Results
    /\ Failures \subseteq {"unavailable", "error", "interrupted"} /\ Endings \subseteq {"skipped", "error"}

VARIABLES
    policy,   \* the check policy with its consent and its authority epoch
    agreed,   \* history: each consent with the policy version it was given to
    live,     \* the credential of each runner
    jobs,     \* the jobs, in the order of admission
    worker,   \* what the coordinator and each runner hold of a claim
    ran       \* history: how often a job's commands were executed

vars == <<policy, agreed, live, jobs, worker, ran>>
authority == <<policy, agreed, live>>

Rows == 1..MaxJobs
Workers == {"coordinator"} \cup Runners
NoOrigin == [event |-> "none", version |-> 0, consent |-> 0, root |-> 0, generation |-> 0]
NoClaim == [job |-> 0, lease |-> NoLease, credential |-> Unclaimed]
Idle == [phase |-> "idle", claim |-> NoClaim]

Init ==
    /\ policy = [version |-> 0, digest |-> "none", consent |-> 0, active |-> FALSE, epoch |-> 0]
    /\ agreed = {}
    /\ live = [r \in Runners |-> "none"]
    /\ jobs = [i \in Rows |-> Admitted("absent", NoOrigin)]
    /\ worker = [w \in Workers |-> Idle]
    /\ ran = [i \in Rows |-> 0]

\* checkJobAuthorityCurrent: consent is active, and the policy and the consent
\* are those the job was admitted under.
AuthorityCurrent(job, p) ==
    p.active /\ job.origin.version = p.version /\ job.origin.consent = p.consent

\* checkJobCredentialCurrentTx: the server's own credential is the authority
\* epoch (its generation is the job's policy version, as Claim wrote it), a
\* runner's must not be revoked.
CredentialCurrent(credential) ==
    IF credential.role = "server" THEN credential.epoch = policy.epoch
    ELSE live[credential.runner] = "live"

MutantIsStale(job, p) == job.status \in Queued /\ ~AuthorityCurrent(job, p)    \* spares claims
\* interruptStalePendingCheckJobsTx, under the policy the transaction leaves.
IsStale(job, p) == job.status \in Queued \cup {"claimed"} /\ ~AuthorityCurrent(job, p)
WithoutStale(p) == [i \in Rows |-> IF IsStale(jobs[i], p) THEN Interrupted(jobs[i]) ELSE jobs[i]]
-----------------------------------------------------------------------------
(* Authority *)

\* writeCheckPolicy: new contents are a new version without consent.
Written(digest) ==
    [policy EXCEPT !.version = @ + 1, !.digest = digest, !.active = FALSE,
                   !.epoch = IF @ = 0 THEN 1 ELSE @]
WritePolicy(digest) ==
    /\ digest # policy.digest /\ policy.version < MaxVersion
    /\ policy' = Written(digest)
    /\ jobs' = WithoutStale(policy')
    /\ UNCHANGED <<agreed, live, worker, ran>>

NoExpectation == 0
MutantIsExpected(expected) == TRUE        \* consents to whatever is stored
\* A request may name the policy its sender read; one that names none is not
\* compared with anything.
IsExpected(expected) == expected \in {NoExpectation, policy.version}
Consented(p) == [p EXCEPT !.consent = @ + 1, !.active = TRUE]
Agree(version) == agreed' = agreed \cup {[consent |-> policy.consent + 1, version |-> version]}

\* GrantCheckConsentFor of the policy read, and GrantCheckConsent (the API's
\* "enable"), whose consent is to what is stored; active consent stays as it is.
GrantConsent(expected) ==
    /\ policy.version > 0 /\ ~policy.active /\ policy.consent < MaxVersion
    /\ IsExpected(expected)
    /\ policy' = Consented(policy)
    /\ Agree(IF expected = NoExpectation THEN policy.version ELSE expected)
    /\ UNCHANGED <<live, jobs, worker, ran>>

\* SaveCheckPolicyAndGrantConsent: the contents sent become the policy, which has
\* them already or is written, and the consent is to what is then stored.
SaveAndEnable(base, digest) ==
    /\ IsExpected(base) /\ policy.consent < MaxVersion
    /\ \/ /\ digest # policy.digest /\ policy.version < MaxVersion
          /\ policy' = Consented(Written(digest)) /\ jobs' = WithoutStale(Written(digest))
       \/ /\ policy.version > 0 /\ digest = policy.digest /\ ~policy.active
          /\ policy' = Consented(policy) /\ UNCHANGED jobs
    /\ Agree(policy'.version)
    /\ UNCHANGED <<live, worker, ran>>

RevokeConsent ==
    /\ policy.active
    /\ policy' = [policy EXCEPT !.active = FALSE]
    /\ jobs' = WithoutStale(policy')
    /\ UNCHANGED <<agreed, live, worker, ran>>

IssueRunner(r) ==
    /\ policy.version > 0 /\ live[r] = "none"
    /\ live' = [live EXCEPT ![r] = "live"]
    /\ UNCHANGED <<policy, agreed, jobs, worker, ran>>

WithoutClaimsOf(r) ==
    [i \in Rows |-> IF jobs[i].status = "claimed" /\ jobs[i].credential.runner = r
                    THEN Interrupted(jobs[i]) ELSE jobs[i]]
\* RevokeCheckRunnerToken: what the runner claimed and did not start ends.
RevokeRunner(r) ==
    /\ live[r] = "live"
    /\ live' = [live EXCEPT ![r] = "revoked"]
    /\ jobs' = WithoutClaimsOf(r)
    /\ UNCHANGED <<policy, agreed, worker, ran>>
-----------------------------------------------------------------------------
(* The queue *)

FreeRow(i) == jobs[i].status = "absent" /\ \A k \in 1..(i - 1) : jobs[k].status # "absent"
OriginFor(event, root, generation) ==
    [event |-> event, version |-> policy.version, consent |-> policy.consent,
     root |-> root, generation |-> generation]

\* The dedup digest covers the event and every condition of its execution.
IsKnown(origin) == \E i \in Rows : jobs[i].origin = origin

QueueHasRoom == Cardinality({i \in Rows : jobs[i].status \in Unfinished}) < QueueLimit

\* settleActionsRunTx, for one waiting job of current authority: it waits on, is
\* released, is skipped, or ends in an error of its plan.  What it waits for is
\* in WorkflowRuns.
Settlements(job) ==
    {job, [job EXCEPT !.status = "pending"]} \cup {EndedUnstarted(job, status) : status \in Endings}

\* A workflow job is admitted waiting, and the transaction that admits it settles it.
AdmittedJobs(origin) ==
    IF origin.event \in Workflows THEN Settlements(Admitted("waiting", origin))
    ELSE {Admitted("pending", origin)}

\* admitCheckJobTx.
Insert(i, origin) ==
    /\ policy.version > 0 /\ policy.active
    /\ ~IsKnown(origin) /\ QueueHasRoom
    /\ FreeRow(i)
    /\ \E new \in AdmittedJobs(origin) : jobs' = [jobs EXCEPT ![i] = new]
    /\ UNCHANGED <<policy, agreed, live, worker, ran>>

Admit(i, event) == Insert(i, OriginFor(event, 0, 0))

RootOf(i) == IF jobs[i].origin.root = 0 THEN i ELSE jobs[i].origin.root
Family(root) == {k \in Rows : k = root \/ jobs[k].origin.root = root}
OutstandingRerun(root) ==
    \E k \in Rows : jobs[k].origin.root = root /\ jobs[k].status \in {"pending"} \cup Active
\* The number after the highest one of the family.
IsNextGeneration(root, g) ==
    /\ \A k \in Family(root) : jobs[k].origin.generation < g
    /\ \E k \in Family(root) : jobs[k].origin.generation + 1 = g
\* RerunCheckJob: a new job of the same event; one rerun at a time.
Rerun(i, k) ==
    /\ IsTerminal(jobs[i]) /\ jobs[i].origin.event \notin Workflows
    /\ ~OutstandingRerun(RootOf(i))
    /\ \E g \in 1..MaxJobs :
         IsNextGeneration(RootOf(i), g) /\ Insert(k, OriginFor(jobs[i].origin.event, RootOf(i), g))

\* A later transaction of its run settles a waiting job.  Its authority is
\* current, as UnstartedWorkIsAuthorised says, so it is not interrupted.
SettleWaiting(i) ==
    /\ jobs[i].status = "waiting"
    /\ \E new \in Settlements(jobs[i]) \ {jobs[i]} : jobs' = [jobs EXCEPT ![i] = new]
    /\ UNCHANGED <<policy, agreed, live, worker, ran>>

CancelCheckJob(i) ==
    /\ jobs[i].status # "absent"
    /\ jobs' = [jobs EXCEPT ![i] = Cancelled(@)]
    /\ UNCHANGED <<policy, agreed, live, worker, ran>>
-----------------------------------------------------------------------------
(* Leases *)

\* Time passes a deadline.
LeaseRunsOut(i) ==
    /\ jobs[i].status \in Active /\ ~jobs[i].late
    /\ jobs' = [jobs EXCEPT ![i].late = TRUE]
    /\ UNCHANGED <<policy, agreed, live, worker, ran>>

\* ExpireCheckJobLeases, at the start of each reconciliation pass.
MutantIsExpired(i) == jobs[i].status = "claimed" /\ jobs[i].late       \* forgets executions
IsExpired(i) == jobs[i].status \in Active /\ jobs[i].late
ExpireLeases ==
    /\ \E i \in Rows : IsExpired(i)
    /\ jobs' = [i \in Rows |-> IF IsExpired(i) THEN LeaseLost(jobs[i], "deadline") ELSE jobs[i]]
    /\ UNCHANGED <<policy, agreed, live, worker, ran>>
-----------------------------------------------------------------------------
(* Workers *)

Held(w) == jobs[worker[w].claim.job]
\* The lease, the credential and its generation are those of the claim.
Owns(w) ==
    /\ worker[w].claim.job # 0
    /\ Held(w).lease = worker[w].claim.lease /\ Held(w).credential = worker[w].claim.credential
SetHeld(w, job) == jobs' = [jobs EXCEPT ![worker[w].claim.job] = job]
Abandon(w) == worker' = [worker EXCEPT ![w] = Idle]

OldestPending(i) == jobs[i].status = "pending" /\ \A k \in 1..(i - 1) : jobs[k].status # "pending"
MayClaim(w) ==
    IF w = "coordinator" THEN policy.digest \notin External ELSE policy.digest \in External /\ live[w] = "live"
CredentialOf(w) ==
    IF w = "coordinator" THEN
        [role |-> "server", runner |-> "none", epoch |-> policy.epoch, generation |-> policy.version]
    ELSE [role |-> "external_runner", runner |-> w, epoch |-> 0, generation |-> 1]
ActiveHasRoom == Cardinality({i \in Rows : jobs[i].status \in Active}) < MaxActiveJobs

\* claimCheckJob: a job is leased at most once, so its lease is its first.
Claim(w, i) ==
    /\ worker[w].phase = "idle"
    /\ policy.version > 0 /\ policy.active /\ MayClaim(w)
    /\ ActiveHasRoom /\ OldestPending(i) /\ ~IsStale(jobs[i], policy)
    /\ jobs' = [WithoutStale(policy) EXCEPT ![i] = Claimed(@, CredentialOf(w), jobs[i].lease + 1)]
    /\ worker' = [worker EXCEPT ![w] =
            [phase |-> "claimed",
             claim |-> [job |-> i, lease |-> jobs[i].lease + 1, credential |-> CredentialOf(w)]]]
    /\ UNCHANGED <<policy, agreed, live, ran>>

Starts(w) == worker[w].phase = "claimed" /\ Owns(w) /\ Held(w).status = "claimed"
MayStart(w) == AuthorityCurrent(Held(w), policy) /\ CredentialCurrent(Held(w).credential)

\* StartCheckJob grants the execution once, together with its attempt.  A claim
\* whose authority has changed would be interrupted instead; there is none, as
\* UnstartedWorkIsAuthorised says.
Start(w) ==
    /\ Starts(w) /\ ~Held(w).late /\ MayStart(w)
    /\ SetHeld(w, Started(Held(w)))
    /\ worker' = [worker EXCEPT ![w].phase = "executing"]
    /\ ran' = [ran EXCEPT ![worker[w].claim.job] = @ + 1]
    /\ UNCHANGED authority
\* The grant is recorded and its answer is lost, or the commit's is.
StartAnswerIsLost(w) ==
    /\ Starts(w) /\ ~Held(w).late /\ MayStart(w)
    /\ SetHeld(w, Started(Held(w)))
    /\ UNCHANGED <<authority, worker, ran>>
StartFindsLeaseLost(w) ==
    /\ Starts(w) /\ Held(w).late
    /\ SetHeld(w, LeaseLost(Held(w), "deadline"))
    /\ Abandon(w) /\ UNCHANGED <<authority, ran>>
\* A repeated start is refused, as is one of a job that is no longer claimed.
StartIsRefused(w) ==
    /\ worker[w].phase = "claimed" /\ ~Starts(w)
    /\ Abandon(w) /\ UNCHANGED <<authority, jobs, ran>>

\* FailCheckJobBeforeStart: preflight failed, or the coordinator is stopping.
\* The deadline is not read.
FailBeforeStart(w, status) ==
    /\ Starts(w) /\ CredentialCurrent(Held(w).credential)
    /\ SetHeld(w, EndedUnstarted(Held(w), status))
    /\ Abandon(w) /\ UNCHANGED <<authority, ran>>

MutantRenewLate(w) ==                              \* renews a lease that was lost
    /\ worker[w].phase \in {"claimed", "executing"} /\ Owns(w) /\ Held(w).status = "ambiguous"
    /\ SetHeld(w, [Held(w) EXCEPT !.status = IF Held(w).started THEN "started" ELSE "claimed"])
    /\ UNCHANGED <<authority, worker, ran>>
\* RenewCheckJobLease after the deadline; a renewal in time moves the deadline,
\* which then does not pass.
RenewLate(w) ==
    /\ worker[w].phase \in {"claimed", "executing"} /\ Owns(w) /\ IsExpired(worker[w].claim.job)
    /\ SetHeld(w, LeaseLost(Held(w), "deadline"))
    /\ UNCHANGED <<authority, worker, ran>>

\* authorizeCheckJobCompletionTx: a result that comes after the lease is lost
\* still ends the job, unless the credential is gone.
MayComplete(w) ==
    /\ Owns(w) /\ Held(w).attempt = "pending"
    /\ Held(w).status \in {"started", "ambiguous"} /\ CredentialCurrent(Held(w).credential)

\* The commands end, with a result of their own or by cancellation, and the
\* result is reported.  Only a workflow job may have run no step.
CanReport(w, result) == result = "skipped" => Held(w).origin.event \in Workflows
Complete(w, result) ==
    /\ worker[w].phase = "executing" /\ CanReport(w, result) /\ MayComplete(w)
    /\ SetHeld(w, Completed(Held(w), result))
    /\ Abandon(w) /\ UNCHANGED <<authority, ran>>
CompleteAnswerIsLost(w, result) ==
    /\ worker[w].phase = "executing" /\ CanReport(w, result) /\ MayComplete(w)
    /\ SetHeld(w, Completed(Held(w), result))
    /\ UNCHANGED <<authority, worker, ran>>
\* A retransmission finds its own result; anything else is refused.
CompleteChangesNothing(w) ==
    /\ worker[w].phase = "executing" /\ ~MayComplete(w)
    /\ Abandon(w) /\ UNCHANGED <<authority, jobs, ran>>

\* A runner stops, or an answer to its claim is lost.
RunnerStops(w) ==
    /\ w # "coordinator" /\ worker[w].phase # "idle"
    /\ Abandon(w) /\ UNCHANGED <<authority, jobs, ran>>
-----------------------------------------------------------------------------
(* The server *)

AfterRestart(job) ==
    IF job.status = "claimed" THEN Interrupted(job)
    ELSE IF job.status = "started" THEN LeaseLost(job, "restart") ELSE job
\* The server stops, however it stops, and starts: the coordinator's execution
\* is gone, and ReconcileCheckJobRestart closes what was active.
Restart ==
    /\ jobs' = [i \in Rows |-> AfterRestart(jobs[i])]
    /\ worker' = [worker EXCEPT !["coordinator"] = Idle]
    /\ jobs' # jobs \/ worker' # worker
    /\ UNCHANGED <<authority, ran>>

\* A backup is restored on another computer: consent, credentials and leases do
\* not come along.  Runners keep what they hold and find the new server.
Restore ==
    /\ policy.version > 0 /\ policy.epoch <= MaxEpoch
    /\ \A i \in Rows : jobs[i].status # "absent" => Restorable(jobs[i])
    /\ policy' = [policy EXCEPT !.active = FALSE, !.epoch = @ + 1]
    /\ live' = [r \in Runners |-> "revoked"]
    /\ jobs' = [i \in Rows |-> Restored(jobs[i])]
    /\ worker' = [worker EXCEPT !["coordinator"] = Idle]
    /\ UNCHANGED <<agreed, ran>>
-----------------------------------------------------------------------------
WorkerStep(w) ==
    \/ \E i \in Rows : Claim(w, i)
    \/ Start(w) \/ StartAnswerIsLost(w) \/ StartFindsLeaseLost(w)
    \/ StartIsRefused(w)
    \/ \E status \in Failures : FailBeforeStart(w, status)
    \/ RenewLate(w)
    \/ \E result \in Outcomes : Complete(w, result) \/ CompleteAnswerIsLost(w, result)
    \/ CompleteChangesNothing(w)
    \/ RunnerStops(w)
Next ==
    \/ \E digest \in Digests : WritePolicy(digest)
    \/ \E expected \in 0..MaxVersion :
         GrantConsent(expected) \/ \E digest \in Digests : SaveAndEnable(expected, digest)
    \/ RevokeConsent
    \/ \E r \in Runners : IssueRunner(r) \/ RevokeRunner(r)
    \/ \E i \in Rows : \/ \E event \in Events : Admit(i, event)
                       \/ \E k \in Rows : Rerun(k, i)
                       \/ SettleWaiting(i) \/ CancelCheckJob(i) \/ LeaseRunsOut(i)
    \/ ExpireLeases
    \/ \E w \in Workers : WorkerStep(w)
    \/ Restart \/ Restore

Spec == Init /\ [][Next]_vars

\* The coordinator's loop claims when it is idle and expires leases; a worker
\* takes the next step of its claim (commands have a timeout), or it is a runner
\* that stops; the deadline of a lease nobody renews passes.
Serve(w) ==
    \/ Start(w) \/ StartFindsLeaseLost(w) \/ StartIsRefused(w)
    \/ \E result \in Outcomes : Complete(w, result)
    \/ CompleteChangesNothing(w)
AbandonedLeaseRunsOut(i) == LeaseRunsOut(i) /\ ~\E w \in Workers : worker[w].claim.job = i
FairSpec ==
    /\ Spec
    /\ WF_vars(\E i \in Rows : Claim("coordinator", i))
    /\ \A w \in Workers : WF_vars(Serve(w) \/ RunnerStops(w))
    /\ WF_vars(ExpireLeases)
    /\ \A i \in Rows : WF_vars(AbandonedLeaseRunsOut(i))
-----------------------------------------------------------------------------
(* Properties *)

Origins == [event : Events \cup {"none"}, version : 0..MaxVersion, consent : 0..MaxVersion,
            root : 0..MaxJobs, generation : 0..MaxJobs]
Credentials ==
    {Unclaimed}
    \cup [role : {"server"}, runner : {"none"}, epoch : 1..(MaxEpoch + 1), generation : 0..MaxVersion]
    \cup [role : {"external_runner"}, runner : Runners, epoch : {0}, generation : {1}]
JobRecords ==
    [status : Statuses, origin : Origins, credential : Credentials, lease : {NoLease, 1}, late : BOOLEAN,
     lost : LeaseLosses, started : BOOLEAN, attempt : Attempts, finished : BOOLEAN,
     cancel : BOOLEAN, interrupted : BOOLEAN]
Claims == [job : 0..MaxJobs, lease : {NoLease, 1}, credential : Credentials]
WorkerRecords == [phase : {"idle", "claimed", "executing"}, claim : Claims]

TypeOK ==
    /\ policy \in [version : 0..MaxVersion, digest : Digests \cup {"none"}, consent : 0..MaxVersion,
                   active : BOOLEAN, epoch : 0..(MaxEpoch + 1)]
    /\ agreed \subseteq [consent : 1..MaxVersion, version : 1..MaxVersion]
    /\ live \in [Runners -> {"none", "live", "revoked"}]
    /\ jobs \in [Rows -> JobRecords]
    /\ worker \in [Workers -> WorkerRecords]
    /\ ran \in [Rows -> Nat]

\* The commands of a job are executed at most once, and only after its start is
\* recorded, whatever is lost, repeated, restarted or restored.
ExecutedOnce == \A i \in Rows : ran[i] <= 1 /\ (ran[i] = 1 => jobs[i].started)

\* Work that did not start can still be started, or is withdrawn: a queued or
\* claimed job has current authority ("stale check job remained claimable" is
\* never answered), and a claim belongs to a credential that is still good, so
\* revoking a runner leaves nothing that only it could start.
UnstartedWorkIsAuthorised ==
    \A i \in Rows :
        /\ jobs[i].status \in Queued \cup {"claimed"} => AuthorityCurrent(jobs[i], policy)
        /\ jobs[i].status = "claimed" => CredentialCurrent(jobs[i].credential)

\* What is executed was consented to, in the very consent the job was admitted
\* under: a consent that names a policy version authorises work of that version
\* only, whatever was written after the administrator read it.  A consent that
\* names none (the API's "enable") is to the version stored when it is recorded,
\* which nobody may have read: for that one the promise is only that work of a
\* later or an earlier version does not run under it.
ExecutedWorkWasAgreedTo ==
    \A i \in Rows : ran[i] > 0 =>
        [consent |-> jobs[i].origin.consent, version |-> jobs[i].origin.version] \in agreed

\* Every job passes the checks that a backup applies to it.
JobsAreRestorable == \A i \in Rows : jobs[i].status # "absent" => Restorable(jobs[i])

\* The only jobs a backup refuses, together with everything else it holds, are
\* workflow jobs, of two kinds: one that ran no step and reports it after its
\* lease was lost or its cancellation was asked for, and one that settling ended
\* in an error, as it was never claimed.
SkippedTooLate(job) == job.status = "skipped" /\ (IsLost(job) \/ job.cancel)
FailedUnclaimed(job) == job.status = "error" /\ ~HasClaim(job)
RefusedByBackups(job) ==
    job.origin.event \in Workflows /\ (SkippedTooLate(job) \/ FailedUnclaimed(job))
OnlyTwoKindsAreRefused ==
    \A i \in Rows : jobs[i].status # "absent" => Restorable(jobs[i]) \/ RefusedByBackups(jobs[i])

\* A pending or active job does not stay so: it ends, unless it waits for a
\* runner that the policy asks for and that nobody has to run.  (Waiting jobs
\* end with their run: WorkflowRuns.)
AwaitsRunner(i) == jobs[i].status = "pending" /\ policy.digest \in External
JobsAreSettled ==
    \A i \in Rows : jobs[i].status \in {"pending"} \cup Active ~> jobs[i].status \notin Unfinished \/ AwaitsRunner(i)

Grants == INSTANCE ExecutionGrant WITH
    Jobs <- Rows,
    granted <- [i \in Rows |-> jobs[i].started],
    verdict <- [i \in Rows |->
        IF jobs[i].status \in {"absent"} \cup Unfinished THEN "open"
        ELSE IF jobs[i].status = "ambiguous" THEN "uncertain" ELSE jobs[i].status]

\* The jobs implement what a job promises about its execution.
ImplementsExecutionGrant == Grants!GrantSpec
=============================================================================
