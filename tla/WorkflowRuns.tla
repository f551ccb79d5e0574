---------------------------- MODULE WorkflowRuns ----------------------------
\* The workflow runs of one repository (internal/state/actions_*.go): a run is
\* admitted whole, its jobs wait for the jobs they need, and concurrency groups
\* decide which run or job goes on, which waits and which is cancelled.
\*
\* Every store method is one transaction: it changes some jobs and then settles
\* all runs, so Settled(s) is part of each action.  The workers that claim and
\* execute jobs are those of CheckJobs; here a claimed job is started, ended or
\* lost by a step of its own.  Rows are numbered in the order of admission.
EXTENDS CheckJob, Sequences, FiniteSets

CONSTANTS
    Plans,        \* the workflow files, each as one event finds it
    MaxRuns,      \* bound on the runs admitted
    MaxJobs,      \* how many jobs a run may have (16 in the code)
    MaxFaults,    \* bound on cancellations, lost leases, failed starts, restarts and revocations
    QueueLimit, MaxActiveJobs,
    PendingLimit, \* how many may wait in a group with queue: max (100 in the code)
    Outcomes, Failures

Runs == 1..MaxRuns
Slots == 1..MaxJobs
Ids == Runs \X Slots
NoGroup == "none"
Conditions == {"success", "always", "failure", "cancelled"}
Queues == {"single", "max"}
JobPlans ==
    [key : STRING, needs : SUBSET STRING, if : Conditions, failFast : BOOLEAN, maxParallel : Nat,
     tolerated : BOOLEAN, broken : BOOLEAN, group : STRING, cancelInProgress : BOOLEAN, queue : Queues]
Files ==
    [group : STRING, cancelInProgress : BOOLEAN, queue : Queues, refused : SUBSET STRING, jobs : Seq(JobPlans)]

\* The jobs of one matrix are planned by one definition, and share its strategy.
ASSUME ConstantsAssumption ==
    /\ MaxRuns \in Nat /\ MaxJobs \in Nat /\ MaxFaults \in Nat
    /\ QueueLimit \in Nat /\ MaxActiveJobs \in Nat /\ PendingLimit \in Nat
    /\ Outcomes \subseteq Results /\ Failures \subseteq {"unavailable", "error", "interrupted"}
    /\ Plans \in Seq(Files)
    /\ \A p \in DOMAIN Plans :
         /\ Len(Plans[p].jobs) \in Slots
         /\ \A i, k \in DOMAIN Plans[p].jobs :
              Plans[p].jobs[i].key = Plans[p].jobs[k].key =>
                  Plans[p].jobs[i].maxParallel = Plans[p].jobs[k].maxParallel

VARIABLES
    runs,       \* the runs: the plan each was admitted with, and its facts
    jobs,       \* the jobs of each run, in the order of the plan
    consented,  \* an administrator's consent is current
    faults      \* how many of the bounded events have happened

vars == <<runs, jobs, consented, faults>>

NoRun == [plan |-> 0, outcome |-> "absent", root |-> 0, generation |-> 0, cancel |-> FALSE]

Worker == [role |-> "server", runner |-> "none", epoch |-> 1, generation |-> 1]
\* The rows as a transaction reads and leaves them.
RunRecords ==
    [plan : {0} \cup DOMAIN Plans, outcome : {"absent", "admitted", "refused", "not_run"},
     root : 0..MaxRuns, generation : 0..MaxRuns, cancel : BOOLEAN]
JobRecords ==
    [status : Statuses, origin : {"workflow"}, credential : {Unclaimed, Worker}, lease : 0..1,
     late : {FALSE}, lost : LeaseLosses, started : BOOLEAN, attempt : Attempts,
     finished : BOOLEAN, cancel : BOOLEAN, interrupted : BOOLEAN]
Store == [runs : [Runs -> RunRecords], jobs : [Ids -> JobRecords]]

Init ==
    /\ runs = [r \in Runs |-> NoRun]
    /\ jobs = [j \in Ids |-> Admitted("absent", "workflow")]
    /\ consented = TRUE /\ faults = 0

Now == [runs |-> runs, jobs |-> jobs]
Becomes(s) == runs' = s.runs /\ jobs' = s.jobs
Fault == faults < MaxFaults /\ faults' = faults + 1
-----------------------------------------------------------------------------
(* What the rows say *)

Planned(s, j) == Plans[s.runs[j[1]].plan].jobs[j[2]]
Rows(s) == {j \in Ids : s.jobs[j].status # "absent"}
RowsOf(s, r) == {j \in Rows(s) : j[1] = r}
Before(k, j) == k[1] < j[1] \/ (k[1] = j[1] /\ k[2] < j[2])
InStatus(s, statuses) == {j \in Rows(s) : s.jobs[j].status \in statuses}

GroupOf(s, r) == IF s.runs[r].outcome = "admitted" THEN Plans[s.runs[r].plan].group ELSE NoGroup
MutantIsUnfinished(s, r) == \E j \in RowsOf(s, r) : ~IsHistory(s.jobs[j])   \* an ambiguous job holds on
IsUnfinished(s, r) == \E j \in RowsOf(s, r) : s.jobs[j].status \in Unfinished
IsHeld(s, r) == \E j \in RowsOf(s, r) : HasClaim(s.jobs[j])
\* The unfinished runs of a group other than r.
RunsIn(s, group, r) == {q \in Runs \ {r} : GroupOf(s, q) = group /\ IsUnfinished(s, q)}
\* The released jobs of a group: a waiting job has no group yet.
JobsIn(s, group) == {j \in InStatus(s, {"pending"} \cup Active) : Planned(s, j).group = group}

Matrix(s, j) == {k \in RowsOf(s, j[1]) : Planned(s, k).key = Planned(s, j).key}
NeededBy(s, j) == {k \in RowsOf(s, j[1]) : Planned(s, k).key \in Planned(s, j).needs}
\* What j needs, what that needs, and so on: the least set closed under needs.
AncestorsOf(s, j) ==
    LET closed == {A \in SUBSET RowsOf(s, j[1]) :
                      NeededBy(s, j) \subseteq A /\ \A k \in A : NeededBy(s, k) \subseteq A}
    IN  {k \in RowsOf(s, j[1]) : \A A \in closed : k \in A}
-----------------------------------------------------------------------------
(* The guards of a claim *)

RunClaimGuard(s, j) == ~s.runs[j[1]].cancel

MutantWorkflowClaimGuard(s, j) ==                  \* forgets the single jobs of the group
    GroupOf(s, j[1]) # NoGroup =>
        \A q \in RunsIn(s, GroupOf(s, j[1]), j[1]) : ~IsHeld(s, q) /\ (IsHeld(s, j[1]) \/ j[1] < q)
\* A run goes on in its group when no other run holds it or came first.
WorkflowClaimGuard(s, j) ==
    LET r == j[1]  g == GroupOf(s, r) IN
    g # NoGroup =>
        /\ \A q \in RunsIn(s, g, r) : ~IsHeld(s, q) /\ (IsHeld(s, r) \/ r < q)
        /\ \A k \in JobsIn(s, g) : k[1] # r =>
             s.jobs[k].status = "pending" /\ (IsHeld(s, r) \/ ~Before(k, j))

OwnJobGroupHeld(s, j) ==
    \/ s.jobs[j].status \in Active
    \/ GroupOf(s, j[1]) = Planned(s, j).group /\ IsHeld(s, j[1])
JobClaimGuard(s, j) ==
    LET g == Planned(s, j).group IN
    g # NoGroup =>
        /\ \A k \in JobsIn(s, g) \ {j} :
             s.jobs[k].status = "pending" /\ (OwnJobGroupHeld(s, j) \/ ~Before(k, j))
        /\ \A q \in RunsIn(s, g, j[1]) : ~IsHeld(s, q) /\ (OwnJobGroupHeld(s, j) \/ j[1] < q)

ParallelClaimGuard(s, j) ==
    LET n == Planned(s, j).maxParallel IN
    n = 0 \/ n > Cardinality({k \in Matrix(s, j) \ {j} : s.jobs[k].status \in Active})

MayGoOn(s, j) ==
    RunClaimGuard(s, j) /\ WorkflowClaimGuard(s, j) /\ JobClaimGuard(s, j) /\ ParallelClaimGuard(s, j)
-----------------------------------------------------------------------------
(* Cancellation and concurrency groups *)

WithJobs(s, ids, Op(_)) ==
    IF ids = {} THEN s
    ELSE [s EXCEPT !.jobs = [j \in Ids |-> IF j \in ids THEN Op(@[j]) ELSE @[j]]]
WithCancelled(s, ids) == WithJobs(s, ids, Cancelled)

\* cancelActionsRunTx: a run that is over is left as it is.
WithCancelledRuns(s, rs) ==
    LET open == {r \in rs : \E j \in RowsOf(s, r) : ~IsHistory(s.jobs[j])}
        stopped == [r \in Runs |-> IF r \in open THEN [s.runs[r] EXCEPT !.cancel = TRUE] ELSE s.runs[r]]
    IN  WithCancelled([s EXCEPT !.runs = stopped], {j \in Rows(s) : j[1] \in open})

\* applyActionsConcurrencyTx, for run r as it is admitted (j is NoJob) or for
\* its job j as it is released: what waits in the group gives way, what holds it
\* is cancelled if the file says so.
NoJob == <<0, 0>>
InGroup(s, r, j, c) ==
    LET owners == RunsIn(s, c.group, r)
        others == {k \in JobsIn(s, c.group) \ {j} : k[1] \notin owners /\ (j = NoJob => k[1] # r)}
        waiting == {q \in owners : ~IsHeld(s, q)}
        queued == {k \in others : s.jobs[k].status = "pending"}
        replaced == IF c.queue = "max" THEN {} ELSE waiting
        overtaken == IF c.queue = "max" THEN {} ELSE queued
        stoppedRuns == IF c.cancelInProgress THEN owners \ waiting ELSE {}
        stoppedJobs == IF c.cancelInProgress THEN others \ queued ELSE {}
        made == WithCancelled(WithCancelledRuns(s, replaced \cup stoppedRuns), overtaken \cup stoppedJobs)
        full == c.queue = "max" /\ Cardinality(waiting) + Cardinality(queued) >= PendingLimit
    IN  IF c.group = NoGroup THEN s
        ELSE IF ~full THEN made
        ELSE IF j = NoJob THEN WithCancelledRuns(made, {r}) ELSE WithCancelled(made, {j})
-----------------------------------------------------------------------------
(* Settling a run *)

NeedsResult(s, k) ==
    CASE s.jobs[k].status = "passed" -> "success"
      [] s.jobs[k].status = "failed" /\ Planned(s, k).tolerated -> "success"
      [] s.jobs[k].status \in {"cancelled", "skipped"} -> s.jobs[k].status
      [] OTHER -> "failure"
FailFastFailure(s, k) ==
    /\ s.jobs[k].status \in {"failed", "error", "incomplete", "unavailable"}
    /\ NeedsResult(s, k) = "failure"

MutantIsUncertain(s, j) == FALSE
\* Whether a job this one depends on may have run or not is unknown.
IsUncertain(s, j) == \E k \in AncestorsOf(s, j) : s.jobs[k].status = "ambiguous"
IsReady(s, j) == \A k \in NeededBy(s, j) : s.jobs[k].status \notin Unfinished
RefusedNeeds(s, j) == Planned(s, j).needs \cap Plans[s.runs[j[1]].plan].refused
Holds(s, j) ==
    LET results == {NeedsResult(s, k) : k \in NeededBy(s, j)}
                   \cup (IF RefusedNeeds(s, j) = {} THEN {} ELSE {"failure"})
    IN  CASE Planned(s, j).if = "success" -> results \subseteq {"success"}
          [] Planned(s, j).if = "failure" ->
                "failure" \in results \/ \E k \in AncestorsOf(s, j) : NeedsResult(s, k) = "failure"
          [] Planned(s, j).if = "cancelled" -> "cancelled" \in results
          [] Planned(s, j).if = "always" -> TRUE

\* ResolveJob and what follows from it, for a job whose needs are over.
Resolved(s, j) ==
    IF IsUncertain(s, j) \/ ~Holds(s, j)
    THEN [s EXCEPT !.jobs[j] = EndedUnstarted(@, "skipped")]
    ELSE IF Planned(s, j).broken
    THEN [s EXCEPT !.jobs[j] = EndedUnstarted(@, "error")]
    ELSE InGroup([s EXCEPT !.jobs[j].status = "pending"], j[1], j, Planned(s, j))

FailFast(s, r) ==
    WithCancelled(s, {j \in RowsOf(s, r) :
        \E k \in Matrix(s, j) \ {j} : Planned(s, k).failFast /\ FailFastFailure(s, k)})

\* One turn of the loop in settleActionsRunTx: one job at a time, as each may
\* end what others need.
SettlingStep(s, r) ==
    LET t == FailFast(s, r)
        ready == {j \in RowsOf(t, r) : t.jobs[j].status = "waiting" /\ IsReady(t, j)}
    IN  IF s.runs[r].cancel THEN WithCancelled(s, RowsOf(s, r))
        ELSE IF ready = {} THEN t
        ELSE Resolved(t, CHOOSE j \in ready : \A k \in ready : j[2] <= k[2])

\* Both loops of settling end when a turn has changed nothing.
UntilUnchanged(Step(_), s) ==
    LET rest[t \in Store] == LET u == Step(t) IN IF u = t THEN t ELSE rest[u]
    IN  rest[s]

SettledRun(s, r) == UntilUnchanged(LAMBDA t : SettlingStep(t, r), s)
SettledUpTo(s) ==
    LET upTo[r \in 0..MaxRuns] == IF r = 0 THEN s ELSE SettledRun(upTo[r - 1], r)
    IN  upTo
SettledOnce(s) == SettledUpTo(s)[MaxRuns]
\* settleActionsRunsTx: again and again, as a run may cancel others.
Settled(s) == UntilUnchanged(SettledOnce, s)
-----------------------------------------------------------------------------
(* Runs *)

UnfinishedJobs(s) == Cardinality(InStatus(s, Unfinished))

MutantAdmission(s, p) ==                           \* admits the jobs that fit
    IF Len(Plans[p].jobs) > QueueLimit THEN "refused" ELSE "admitted"
Admission(s, p) ==
    CASE Len(Plans[p].jobs) > QueueLimit -> "refused"
      [] Len(Plans[p].jobs) <= QueueLimit /\ UnfinishedJobs(s) + Len(Plans[p].jobs) > QueueLimit -> "not_run"
      [] OTHER -> "admitted"
Inserted(s, r, p, root, generation) ==
    LET outcome == Admission(s, p) IN
    [runs |-> [s.runs EXCEPT ![r] = [plan |-> p, outcome |-> outcome, root |-> root,
                                     generation |-> generation, cancel |-> FALSE]],
     jobs |-> [j \in Ids |-> IF outcome = "admitted" /\ j[1] = r /\ j[2] \in DOMAIN Plans[p].jobs
                             THEN Admitted("waiting", "workflow") ELSE s.jobs[j]]]
\* admitActionsRunTx: the group is cleared before the queue is counted, and
\* again when the run is there, if its own place may be the one too many.
AdmitRun(p, root, generation) ==
    \E r \in Runs :
        LET cleared == IF Len(Plans[p].jobs) > QueueLimit THEN Now ELSE InGroup(Now, r, NoJob, Plans[p])
            inserted == Inserted(cleared, r, p, root, generation)
            placed == IF inserted.runs[r].outcome = "admitted" /\ Plans[p].queue = "max"
                      THEN InGroup(inserted, r, NoJob, Plans[p]) ELSE inserted
        IN  /\ consented /\ runs[r] = NoRun /\ \A q \in 1..(r - 1) : runs[q] # NoRun
            /\ Becomes(Settled(placed))
            /\ UNCHANGED <<consented, faults>>

Admit(p) == (\A r \in Runs : runs[r].plan # p) /\ AdmitRun(p, 0, 0)

RootOf(r) == IF runs[r].root = 0 THEN r ELSE runs[r].root
RerunsOf(root) == {q \in Runs : runs[q].root = root}
\* RerunActionsRun: an unfinished rerun is answered instead of a second one.
Rerun(r) ==
    /\ runs[r] # NoRun
    /\ \A q \in RerunsOf(RootOf(r)) : ~IsUnfinished(Now, q)
    /\ AdmitRun(runs[r].plan, RootOf(r), Cardinality(RerunsOf(RootOf(r))) + 1)

MutantCancelRun(r) ==                               \* leaves the jobs to a later pass
    /\ runs[r] # NoRun /\ Fault
    /\ runs' = [runs EXCEPT ![r].cancel = TRUE]
    /\ UNCHANGED <<jobs, consented>>
CancelRun(r) ==
    /\ runs[r] # NoRun /\ Fault
    /\ Becomes(Settled(WithCancelledRuns(Now, {r})))
    /\ UNCHANGED consented
-----------------------------------------------------------------------------
(* Jobs *)

CancelJob(j) ==
    /\ j \in Rows(Now) /\ Fault
    /\ Becomes(Settled(WithCancelled(Now, {j})))
    /\ UNCHANGED consented

IsClaimable(j) == jobs[j].status = "pending" /\ MayGoOn(Now, j)
\* oldestPendingCheckJobTx orders by the time of admission, which the jobs of a
\* run share, and then by a random id.
Claim(j) ==
    /\ consented /\ j \in Rows(Now) /\ IsClaimable(j)
    /\ Cardinality(InStatus(Now, Active)) < MaxActiveJobs
    /\ \A k \in Rows(Now) : IsClaimable(k) => j[1] <= k[1]
    /\ jobs' = [jobs EXCEPT ![j] = Claimed(@, Worker, 1)]
    /\ UNCHANGED <<runs, consented, faults>>

Start(j) ==
    /\ jobs[j].status = "claimed" /\ MayGoOn(Now, j)
    /\ jobs' = [jobs EXCEPT ![j] = Started(@)]
    /\ UNCHANGED <<runs, consented, faults>>

\* A transaction that changes one job settles its run.
Update(j, job) == Becomes(Settled([Now EXCEPT !.jobs[j] = job])) /\ UNCHANGED consented

FailBeforeStart(j, status) ==
    /\ jobs[j].status = "claimed" /\ Fault
    /\ Update(j, EndedUnstarted(jobs[j], status))
\* A result ends a job whose lease was lost as well.
Complete(j, result) ==
    /\ jobs[j].status \in {"started", "ambiguous"} /\ jobs[j].attempt = "pending"
    /\ UNCHANGED faults
    /\ Update(j, Completed(jobs[j], result))

MutantExpireLeases(lost) ==                         \* leaves the runs to the next transaction
    /\ lost # {} /\ Fault
    /\ jobs' = WithJobs(Now, lost, LAMBDA job : LeaseLost(job, "deadline")).jobs
    /\ UNCHANGED <<runs, consented>>
\* ExpireCheckJobLeases, and a start or a renewal that comes too late.
ExpireLeases(lost) ==
    /\ lost # {} /\ Fault
    /\ Becomes(Settled(WithJobs(Now, lost, LAMBDA job : LeaseLost(job, "deadline"))))
    /\ UNCHANGED consented

AfterRestart(job) == IF job.status = "claimed" THEN Interrupted(job) ELSE LeaseLost(job, "restart")
Restart ==
    /\ InStatus(Now, Active) # {} /\ Fault
    /\ Becomes(Settled(WithJobs(Now, InStatus(Now, Active), AfterRestart)))
    /\ UNCHANGED consented

\* Revoked consent, or a changed policy: nothing that did not start may start.
WithdrawConsent ==
    /\ consented /\ consented' = FALSE /\ Fault
    /\ Becomes(Settled(WithJobs(Now, InStatus(Now, Queued \cup {"claimed"}), Interrupted)))
GrantConsent == ~consented /\ consented' = TRUE /\ UNCHANGED <<runs, jobs, faults>>
-----------------------------------------------------------------------------
JobStep(j) ==
    \/ CancelJob(j) \/ Claim(j) \/ Start(j)
    \/ \E status \in Failures : FailBeforeStart(j, status)
    \/ \E result \in Outcomes : Complete(j, result)
Next ==
    \/ \E p \in DOMAIN Plans : Admit(p)
    \/ \E r \in Runs : Rerun(r) \/ CancelRun(r)
    \/ \E j \in Ids : JobStep(j)
    \/ \E lost \in SUBSET InStatus(Now, Active) : ExpireLeases(lost)
    \/ Restart \/ WithdrawConsent \/ GrantConsent

Spec == Init /\ [][Next]_vars

\* The workers are not all idle while one can claim or start a job, and an
\* execution does not last forever: commands have a timeout, and a lease nobody
\* renews is lost (CheckJobs derives this from the steps of the workers).
ExecutionEnds(j) == []<>(jobs[j].status # "started")
FairSpec ==
    /\ Spec
    /\ WF_vars(\E j \in Ids : Claim(j) \/ Start(j))
    /\ \A j \in Ids : ExecutionEnds(j)
-----------------------------------------------------------------------------
(* Properties *)

TypeOK ==
    /\ Now \in Store /\ consented \in BOOLEAN /\ faults \in 0..MaxFaults
    /\ UnfinishedJobs(Now) <= QueueLimit
    /\ Cardinality(InStatus(Now, Active)) <= MaxActiveJobs

\* Two owners never execute in one concurrency group: an owner is a run with the
\* group, or a single job with it outside such a run.
GroupsAreExclusive ==
    \A j, k \in InStatus(Now, Active) :
        j[1] # k[1] =>
            LET groups(i) == {GroupOf(Now, i[1]), Planned(Now, i).group} \ {NoGroup}
            IN  groups(j) \cap groups(k) = {}

\* The guards a claim passed still hold when it is started, whatever was
\* admitted, released or cancelled meanwhile: StartCheckJob refuses no live claim
\* for them, which would keep the job until its lease runs out.
ClaimsMayStart == \A j \in InStatus(Now, {"claimed"}) : MayGoOn(Now, j)

\* A job is released after every job it needs has a certain end, and never while
\* it is in doubt whether one of them was executed.
ReleasedJobsHadTheirNeeds ==
    \A j \in Rows(Now) :
        jobs[j].status = "pending" \/ HasClaim(jobs[j]) =>
            \A k \in NeededBy(Now, j) : IsHistory(jobs[k])

\* No transaction leaves a run with a job that it should have released, skipped
\* or cancelled: ReconcileActionsJobs finds nothing to do.
RunsAreSettled == Settled(Now) = Now

\* Two runs each hold their group and each have a job in the other's.
HoldEachOther(q, r) ==
    LET waitsFor(a, b) == \E j \in JobsIn(Now, GroupOf(Now, b)) : j[1] = a /\ jobs[j].status = "pending"
    IN  /\ q # r /\ GroupOf(Now, q) # NoGroup /\ GroupOf(Now, r) # NoGroup
        /\ IsHeld(Now, q) /\ IsHeld(Now, r) /\ waitsFor(q, r) /\ waitsFor(r, q)
\* Every run ends, unless two runs wait for the groups of each other, which only
\* a cancellation resolves.
RunsEnd ==
    \A r \in Runs : IsUnfinished(Now, r) ~> ~IsUnfinished(Now, r) \/ \E p, q \in Runs : HoldEachOther(p, q)
=============================================================================
