# A TLA+ model of OwnGit

OwnGit is a self-hosted Git server written in Go: bare Git repositories in a
folder, an SQLite database beside them, a web interface, an API for coding
tools, Git over HTTP, checks, imports and backups. This directory holds TLA+
modules of the parts of it whose correctness depends on the order of steps:
several requests at once, two stores that no transaction spans, stops between
any two steps, and storage that is not always there. TLC checks the modules on
small instances; TLAPS proves the safety properties for every value of the
constants.

Contents: [the system](#the-system), [the modules](#the-modules),
[the runs](#the-runs), [fairness](#fairness), [the proofs](#the-proofs),
[what the runs found](#what-the-runs-found),
[what is not modelled](#what-is-not-modelled), [the plan](#the-plan).

## The system

All of the server runs in one process. What is shared between requests and
background work is the memory of that process, the SQLite database (`state`)
and the repository folder (`repository`). One operation lock keeps a second
server from opening the same state.

| Component | State it keeps | Operations | What is hard |
| --- | --- | --- | --- |
| Repository locks (`gitexec/locks.go`) | readers, writer, queue, generation and incarnation per repository name | lock, try, wait with a context, release with or without announcing a ref change | hand-over against cancellation, fairness, a generation that others read without the lock |
| Ref snapshots and polling (`repository/snapshot_cache.go`, `browse.go`) | one listing of refs per name | list now, list within a time, pinned reads, poll for changes, drop, evict | stale listings, listings in flight during a write, names used again after a deletion |
| Pull requests (`pullrequest`, `state/pull_requests.go`) | request, revisions, reviews and merge intents in SQLite; revision, tree, result and receipt refs in Git | create, edit, review, close, reopen, merge, recover | rows and refs change in separate steps; branches move underneath; retries and restarts must not merge twice |
| Deletion (`repository/delete.go`, `state/repository_deletions.go`) | recorded deletion in SQLite, marker file and moved directory in the folder | delete keeping or removing files, retry, finish at the start | a stop between any two steps, other storage mounted, the name taken again meanwhile |
| Storage claim and identity (`repository/storage_lock.go`, `storage_identity.go`) | claim file, claimed root, directory bound to each name | claim, verify, bind, release | storage that is unmounted or replaced under a running server |
| Preparation (`repository/preparation.go`) | one job per name that is not served yet | start, attempt, retry with back-off, cancel | a stale job and a later repository of the same name |
| Creation, rename, maintenance (`repository/manager.go`, `rename.go`, `maintenance.go`) | folders, rows, the nightly schedule | create, rename, consolidate | background work against requests and deletion |
| Git over HTTP (`githttp`) | transfer slots, deadlines, push quarantines | fetch, push | a push that fails half way, a reader that stalls |
| Checks (`checkrun`, `checkrunner`, `state/check_jobs.go`, `state/actions_*.go`) | policies, jobs, leases, attempts, workflow runs | observe, admit, claim, renew, complete, cancel, recover | leases that run out, late answers, a restart with jobs under way |
| Imports (`importsync`, `state/imports.go`) | connections, runs, staged objects | fetch, stage, verify, publish, cancel | publication against pushes, cancellation and a second run |
| Backups and recovery (`backups`, `recovery`) | archives, schedules | capture, upload, verify, restore | a consistent picture of two stores, records that a restore refuses |
| State store (`state/store.go`) | the schema, sessions, policies | transactions | migrations, private files |
| Program, service, tray, web interface (`cmd/owngit`, `service`, `tray`, `server`, `webui`) | settings, sessions | start, stop, serve | the order of the start |

How they interact: every writer and reader of a repository takes its lock;
releasing the write lock advances the generation, and the snapshot cache and
the check coordinator trust the generation instead of looking at the refs.
Pull request operations, pushes, imports, maintenance, creation and deletion
hold the write lock. Preparation holds it too and calls the recovery of pull
requests before the repository is served. Deletion removes all records in one
transaction, then the directory; it refuses to start while an import or a check
runs, and each of those begins in a transaction that requires the repository's
row.

What makes each component correct: the locks count their holders and lose no
wake-up; a listing called current is; a pull request has one outcome, the one
that Git published; nothing the server leaves behind when it stops makes it
refuse its own records; a deletion touches one directory and always comes to an
end; a name that is free has nothing left of whoever had it.

## The modules

| Module | Models | Lines of code it stands for |
| --- | --- | --- |
| `ReadWriteLock` | what users of a lock rely on: compatible holders, a generation that moves only under a writer | the promise of `locks.go` |
| `RepositoryLock` | the queueing lock | `gitexec/locks.go` |
| `SnapshotCache` | readers, pollers, writers, creations and deletions over that promise | `snapshot_cache.go`, parts of `browse.go`, `delete.go`, `manager.go`, `githttp/handler.go` |
| `PullRequestOutcome` | what a pull request promises about its outcome | the promise of `pullrequest/service.go` |
| `PullRequestMerge` | one pull request: merge, close, reopen, review, edit, recovery | `pullrequest/service.go`, `git.go`, `state/pull_requests.go` |
| `PullRequestCreation` | the pull requests of one branch pair: creation, numbers, times, recovery, edits by several people | the same files, `server/pull_requests_browser.go` |
| `RepositoryDeletion` | the life of one repository name on storage that comes and goes | `delete.go`, `repository_deletions.go`, `storage_lock.go`, `storage_identity.go` |
| `CheckJob` | the record of one check job and the updates every transaction applies to it | `state/check_jobs.go`, `check_jobs_recovery.go` |
| `ExecutionGrant` | what a job promises about the execution of its commands | the promise of `state/check_jobs.go` |
| `CheckJobs` | the jobs of one repository with policies, consents, runners, leases, restart and restore | `state/check_jobs.go`, `check_jobs_recovery.go`, `checks.go`, `checkrun`, `checkrunner` |
| `WorkflowRuns` | workflow runs: needs, conditions, concurrency groups, matrices, the queue | `state/actions_*.go`, `actions/outcome.go`, `actions/expression.go` |
| `ImportPublication` | a refresh from an import source against pushes, cancellation, crashes and recovery | `importsync/publish.go`, `run.go`, `service.go`, `state/imports.go` |

`MC...` modules and the `.cfg` files are their instances for TLC; `...Proofs`
modules hold their theorems. `RepositoryLock` implements `ReadWriteLock`
(`ImplementsReadWriteLock`), and `SnapshotCache` extends `ReadWriteLock`: the
cache is checked over the promise of the lock, not over its queue.
`PullRequestMerge` implements `PullRequestOutcome` (`ImplementsOutcome`), and
`CheckJobs` implements `ExecutionGrant` (`ImplementsExecutionGrant`).
`CheckJobs` and `WorkflowRuns` drive the same record, `CheckJob`, from the two
sides of the code that write it.

Throughout, one action is what the code does without letting another part of
the system see a state in between: a section under a mutex, one SQLite
transaction, one Git ref transaction, one rename. Between two actions anything
else may happen. Operators named `Mutant...` are plausible mistakes in the
definition below them, such as a dropped guard or two steps in the wrong order;
no specification uses them, and each property has one that it catches.

**RepositoryLock.** A caller is a goroutine with one call at a time (`call`,
`pc`). `queue`, `readers`, `writing`, `writersWaiting` and `waiters` are the
fields of the struct; `ready` holds the callers whose channel was closed by
`dispatchLocked` and who have not run yet, so a context can end between the
hand-over and the wake-up (`GiveUp`). `Unlock` is two steps, as in the code:
the generation first, the release next. The write gate may refuse.

**SnapshotCache.** Refs are a version within a lifetime of the name (`repo`).
Locked and unlocked lookups, the read of the refs, storing it, dropping and
evicting are separate steps of a reader, so a listing can be in flight while
others write, delete and create. A writer must decide before its first change
that it will announce one (`mark`), as the HTTP handler does, and a writer that
changed nothing releases without announcing. `incarnation` advances when a
deletion finishes. `polled` is what the coordinator remembers of a poll.

**PullRequestMerge.** Rows and refs are separate variables. A commit is a name,
or, for a merge commit, the record of what its object ID hashes: the pair, the
title, the date and the offset. `Merge` is a sequence of steps
(`published`, `heads`, `bindRefs`, ... `reconcile`), each of which may fail
(`Fail`) or be the last before a stop (`Stop`); Git commands outside OwnGit
move branches at any time, and delete refs while the server is stopped. Which
merge method Git finds for a pair is the constant `Method`. `published` is a
history variable, the pair whose receipt was created. `clock` may say any of
`Times` and is set back by `ClockMoves`. The times of update are abstracted to
what a backup asks of them: `backdated` holds the rows (the `Request`, made at
`OpenedAt`, and the intents) whose `updated_at` is earlier than their
`created_at`. An activation, a review and the steps of a merge write the time of
the clock (`Touch`, `state/pull_requests.go:211`, `:594`, `:744`, `:884`), a
closing, a reopening and an edit keep the later of the two (`Raise`, `:253`,
`:671`), and an intent begins with both equal (`Forget`, `:727`). Every row is
written with the clock of the step that writes it; `planMerge` reads it a little
earlier, which is as if the clock had moved after the write. `turnedBack` is
history: whether the clock was ever set back. `BackupIsAccepted` therefore says
less of the times than of the rest: no row is backdated unless the clock was
turned back, and then the code does write rows that every backup refuses.

**PullRequestCreation.** All requests of one branch pair, with their status,
their revision and their three times; `refs` are the revision refs of each
number. A creation inserts a provisional row, creates refs, activates the row;
if a step fails the code reconciles the row at once, or preparation does it
later. The clock may say any of `Times` at any step, so it can go back. `text`
and `edits` are the title with the description and the edit revision. An editor
keeps in `page` what a page or an answer showed it, for any time, while others
edit; `Edit` only takes the read lock, so several edits are between the read of
the record and its update at once (`saving`). A refused edit keeps the editor's
own text, takes over the revision of the refusal and then shows the newer text,
which a later edit may have replaced already (`EditIsStale`, `ShowDraft`). Pages
of a repository that was deleted, or replaced by a restore, are not followed
into the next one of its name.

**RepositoryDeletion.** A storage is what may be mounted as the repository
folder; a directory keeps its identity wherever it is moved, and a copy of a
storage has other identities. A deletion is named by a number, which stands for
its random token. `path`, `moved` and `marker` are files on every storage;
`row`, `intent`, `plan`, `phase`, `secret` and `working` are records; `held` and
`bound` are what the process remembers of the storage and the directory. The
owner may move directories away or put others in place, and an older build that
ignores recorded deletions may create a repository. `home`, `victim` and
`taken` are history: where a deletion began, which directory it is about, and
whether the owner took it.

**CheckJob, CheckJobs.** A job is a record with the facts of its row: status,
claim, lease, start, attempt, lost lease, end, cancellation. Deadlines are
abstracted to `late`, which says that the deadline of a lease in use is past;
nothing measures time otherwise. Each store method is one transaction and one
action. A worker (the coordinator for local jobs, an external runner otherwise)
keeps what its claim returned and acts on it later, so a start, a renewal or a
result may come after the lease ran out, the consent was revoked, the policy
replaced, the runner revoked, the server restarted or a backup restored on
another computer. `StartAnswerIsLost` and `CompleteAnswerIsLost` are calls whose
record is written and whose answer is not received. `agreed` and `ran` are
history; `agreed` holds each consent with the policy version it was given to.
Consent is recorded in three ways. `GrantCheckConsentFor` names the policy that
was read, and is refused when another is stored. `GrantCheckConsent`, which the
API's `check-policy/enable` calls (`server/configured_checks.go:105`), names
none (a nil expectation, `state/check_jobs.go:542`), so nothing is compared, and
it agrees to what is stored at that moment, read or not. Both are
`GrantConsent(expected)`, the second with `NoExpectation`.
`SaveCheckPolicyAndGrantConsent` (`SaveAndEnable`) agrees to the contents it
sends, with a base to compare or without. `ExecutedWorkWasAgreedTo` follows from
the code in that form: work that is executed belongs to the policy version its
consent was given to. That an administrator had read that version is only
promised for a request that names it. A workflow job is admitted waiting and
settled in the same transaction (`AdmittedJobs`); a later one releases, skips or
fails it (`SettleWaiting`), with what it waits for left to `WorkflowRuns`. Which
of these endings are taken is the constant `Endings`. Two kinds of jobs that
these actions leave behind are refused by every backup, and
`OnlyTwoKindsAreRefused` says that there are no others: a workflow job that
reported `skipped` after its lease was lost or its cancellation asked for
(finding 3), and one that settling ended in `error` without a claim
(`actions_transitions.go:151`, `:160`, refused at `check_jobs_recovery.go:412`).
Rows are numbered in the order of admission, which is the order of
`oldestPendingCheckJobTx` as long as the clock is not set back between two
admissions. `CredentialCurrent` reads only the epoch of the server's credential:
its generation is the policy version of the job, as `Claim` wrote it.

**WorkflowRuns.** A run is admitted whole with the plan that its workflow file
gives; `Plans` says for each job its needs, condition, matrix key, group and
limits, as the code reads them from the frozen plan. Every transaction of the
store ends with `settleActionsRunsTx`, so `Settled` is part of every action
that the code settles in. As in the code it is two loops: `SettlingStep` is one
turn of the loop over the jobs of a run, `SettledOnce` goes through all runs,
and both are repeated until a turn changes nothing (`UntilUnchanged`). Workers
are abstracted here: a claimed job is started,
ended or lost by a step of its own. Three facts of the code that a reader of the
module meets: `ResolveJob` looks at the jobs a job needs, and at what those need
only for failures and uncertain executions, so `ReleasedJobsHadTheirNeeds` is
about direct needs: when a waiting job is cancelled while one it needs still
runs, a job behind it with `cancelled()` or `always()` is released at once; a new run clears its group before the queue is counted, so it may
replace a run and then find no room itself; and a job whose plan cannot be
evaluated when its needs are over ends in `error` without a claim, a record
that a backup refuses (`FailedUnclaimed` in `CheckJobs`).

**ImportPublication.** One repository, made by a first import, is refreshed.
Refs, HEAD and retention refs are the repository; `source`, `runs`, `intents`
and `obs` are the records; `pc` and `live` are the run that is executed. A
publication is the sequence of steps of `applyIntent`: the first ref
transaction, the second one for the branch HEAD names, the record, HEAD, its
record, the readback and the settlement. Other programs write to the folder
at any step, and pushes through the server only when the lock is free. A failed
Git command may have written any part of what it was asked to. `page` is what
`reconcilePendingIntentPages` read before it took the lock. `author` is history:
the run that wrote a ref last. `cancelSuperseded` asks for cancellation shortly
after the new settings are recorded; here it is one step with them. A deadline
stops a run at the same places as a cancellation and is the same action. Two
observations that no property states: a page read early can also turn a
complete intent into an unresolved one and so take its receipt back; and an
`invalidated` intent stays in the list of pending ones
(`PendingImportIntents`, `state/imports.go:1352`) and may later become
unresolved and block refreshes, although `imports_recovery.go:343` calls such
intents finished history.

## The runs

| Run | Instance | States | What it shows |
| --- | --- | --- | --- |
| `repository_lock` | 4 callers, 2 announced releases | 204,040 | safety, arrival order, the implementation of `ReadWriteLock`, and that nobody starves |
| `snapshot_cache` | 3 callers, 2 lifetimes, 1 write in each, 4 announced releases | 1,702,773 | listings, polls and pinned reads |
| `merge` | 3 target commits, so three pairs (a fast-forward, a merge commit, one up to date), 2 times, 1 title, 1 time zone | 583,980 | the safety properties of a merge, what a backup requires of it, the implementation of `PullRequestOutcome`, and that a published merge is recorded |
| `merge_retry_after_edit` | 1 target commit, 2 titles, so an edit, 1 time | violated | finding 1 |
| `creation` | 2 revisions, 2 numbers, 2 editors, 2 texts, 2 edits, 1 time | 734,476 | creation, numbers, edits that are based on what was read, and the settling of provisional rows |
| `creation_one_open` | the same | violated | finding 2 |
| `deletion` | 2 storages, 3 directories, 2 deletions | 3,270,792 | the safety properties of a deletion, and that a recorded one is finished |
| `check_jobs` | 2 jobs, 1 runner, 2 policies of which one is external, 2 versions, 1 restore, 1 active job, one of the two events of a workflow | 964,051 | execution, authority, consents with and without an expectation, the jobs a backup refuses, the implementation of `ExecutionGrant`, and that every job ends |
| `check_jobs_restorable` | the same, but settling ends waiting jobs only as skipped | violated | finding 3 |
| `workflow_runs` | 3 workflow files, 2 runs of up to 3 jobs (`MaxJobs`), room for 5 in the queue, 2 faults | 351,800 | groups, matrices, needs, the queue, settling, and that every run ends |
| `import_publication` | 2 branches, 4 commits, 2 answers of the source, 3 runs, 2 disturbances | 700,794 | what a refresh may change, overlapping publications, and that every run ends |
| `import_owner_resolution` | the same | violated | finding 4 |

Why these bounds are enough for the cases that matter: four callers give a
holder, a queued writer, a reader behind it and one that gives up. Two
lifetimes of a name are what it takes to confuse them; a third repeats it. In
the cache one caller writes or deletes while one listing is in flight and
another caller stores or serves. Two pairs are needed for a superseded plan and
a third for one that is superseded while the branches return. Two times are a
clock that is set back and a row that is older or newer than it; one title and
one zone are enough for the properties of `merge`, which hold whatever commit a
retry makes (the proofs vary both, `merge_retry_after_edit` the title). Two numbers are
needed for a provisional request beside an open one. Two editors are one that
read and one that replaced what it read, and two edits let the refused one try
again; how recorded times are ordered needs more than one time and is proved
(`RestorableEdits`) rather than run. Two storages give one
where the deletion began and one where it did not, and three directories the
deleted one, one put in its place and one of a later repository. The bounds
`MaxGeneration`, `MaxWrites`, `MaxLives`, `MaxUnlocks`, `MaxNumber` and
`MaxDeletions` cut off repetition, not kinds of behaviour, and the proofs do
not depend on them. Two jobs are a job and its rerun, or one that is active
beside one that waits; two versions of the policy give a stale one, and one of
two digests asks for the runner, so the bound on active jobs is met while both
kinds of worker hold claims. The three workflow files share two groups in
both roles (run and job), one has a matrix with fail-fast and `max-parallel`,
one a chain of three jobs, the last of which runs when the second is cancelled,
and together they have each kind of condition; the queue holds a full run and a
short one, but not two full ones; two faults are what it takes to lose
a lease and cancel. Three import runs give the first one, one that is disturbed
and one that finds what it left; `MaxDisturbances` bounds foreign writes,
changed settings, failed records, crashes and early pages together to two in
one behaviour, since the cases of interest are pairs: a write and a crash, a
crash and an early page.

Deadlock is checked where the system always has a step; the configurations of
jobs, workflow runs and imports end when their bounds are used up and say
`CHECK_DEADLOCK FALSE`. Symmetry is used where only safety is checked or the
values are interchangeable in every property: the callers of `snapshot_cache`
and the revisions of `creation_one_open`.

## Fairness

- **Lock.** `Wake`, `PassGate` and `Release` of each caller are weakly fair: a
  goroutine whose channel was closed is scheduled, and a holder ends its turn,
  since every holder in the code releases in a `defer` and its Git processes
  have deadlines. Nobody has to ask for the lock or to give up.
- **Merge.** `Start` and the steps of preparation: `StartPreparation` runs at
  every start, and `runPreparation` retries with a pause of 30 seconds that
  doubles up to 10 minutes until an attempt succeeds. An attempt that is made
  again and again may fail any number of times, but not always, which is strong
  fairness of the recovery steps. The properties speak of runs in which stops
  end (`StopsEnd`); an owner who stops the server for ever is not recovered.
- **Creation.** The same, for the reconciliation of provisional rows.
- **Deletion.** The steps of an operation in progress are weakly fair. The
  premises are explicit: stops and failures end (`StopsAndFailuresEnd`), Delete
  is called again and again or the server is started (`DeleteIsRetried`), and
  the storage where the deletion began is mounted and nobody has put a
  repository in the directory's place (`StorageReturns`). Without the last, the
  code refuses for good by design and leaves the directory to the owner.

- **Jobs.** The coordinator's loop claims and expires leases in each pass; a
  worker takes the next step of its claim, since commands have a timeout, or it
  is a runner that stops; the deadline of a lease that nobody renews passes. A
  job that waits for an external runner may wait for ever: nobody has to run one.
- **Workflow runs.** Claims and starts that are possible are made, and an
  execution ends, which `CheckJobs` shows of its jobs (`JobsAreSettled`). Two
  runs that each hold their group and have a job in the other's wait for each
  other; `RunsEnd` names that exception (`HoldEachOther`).
- **Imports.** The steps of a run and the start after a crash. The scheduler
  need not begin another run.

## The proofs

All theorems hold for every value of the constants under the named assumptions
of the modules, which say no more than that bounds are naturals, that the
callers are finitely many, and that the values for "none" are not among the
values they stand apart from. No property is proved from an unchecked
assumption about the code.

- **RepositoryLockProofs.** `LockInvariant` adds to the counts that nobody is
  queued twice and that queued callers and those handed the lock are disjoint;
  without it, removing a caller from the queue would not change the number of
  waiters by one. `DispatchGrants`, `DispatchBlocks` and `DispatchServesInOrder`
  describe the prefix of the queue that a hand-over serves. On them rest the
  counts, the absence of lost wake-ups, the stable generation, the arrival
  order (`TurnsInArrivalOrder`) and the implementation of `ReadWriteLock`. The
  arrival order needs two facts: only the prefix is served, also when the queue
  has just closed up behind a caller that gave up, and a caller that takes the
  lock directly overtakes nobody because a lock that is free has an empty queue
  (`QueueIsBlocked`).
- **SnapshotCacheProofs.** `CacheInvariant` says by which lock, generation and
  incarnation each remembered listing is known to hold: whoever remembers refs
  of the present generation remembers the settled refs, and whoever remembers
  an incarnation remembers nothing of an earlier life. The properties of an
  answer are step properties and follow from it.
- **PullRequestMergeProofs.** `MergeInvariant` relates the program counter, the
  local copy of the intent, the rows and the refs. Its core is that no two
  pairs have an intent at the same time, that every recorded stage has the refs
  it claims, and that a receipt belongs to the pair it was created for. It gives
  the uniqueness of the receipt's owner, that recovery never refuses, and the
  step simulation of `PullRequestOutcome`. `BackupsAreAccepted` has two halves:
  what a backup requires of intents, revisions and merge holds in every state; the
  order of each row's times holds as long as nobody turns the clock back, because
  until then no creation lies in the future of the clock, that of the local copy
  of an intent included (`ClockInvariant`).
- **PullRequestCreationProofs.** `CreationInvariant` says that rows and refs
  are about each other, that no request of the pair is open while one is
  being created, and that a page at the present edit revision has the present
  text (`PagesAreCurrent`), because every edit takes a revision that no page
  has. `EditsReplaceWhatWasRead` is a step property that rests on the last.
- **RepositoryDeletionProofs.** `DeletionInvariant` follows the deleted
  directory from the commit to the end, whatever is mounted and whatever the
  owner does, together with the marker that identifies its storage.

- **CheckJobsProofs.** `JobInvariant` gives each record its type, its policy,
  a shape that a backup accepts or one of the two that it refuses (`JobOK`), and,
  while it is not started, the current authority. `PolicyOK` says that the active
  consent is the one recorded for the stored version; it holds for a grant
  without an expectation too, because the grant and the version it is given to
  are recorded in one transaction. Every update of `CheckJob` is a lemma
  about one record, so that the step of an action is the lemma of its update and
  the jobs it leaves alone. `ExecutedOnce` and `ExecutedWorkWasAgreedTo` follow
  from what the record of a started job says about its execution, and each
  action is a step or a stutter of `ExecutionGrant`.
- **ImportPublicationProofs.** `ImportInvariant` says what a run that publishes
  has found and planned under the lock and that it still holds: the other
  intents are settled (`OthersAreSettled`), the source is the one it was
  admitted under (`PublicationIsAuthorised`), every planned change is of a ref
  that was absent or observed by a complete run of this configuration
  (`PlanIsObserved`), and who will be reported as stopped has written nothing
  (`StoppedRunsWroteNothing`). The three safety invariants follow from its
  conjuncts. `WhatIsWritten` is the lemma that the two step
  properties rest on: only a transaction changes a branch, only to what the plan
  says, only if it still holds what the plan expected, and never a guarded
  branch that HEAD names at that moment. All but an admission and the record
  of a plan keep what runs and intents say (`RecordsKept`, `KeepsPlan`), so most
  of the invariant is kept by one lemma (`PlanKept`). The assumptions say that
  a source answers with commits for branches and that `HEAD` is no branch.

- **WorkflowRunsProofs.** `IInv` is proved for all workflow files, limits and
  bounds. Most of the proof is about settling, which is defined by recursion over
  states of the store. `RestExists` shows that the function which follows a step
  to a fixed point exists, and `RestIsReached` that it ends there, given a
  measure that every change lowers. That measure is `Left`: the waiting jobs, the
  jobs a cancellation would still change, and the runs that are not cancelled. A
  turn ends a wait, cancels something or changes nothing (`SettlingLowers`).
  Settling does not lead out of a set of states that no single turn leads out of
  (`SettlesInside`, `SettledFacts`), so an invariant is shown once for a turn and
  once for what each transaction does before it settles. `SettlingEnds` sums up:
  in any state of the store settling ends, and where it ends no run has
  anything to settle. `Sound` says of the rows:
  they follow the plans of their runs (`RowsArePlanned`, `RunsArePlanned`), which
  every use of a plan needs; exactly the jobs that were claimed have a claim
  (`ClaimsFit`); the jobs of a cancelled run are stopped
  (`CancelledRunsAreStopped`), without which a claimed job could belong to a run
  whose claim guard fails; every active job still has its group and its place in
  the matrix (`GroupsAreHeld`), which is both mutual exclusion and the guard of a
  later start; released jobs had their needs (`HadNeeds`); and the queue and the
  active jobs are within their limits (`QueueIsBounded`). `Quiet` says that no run has anything to
  settle. It is part of `IInv` because claims and starts do not settle:
  `GoesOnIsQuiet` shows that they give settling nothing to do. The assumption on
  `Plans` that jobs of one key have one `maxParallel` is what the planner does
  (`actions/planner.go:120`): the jobs of a matrix are planned from one strategy.
  Without it, a claim with a wide limit could break the guard of a sibling with
  a narrow one.

Only model-checked: what holds under fairness, since liveness is beyond the
prover (`EveryCallerIsServed`, `PublishedMergeIsRecorded`,
`ProvisionalIsSettled`, `RecordedDeletionIsFinished`, `JobsAreSettled`, and
`RunsEnd` of workflow runs and of imports). Every safety invariant and every
action property that a passing run checks has a theorem.

## What the runs found

1. `merge_retry_after_edit`. A merge stops after it created the merge commit's
   result ref and before it recorded the commit. The title of the pull request
   is edited. The retry makes a commit with the new title
   (`createMergeCommit`, `pullrequest/git.go:431`), which differs from the one
   in the result ref, and every merge of that pair is refused as a repository
   integrity error. `mergeCommitDate` goes out of its way for this case ("so a
   retry recreates the same commit after a time zone change"), but only for the
   date.
2. `creation_one_open`. The activation of a provisional pull request fails and
   the row stays. The branch pair counts as free, a second request is opened,
   and the preparation after a restart activates the first: two are open, where
   `docs/CODING_TOOLS.md:228` says only one can be.
3. `check_jobs_restorable`. A workflow job runs none of its steps and reports
   `skipped` after its cancellation was asked for, or after its lease was lost.
   `finalizeCheckJobTx` records it; `validateCheckJobTimelineAndLease` refuses
   such a job, and with it every later backup of the state.
4. `import_owner_resolution`. A recovery reads its page of open intents, the
   owner resolves one of them, and the recovery, which reconciles what it read,
   marks it unresolved again. `state/imports.go:140` calls the owner's decision
   terminal.

Three more were met and are not runs. The refusal of finding 1 is also reached
without an edit: the target moves after such a stop, a merge of the new pair
discards the plan of the old one and keeps its result ref, the target returns,
and the new plan has its own date (`pullrequest/service.go:461`). And after the
clock was set back, an activation, a review or a step of a merge records a time
of update earlier than the creation, of the request or of its intent, which
`validatePullRequestRecord` (`state/pull_requests.go:1114`) and
`validateMergeIntentRecord` (`:1216`) refuse: already when a backup is taken,
since `ReadRecoveryState` validates what it reads (`state/recovery.go:307`).
An edit, a closing and a reopening are protected from this (`:253`, `:669`), the
other three are not. `BackupIsAccepted` says what is left: no such row without a
clock that was turned back. A third is that backups also refuse the workflow
jobs that settling ended in `error` unclaimed; `OnlyTwoKindsAreRefused` names
them beside those of finding 3.

## What is not modelled

- **Inside the modelled components.** Weights in the snapshot cache (any entry
  may be evicted); views, diffs and mergeability answers; review
  texts; several pull requests with different branch pairs
  at once; a power loss that undoes a rename the code has synced, a storage
  swapped in the middle of one step, and a marker written in part; another
  repository folder configured between two starts, which the code compares
  (`Root`) and the runs keep the same; an owner who replaces a directory that a
  recorded deletion still expects at its path by another one.
  For jobs: logs, ceilings, checks reported by hand, observations and the
  coordinator's list of pushes; several repositories sharing one coordinator.
  For workflow runs: schedules, the record of accepted pushes, event filters,
  the expansion of matrices and expressions, which arrive as `Plans`. For
  imports: the first import with its directory, staging of objects, the
  credentials file, LFS, names that differ in case only, symbolic refs, a
  detached HEAD, a Git process that outlives its command, a left-over
  `HEAD.lock`, and the scheduler.
- **Components without a module**: the table of preparation jobs of several
  repositories, maintenance and rename, the details of a push, backups and
  restore as archives (what they require of pull requests and jobs is checked
  as properties of those), the store's schema and migrations.
- **Components left out**: workflow language, rendering, pages, command line,
  installation and tray, which transform data or talk to the operating system.
  They are most of the code: of the 1,500 files, the ones whose correctness
  depends on an order of steps are those of the table above.

Git's ref transactions and SQLite's transactions are taken to be atomic, which
is what they document, and an atomic rename to be one step.

## The plan

1. *Done:* the lock, the cache over it, merging over its outcome, creation with
   edits, deletion, jobs over their execution grant, workflow runs, import
   publication.
2. **RepositoryPreparation** (`repository/preparation.go`): jobs of several
   names against deletion and creation. Properties: a deleted repository never
   gets a job, no job touches a later repository of its name.
3. **Maintenance and rename** over `ReadWriteLock`.
