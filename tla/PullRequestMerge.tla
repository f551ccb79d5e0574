-------------------------- MODULE PullRequestMerge -------------------------
(***************************************************************************)
(* The merge of one pull request (internal/pullrequest/service.go and      *)
(* git.go) over two stores that no transaction spans: the SQLite records   *)
(* (internal/state/pull_requests.go) and the refs of the Git repository.   *)
(*                                                                         *)
(* A merge is planned, its objects protected by refs, the plan recorded as *)
(* ready, published by one ref transaction that also creates a receipt,    *)
(* and only then recorded as merged.  The server may stop between any two  *)
(* steps, every step may fail, and Git commands outside OwnGit may move    *)
(* the branches at any time.  Preparation recovers the pull request before *)
(* the repository is served again.                                         *)
(*                                                                         *)
(* Every operation holds the repository write lock, so one runs at a time. *)
(* A commit is its name, or for a merge commit what its object ID hashes.  *)
(***************************************************************************)
EXTENDS Naturals

CONSTANTS
    SourceCommits, TargetCommits, \* commits that the two branches are moved to
    NoCommit,                     \* no commit, no ref
    Titles,                       \* titles of the pull request
    Times,                        \* what the clock may say, in seconds
    OpenedAt,                     \* pull_requests.created_at
    Zones,                        \* time zones of the computer
    Method                        \* what mergeMethod and merge-tree find for each pair

Pairs == SourceCommits \X TargetCommits
NoPair == <<NoCommit, NoCommit>>
Methods == {"up_to_date", "fast_forward", "merge_commit", "conflict"}

ASSUME CommitAssumption == NoCommit \notin SourceCommits \cup TargetCommits
ASSUME MethodAssumption == Method \in [Pairs -> Methods]

MergeCommits == [pair : Pairs, title : Titles, created : Times, zone : Zones]
Commits == SourceCommits \cup TargetCommits \cup MergeCommits

ASSUME NoCommitAssumption == NoCommit \notin MergeCommits
ASSUME TimeAssumption == Times \subseteq Nat \ {0} /\ OpenedAt \in Times

Request == NoPair                 \* the row of the pull request, beside those of its intents

VARIABLES
    \* the records
    status,       \* pull_requests.status: open, closed, merged
    merged,       \* merge_source_oid and merge_target_oid
    mergeOID,     \* merge_oid
    title,
    stage,        \* pull_request_merge_intents.status of each pair, "none" without a row
    result,       \* result_oid of each pair
    created,      \* created_at of each pair
    bound,        \* pull_request_revisions
    backdated,    \* the rows whose updated_at is earlier than their created_at
    \* the repository
    source,       \* the source branch
    target,       \* the target branch
    retained,     \* the pairs with revision refs
    treeRef,      \* the pairs with a merge tree ref
    resultRef,    \* the merge result ref of each pair
    receipt,      \* the merge receipt ref
    published,    \* history variable: the pair that the receipt was created for
    \* the computer
    zone,         \* time.Local
    clock,        \* time.Now
    turnedBack,   \* history variable: the clock was set back since the pull request was made
    \* the process
    pc,           \* where the operation that holds the lock is
    kind,         \* which operation it is
    pair,         \* the pair it was asked for
    plan          \* its local copy of the merge intent

records == <<status, merged, mergeOID, title, stage, result, created, bound, backdated>>
intentRows == <<stage, result, created>>
requestRow == <<status, merged, mergeOID>>
branches == <<source, target>>
mergeRefs == <<treeRef, resultRef, receipt, published>>
computer == <<zone, clock, turnedBack>>
process == <<pc, kind, pair, plan>>
vars == <<records, branches, retained, mergeRefs, computer, process>>

Stages == {"none", "preparing", "planned", "ready", "complete"}
Plans == [stage : {"preparing", "planned", "ready"}, result : Commits \cup {NoCommit}, created : Times]
NoPlan == [stage |-> "none", result |-> NoCommit, created |-> 0]
RequestPcs == {"published", "heads", "bindRefs", "bindRow", "discard", "load", "plan", "begin",
               "savePlan", "result", "saveReady", "publish", "reconcile", "close"}
RecoveryPcs == {"repair", "recover"}
PcValues == {"idle", "down", "locked"} \cup RequestPcs \cup RecoveryPcs

\* A pull request that ActivatePullRequestCreation has just opened, with the
\* time of the clock.
Init ==
    /\ status = "open" /\ merged = NoPair /\ mergeOID = NoCommit
    /\ title \in Titles
    /\ stage = [p \in Pairs |-> "none"]
    /\ result = [p \in Pairs |-> NoCommit]
    /\ created = [p \in Pairs |-> 0]
    /\ source \in SourceCommits /\ target \in TargetCommits
    /\ bound = {<<source, target>>} /\ retained = bound
    /\ treeRef = {} /\ resultRef = [p \in Pairs |-> NoCommit]
    /\ receipt = NoCommit /\ published = NoPair
    /\ zone \in Zones /\ clock \in Times /\ turnedBack = (clock < OpenedAt)
    /\ backdated = IF clock < OpenedAt THEN {Request} ELSE {}
    /\ pc = "idle" /\ kind = "none" /\ pair = NoPair /\ plan = NoPlan
-----------------------------------------------------------------------------
(* What the code reads off the clock, the records and the refs. *)

\* An update writes the time of the clock as updated_at, or keeps the later of
\* the two.  The clock is read before the row is written, and nothing between
\* the two reads it again.
IsEarly(row) == clock < (IF row = Request THEN OpenedAt ELSE created[row])
Touch(rows) == backdated' = (backdated \ rows) \cup {row \in rows : IsEarly(row)}
Raise(rows) == backdated' = {row \in backdated : row \in rows => IsEarly(row)}
Forget(row) == backdated' = backdated \ {row}

Current(p) == source = p[1] /\ target = p[2]

\* The result of a merge that needs no merge commit.
ExistingResult(p) == IF Method[p] = "up_to_date" THEN p[2] ELSE p[1]

\* mergeCommitDate: the offset of a result already recorded, in the intent or
\* in its result ref, or this computer's.
Offset(p, recorded) ==
    IF recorded # NoCommit THEN recorded.zone
    ELSE IF resultRef[p] # NoCommit THEN resultRef[p].zone ELSE zone

\* createMergeCommit: the commit is a function of all that it is made from.
MergeCommit(p, recorded, made) ==
    [pair |-> p, title |-> title, created |-> made, zone |-> Offset(p, recorded)]

\* The result that ensureMergeResult requires of a plan for p.
RequiredResult(p, recorded, made) ==
    IF Method[p] = "merge_commit" THEN MergeCommit(p, recorded, made) ELSE ExistingResult(p)

\* validateProtectedMergeObjects.
ResultIsRequired(p) == stage[p] \in {"ready", "complete"}
ExistingResultIsProtected(p) ==
    /\ result[p] = ExistingResult(p)
    /\ resultRef[p] = result[p] \/ (resultRef[p] = NoCommit /\ ~ResultIsRequired(p))
MergeCommitIsProtected(p) ==
    /\ p \in treeRef
    /\ (result[p] # NoCommit) = ResultIsRequired(p)
    /\ ResultIsRequired(p) => resultRef[p] = result[p]
    /\ resultRef[p] # NoCommit => resultRef[p].pair = p
ObjectsAreProtected(p) ==
    /\ Method[p] # "conflict"
    /\ Method[p] = "merge_commit" => MergeCommitIsProtected(p)
    /\ Method[p] # "merge_commit" => ExistingResultIsProtected(p)

\* state.PullRequestMergeReceiptOwner: the intents the receipt may belong to.
ReceiptOwners ==
    {p \in Pairs : /\ receipt # NoCommit /\ result[p] = receipt
                   /\ \/ status = "merged" /\ stage[p] = "complete" /\ merged = p /\ mergeOID = receipt
                      \/ status = "open" /\ stage[p] = "ready"}

\* validateReceipt of the intent for p: it finds the receipt its own, or finds
\* no receipt or that of another intent.
IsPublished(p) == ObjectsAreProtected(p) /\ ReceiptOwners = {p}
IsNotPublished(p) ==
    /\ ObjectsAreProtected(p)
    /\ receipt = NoCommit \/ \E q \in Pairs \ {p} : ReceiptOwners = {q} /\ ObjectsAreProtected(q)

\* CompletePullRequestMerge, one transaction.
CompletePullRequestMerge(p) ==
    /\ stage[p] \in {"ready", "complete"}
    /\ \/ /\ status = "open"
          /\ status' = "merged" /\ merged' = p /\ mergeOID' = result[p] /\ Touch({Request, p})
       \/ /\ status = "merged" /\ merged = p /\ mergeOID = result[p]
          /\ UNCHANGED requestRow /\ Touch({p})
    /\ stage' = [stage EXCEPT ![p] = "complete"]
    /\ UNCHANGED <<title, result, created, bound>>
-----------------------------------------------------------------------------
(* Operations take the write lock, run their steps, and release it. *)

Goto(where) == pc' = where /\ UNCHANGED <<computer, kind, pair, plan>>
Return ==
    /\ pc' = "idle" /\ kind' = "none" /\ pair' = NoPair /\ plan' = NoPlan
    /\ UNCHANGED computer
Begin(what, p, where) ==
    /\ pc = "idle" /\ status = "open"
    /\ pc' = where /\ kind' = what /\ pair' = p
    /\ UNCHANGED <<records, branches, retained, mergeRefs, computer, plan>>

\* Merge, asked for an exact pair.  On a merged pull request it only reads.
StartMerge(p) == Begin("merge", p, "published")

\* Close.  A merge that Git published but no one recorded is completed first.
MutantStartClose == Begin("close", NoPair, "close")     \* closes without looking for a published merge
StartClose == Begin("close", NoPair, "published")

\* recordReview and ObserveCurrentRevisionsAfter bind the pair the branches
\* are at.
StartReview(p) == Current(p) /\ Begin("review", p, "bindRefs")

\* Reopen; the one open pull request per branch pair is PullRequestCreation's.
Reopen ==
    /\ pc = "idle" /\ status = "closed"
    /\ status' = "open" /\ Raise({Request})
    /\ UNCHANGED <<merged, mergeOID, title, intentRows, bound, branches, retained, mergeRefs, computer, process>>

\* Edit holds the read lock: no other operation runs while it does.
Edit ==
    /\ pc = "idle"
    /\ (\E t \in Titles : title' = t) /\ Raise({Request})
    /\ UNCHANGED <<requestRow, intentRows, bound, branches, retained, mergeRefs, computer, process>>

\* completePublishedMergeLocked and the end of RecoverRepositoryLocked: a
\* ready intent whose merge Git published is recorded.  A merge or close then
\* finds the pull request merged and returns; recovery goes on.
CompletePublishedMerge ==
    /\ pc \in {"published", "recover"}
    /\ \E p \in Pairs : stage[p] = "ready" /\ IsPublished(p) /\ CompletePullRequestMerge(p)
    /\ IF pc = "recover" THEN Goto("recover") ELSE Return
    /\ UNCHANGED <<branches, retained, mergeRefs>>

\* Every ready intent is found unpublished.
NothingWasPublished ==
    /\ pc = "published"
    /\ \A p \in Pairs : stage[p] = "ready" => IsNotPublished(p)
    /\ Goto(IF kind = "close" THEN "close" ELSE "heads")
    /\ UNCHANGED <<records, branches, retained, mergeRefs>>

SetPullRequestClosed ==
    /\ pc = "close" /\ status = "open"
    /\ status' = "closed" /\ Raise({Request})
    /\ Return
    /\ UNCHANGED <<merged, mergeOID, title, intentRows, bound, branches, retained, mergeRefs>>

MutantCheckHeads ==                                         \* does not bind the pair
    /\ pc = "heads" /\ Current(pair)
    /\ Goto("discard")
    /\ UNCHANGED <<records, branches, retained, mergeRefs>>
\* currentHeads: the request is about the pair the branches are at.
CheckHeads ==
    /\ pc = "heads" /\ Current(pair)
    /\ Goto("bindRefs")
    /\ UNCHANGED <<records, branches, retained, mergeRefs>>

\* ensureRevisionRefs, one ref transaction that also verifies both branches.
EnsureRevisionRefs ==
    /\ pc = "bindRefs" /\ Current(pair)
    /\ retained' = retained \cup {pair}
    /\ Goto("bindRow")
    /\ UNCHANGED <<records, branches, mergeRefs>>

\* RecordPullRequestRevision; a review then appends its decision, which touches
\* the request, and an observation only binds.
RecordPullRequestRevision ==
    /\ pc = "bindRow"
    /\ bound' = bound \cup {pair}
    /\ UNCHANGED backdated \/ (kind = "review" /\ Touch({Request}))
    /\ IF kind = "merge" THEN Goto("discard") ELSE Return
    /\ UNCHANGED <<requestRow, title, intentRows, branches, retained, mergeRefs>>

\* discardSupersededMergePlansLocked deletes the plans of other pairs one by
\* one; their refs stay.
Superseded == {p \in Pairs \ {pair} : stage[p] \in {"preparing", "planned", "ready"}}
DiscardSupersededPlan ==
    /\ pc = "discard" /\ receipt = NoCommit
    /\ \E p \in Superseded :
        /\ stage[p] # "preparing" => ObjectsAreProtected(p)
        /\ stage' = [stage EXCEPT ![p] = "none"]
        /\ result' = [result EXCEPT ![p] = NoCommit]
        /\ created' = [created EXCEPT ![p] = 0]
        /\ Forget(p)
    /\ UNCHANGED <<requestRow, title, bound, branches, retained, mergeRefs, computer, process>>
PlansDiscarded ==
    /\ pc = "discard" /\ receipt = NoCommit
    /\ Superseded = {}
    /\ Goto("load")
    /\ UNCHANGED <<records, branches, retained, mergeRefs>>

GotoWith(where, local) == pc' = where /\ plan' = local /\ UNCHANGED <<computer, kind, pair>>

\* The intent is read, or made at the time of the clock.  A ready one was
\* found unpublished under this lock already.
LoadIntent ==
    /\ pc = "load"
    /\ \/ /\ stage[pair] = "none"
          /\ GotoWith("plan", [stage |-> "preparing", result |-> NoCommit, created |-> clock])
       \/ /\ stage[pair] \in {"preparing", "planned", "ready"}
          /\ GotoWith(IF stage[pair] = "preparing" THEN "plan" ELSE "result",
                      [stage |-> stage[pair], result |-> result[pair], created |-> created[pair]])
    /\ UNCHANGED <<records, branches, retained, mergeRefs>>

MutantPlanMerge ==                                          \* does not protect the tree
    /\ pc = "plan" /\ Method[pair] = "merge_commit"
    /\ GotoWith("begin", [stage |-> "planned", result |-> NoCommit, created |-> plan.created])
    /\ UNCHANGED <<records, branches, retained, mergeRefs>>
\* planMerge and ensurePlannedMergeTree, which verifies both branches when it
\* creates the tree ref.
PlanMerge ==
    /\ pc = "plan" /\ Method[pair] # "conflict"
    /\ \/ /\ Method[pair] = "merge_commit"
          /\ pair \in treeRef \/ Current(pair)
          /\ treeRef' = treeRef \cup {pair}
          /\ GotoWith("begin", [stage |-> "planned", result |-> NoCommit, created |-> plan.created])
       \/ /\ Method[pair] # "merge_commit"
          /\ GotoWith("begin", [stage |-> "planned", result |-> ExistingResult(pair), created |-> plan.created])
          /\ UNCHANGED treeRef
    /\ UNCHANGED <<records, branches, retained, resultRef, receipt, published>>

MutantBeginPullRequestMerge ==                              \* leaves updated_at empty
    /\ pc = "begin"
    /\ stage' = [stage EXCEPT ![pair] = "preparing"]
    /\ created' = [created EXCEPT ![pair] = plan.created]
    /\ backdated' = backdated \cup {pair}
    /\ Goto("savePlan")
    /\ UNCHANGED <<requestRow, title, result, bound, branches, retained, mergeRefs>>
\* BeginPullRequestMerge, unless the intent was read.
BeginPullRequestMerge ==
    /\ pc = "begin"
    /\ stage' = [stage EXCEPT ![pair] = "preparing"]
    /\ created' = [created EXCEPT ![pair] = plan.created]
    /\ Forget(pair)                                          \* updated_at is created_at
    /\ Goto("savePlan")
    /\ UNCHANGED <<requestRow, title, result, bound, branches, retained, mergeRefs>>

\* UpdatePullRequestMergeIntent with the plan.
SavePlan ==
    /\ pc = "savePlan"
    /\ stage' = [stage EXCEPT ![pair] = "planned"]
    /\ result' = [result EXCEPT ![pair] = plan.result]
    /\ Touch({pair})
    /\ Goto("result")
    /\ UNCHANGED <<requestRow, title, created, bound, branches, retained, mergeRefs>>

\* ensureMergeResult: the same commit as recorded before, protected by the
\* result ref, which is created only while the branches are at the pair.
EnsureMergeResult ==
    /\ pc = "result"
    /\ LET required == RequiredResult(pair, plan.result, plan.created) IN
         /\ plan.result \in {NoCommit, required}
         /\ Method[pair] = "merge_commit" => pair \in treeRef
         /\ resultRef[pair] = required \/ (resultRef[pair] = NoCommit /\ Current(pair))
         /\ resultRef' = [resultRef EXCEPT ![pair] = required]
         /\ GotoWith(IF plan.stage = "ready" THEN "publish" ELSE "saveReady",
                     [stage |-> plan.stage, result |-> required, created |-> plan.created])
    /\ UNCHANGED <<records, branches, retained, treeRef, receipt, published>>

\* UpdatePullRequestMergeIntent with the result.
SaveReady ==
    /\ pc = "saveReady"
    /\ stage' = [stage EXCEPT ![pair] = "ready"]
    /\ result' = [result EXCEPT ![pair] = plan.result]
    /\ Touch({pair})
    /\ GotoWith("publish", [stage |-> "ready", result |-> plan.result, created |-> plan.created])
    /\ UNCHANGED <<requestRow, title, created, bound, branches, retained, mergeRefs>>

\* publishMerge: one ref transaction verifies the source, moves the target and
\* creates the receipt.  Merge then looks for the receipt, whether or not the
\* transaction was reported to succeed.
PublishMerge ==
    /\ pc = "publish"
    /\ Current(pair) /\ receipt = NoCommit /\ ObjectsAreProtected(pair)
    /\ target' = IF Method[pair] = "up_to_date" THEN target ELSE plan.result
    /\ receipt' = plan.result
    /\ published' = pair
    /\ Goto("reconcile")
    /\ UNCHANGED <<records, source, retained, treeRef, resultRef>>
PublishIsRefused ==
    /\ pc = "publish"
    /\ Goto("reconcile")
    /\ UNCHANGED <<records, branches, retained, mergeRefs>>

\* reconcileIntentLocked after the publication.
ReconcileIntent ==
    /\ pc = "reconcile"
    /\ \/ IsPublished(pair) /\ CompletePullRequestMerge(pair)
       \/ IsNotPublished(pair) /\ UNCHANGED records
    /\ Return
    /\ UNCHANGED <<branches, retained, mergeRefs>>

\* A step fails, or its effect is there but it is reported as failed, or it
\* finds what it refuses.  The operation returns its error.
Fail ==
    /\ pc \in RequestPcs
    /\ Return
    /\ UNCHANGED <<records, branches, retained, mergeRefs>>
-----------------------------------------------------------------------------
(* Stops, restarts, preparation, and Git commands outside OwnGit. *)

Stop ==
    /\ pc # "down"
    /\ pc' = "down" /\ kind' = "none" /\ pair' = NoPair /\ plan' = NoPlan
    /\ UNCHANGED <<records, branches, retained, mergeRefs, computer>>

\* The repository is not served before its preparation succeeds.
Start ==
    /\ pc = "down"
    /\ zone' \in Zones
    /\ pc' = "locked"
    /\ UNCHANGED <<records, branches, retained, mergeRefs, clock, turnedBack, kind, pair, plan>>
PrepareAttempt ==
    /\ pc = "locked"
    /\ Goto("repair")
    /\ UNCHANGED <<records, branches, retained, mergeRefs>>
PreparationFails ==
    /\ pc \in RecoveryPcs
    /\ Goto("locked")
    /\ UNCHANGED <<records, branches, retained, mergeRefs>>

\* ensureStoredRevisionRefs of each recorded revision.
EnsureStoredRevisionRefs ==
    /\ pc = "repair"
    /\ \E p \in bound \ retained : retained' = retained \cup {p}
    /\ UNCHANGED <<records, branches, mergeRefs, computer, process>>
RevisionRefsStored ==
    /\ pc = "repair"
    /\ bound \subseteq retained
    /\ Goto("recover")
    /\ UNCHANGED <<records, branches, retained, mergeRefs>>

MutantRecovered ==                                          \* looks at no ready intent
    /\ pc = "recover"
    /\ Goto("idle")
    /\ UNCHANGED <<records, branches, retained, mergeRefs>>
\* Every ready intent left is unpublished, and the objects of every planned
\* one are protected: the repository is served.
Recovered ==
    /\ pc = "recover"
    /\ \A p \in Pairs : /\ stage[p] = "ready" => IsNotPublished(p)
                        /\ stage[p] = "planned" => ObjectsAreProtected(p)
    /\ Goto("idle")
    /\ UNCHANGED <<records, branches, retained, mergeRefs>>

MoveBranch ==
    /\ \/ source' \in SourceCommits /\ UNCHANGED target
       \/ target' \in TargetCommits /\ UNCHANGED source
    /\ UNCHANGED <<records, retained, mergeRefs, computer, process>>

\* A command of the owner deletes revision refs while the server is stopped.
LoseRevisionRefs ==
    /\ pc = "down"
    /\ \E p \in retained : retained' = retained \ {p}
    /\ UNCHANGED <<records, branches, mergeRefs, computer, process>>

\* Time passes, or the clock is set, back as well.
ClockMoves ==
    /\ clock' \in Times \ {clock}
    /\ turnedBack' = (turnedBack \/ clock' < clock)
    /\ UNCHANGED <<records, branches, retained, mergeRefs, zone, process>>

Step ==
    \/ \E p \in Pairs : StartMerge(p) \/ StartReview(p)
    \/ StartClose \/ Reopen \/ Edit
    \/ NothingWasPublished \/ SetPullRequestClosed
    \/ CheckHeads \/ EnsureRevisionRefs \/ RecordPullRequestRevision
    \/ DiscardSupersededPlan \/ PlansDiscarded \/ LoadIntent \/ PlanMerge
    \/ BeginPullRequestMerge \/ SavePlan \/ EnsureMergeResult \/ SaveReady
    \/ PublishMerge \/ PublishIsRefused \/ ReconcileIntent \/ Fail
Recovery ==
    \/ CompletePublishedMerge \/ Start \/ PrepareAttempt \/ PreparationFails
    \/ EnsureStoredRevisionRefs \/ RevisionRefsStored \/ Recovered
Next == Step \/ Recovery \/ Stop \/ MoveBranch \/ LoseRevisionRefs \/ ClockMoves

Spec == Init /\ [][Next]_vars
-----------------------------------------------------------------------------
(* Properties. *)

TypeOK ==
    /\ status \in {"open", "closed", "merged"}
    /\ merged \in Pairs \cup {NoPair} /\ mergeOID \in Commits \cup {NoCommit}
    /\ title \in Titles
    /\ stage \in [Pairs -> Stages]
    /\ result \in [Pairs -> Commits \cup {NoCommit}]
    /\ created \in [Pairs -> Times \cup {0}]
    /\ bound \subseteq Pairs /\ retained \subseteq Pairs /\ treeRef \subseteq Pairs
    /\ source \in SourceCommits /\ target \in Commits
    /\ resultRef \in [Pairs -> Commits \cup {NoCommit}]
    /\ receipt \in Commits \cup {NoCommit}
    /\ published \in Pairs \cup {NoPair}
    /\ backdated \subseteq Pairs \cup {Request}
    /\ zone \in Zones /\ clock \in Times /\ turnedBack \in BOOLEAN
    /\ pc \in PcValues /\ kind \in {"none", "merge", "close", "review"}
    /\ pair \in Pairs \cup {NoPair}
    /\ plan \in Plans \cup {NoPlan}

\* No pull request has two merge intents: the plan for another pair is gone
\* before one is recorded.
OneIntent == \A p, q \in Pairs : stage[p] # "none" /\ stage[q] # "none" => p = q

\* A request works on an open pull request; past its start no merge is
\* published, past the binding its pair is recorded, and past the discarding
\* no other pair has an intent.
UnpublishedPcs == RequestPcs \ {"published", "reconcile", "bindRefs", "bindRow"}
BoundPcs == RequestPcs \ {"published", "close", "heads", "bindRefs", "bindRow"}
PlannedPcs == BoundPcs \ {"discard"}
RequestInvariant ==
    /\ pc \in RequestPcs => status = "open"
    /\ pc \in UnpublishedPcs => receipt = NoCommit
    /\ pc \in {"bindRefs", "bindRow"} /\ kind = "merge" => receipt = NoCommit
    /\ pc = "published" => kind = "close" \/ (kind = "merge" /\ pair \in Pairs)
    /\ pc = "close" => kind = "close"
    /\ pc = "heads" => kind = "merge" /\ pair \in Pairs
    /\ pc \in {"bindRefs", "bindRow"} => kind \in {"merge", "review"} /\ pair \in Pairs
    /\ pc \in BoundPcs => kind = "merge" /\ pair \in bound
    /\ pc \in PlannedPcs => Superseded = {}

\* The local copy of the intent is the recorded one, and what it says of the
\* refs is true.
PlanInvariant ==
    /\ pc = "load" => stage[pair] # "complete"
    /\ pc \in {"plan", "begin"} =>
        stage[pair] \in {"none", "preparing"} /\ result[pair] = NoCommit
    /\ pc \in {"begin", "savePlan"} =>
        /\ plan.stage = "planned"
        /\ plan.result = IF Method[pair] = "merge_commit" THEN NoCommit ELSE ExistingResult(pair)
        /\ Method[pair] # "conflict"
        /\ Method[pair] = "merge_commit" => pair \in treeRef
    /\ pc = "savePlan" => stage[pair] = "preparing"
    /\ pc = "result" => stage[pair] = plan.stage /\ stage[pair] \in {"planned", "ready"} /\ result[pair] = plan.result
    /\ pc = "saveReady" => stage[pair] = "planned" /\ resultRef[pair] = plan.result /\ plan.result # NoCommit
    /\ pc \in {"publish", "reconcile"} =>
        stage[pair] = "ready" /\ result[pair] = plan.result /\ plan.result # NoCommit
    /\ pc \in PlannedPcs \ {"load"} => plan \in Plans

RefsAreOf(p) ==
    /\ resultRef[p] # NoCommit =>
        IF Method[p] = "merge_commit" THEN resultRef[p] \in MergeCommits /\ resultRef[p].pair = p
        ELSE resultRef[p] = ExistingResult(p)
IntentInvariant ==
    /\ OneIntent
    /\ \A p \in Pairs :
        /\ stage[p] # "none" => p \in bound /\ created[p] \in Times
        /\ stage[p] \in {"none", "preparing"} => result[p] = NoCommit
        /\ stage[p] \in {"planned", "ready", "complete"} => ObjectsAreProtected(p)
        /\ stage[p] = "complete" <=> (status = "merged" /\ merged = p)
        /\ RefsAreOf(p)

ReceiptInvariant ==
    /\ receipt = NoCommit <=> published = NoPair
    /\ published # NoPair =>
        /\ stage[published] \in {"ready", "complete"} /\ result[published] = receipt
        /\ status \in {"open", "merged"}
    /\ status = "merged" => merged = published /\ merged \in Pairs /\ mergeOID = receipt
    /\ status # "merged" => merged = NoPair /\ mergeOID = NoCommit

\* Recorded revisions have their refs whenever the repository is served.
RetentionInvariant ==
    /\ pc \notin {"down", "locked", "repair"} => bound \subseteq retained
    /\ pc = "bindRow" => pair \in retained

\* As long as nobody turns the clock back, nothing is from its future, and no row
\* is updated before it was made.
ClockInvariant ==
    ~turnedBack =>
        /\ OpenedAt <= clock /\ \A p \in Pairs : created[p] <= clock
        /\ pc \in PlannedPcs \ {"load"} => plan.created <= clock
        /\ backdated = {}

\* The inductive invariant of the merge.
MergeInvariant ==
    /\ TypeOK
    /\ RequestInvariant
    /\ PlanInvariant
    /\ IntentInvariant
    /\ ReceiptInvariant
    /\ RetentionInvariant
    /\ ClockInvariant

\* A receipt belongs to exactly one intent, that of the pair it was created
\* for: recovery can tell what Git published although plans for other pairs
\* lead to the same commit.
ReceiptHasOneOwner == receipt # NoCommit => ReceiptOwners = {published}

\* Wherever the server stopped, recovery finds nothing that it must refuse,
\* so a repository is never locked by its own pull requests.
RecoveryRefusesNothing ==
    \A p \in Pairs :
        /\ stage[p] = "ready" => IsPublished(p) \/ IsNotPublished(p)
        /\ stage[p] = "planned" => ObjectsAreProtected(p)
        /\ stage[p] = "ready" /\ IsPublished(p) => status = "open" \/ (merged = p /\ mergeOID = result[p])

\* What ValidatePullRequestRecovery requires of a backup: of the intents, the
\* revisions and the merge it holds of the records in every state, wherever the
\* server stopped; of the times it holds until the clock is turned back.  From then
\* on the writes that touch a row without regard to its created_at (an activation,
\* a review, a step of a merge) may leave one that every backup refuses.
BackupIsAccepted ==
    /\ \A p \in Pairs : stage[p] # "none" => p \in bound
    /\ \A p, q \in Pairs : stage[p] = "complete" /\ stage[q] = "complete" => p = q
    /\ \A p \in Pairs : stage[p] = "complete" => status = "merged"
    /\ status = "merged" =>
        \E p \in Pairs : stage[p] = "complete" /\ merged = p /\ mergeOID = result[p]
    /\ \A p \in Pairs :
        /\ stage[p] = "preparing" => result[p] = NoCommit
        /\ stage[p] = "planned" =>
            result[p] = IF Method[p] = "merge_commit" THEN NoCommit ELSE ExistingResult(p)
        /\ stage[p] \in {"ready", "complete"} => result[p] # NoCommit
    /\ backdated = {} \/ turnedBack

\* Every recorded revision is protected by refs while the repository is
\* served, whatever was deleted while it was stopped.
ServedRevisionsAreRetained == pc \in {"idle"} \cup RequestPcs => bound \subseteq retained

\* A merge that starts again makes the commit that an earlier attempt left in
\* the result ref, as mergeCommitDate says ("so a retry recreates the same
\* commit after a time zone change"); otherwise it is refused for good.
RetryRecreatesTheCommit ==
    pc = "result" /\ resultRef[pair] # NoCommit =>
        resultRef[pair] = RequiredResult(pair, plan.result, plan.created)

Outcome == INSTANCE PullRequestOutcome

\* The merge implements what a pull request promises about its outcome: Git
\* publishes at most one merge of it, which is the one that is recorded, and a
\* published merge is never closed over.
ImplementsOutcome == Outcome!OutcomeSpec

\* A stopped server is started again, and preparation is tried until it
\* succeeds: a step that is tried again and again does not always fail.
FairSpec ==
    /\ Spec
    /\ WF_vars(Start) /\ WF_vars(PrepareAttempt)
    /\ SF_vars(EnsureStoredRevisionRefs) /\ SF_vars(RevisionRefsStored)
    /\ SF_vars(CompletePublishedMerge) /\ SF_vars(Recovered)
StopsEnd == <>[][~Stop]_vars

\* A merge that Git published before the server stopped is recorded as merged
\* once the server stays up, although nobody asks for it again.
PublishedMergeIsRecorded == StopsEnd => (pc = "down" /\ receipt # NoCommit ~> status = "merged")

=============================================================================
