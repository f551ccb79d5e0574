------------------------ MODULE PullRequestMergeProofs ----------------------
(***************************************************************************)
(* Proofs about PullRequestMerge: MergeInvariant is inductive, part by     *)
(* part, and the properties of the merge follow from it.                   *)
(***************************************************************************)
EXTENDS PullRequestMerge, TLAPS

USE CommitAssumption, MethodAssumption, NoCommitAssumption, TimeAssumption

\* Pairs and commits.
LEMMA PairFacts ==
  /\ NoPair \notin Pairs
  /\ \A s \in SourceCommits, t \in TargetCommits : <<s, t>> \in Pairs
  /\ \A p \in Pairs : p[1] \in SourceCommits /\ p[2] \in TargetCommits
  /\ \A p \in Pairs : p = <<p[1], p[2]>>
  BY DEF Pairs, NoPair

\* NoCommit is no commit, and every commit is of one of the three kinds.
LEMMA CommitFacts ==
  /\ NoCommit \notin Commits
  /\ SourceCommits \subseteq Commits /\ TargetCommits \subseteq Commits /\ MergeCommits \subseteq Commits
  /\ \A p \in Pairs : ExistingResult(p) \in Commits
  BY PairFacts DEF Commits, ExistingResult

\* The merge commit that createMergeCommit makes is a merge commit of its pair.
LEMMA MergeCommitFacts ==
  /\ \A p \in Pairs, n \in Titles, t \in Times, z \in Zones :
       /\ [pair |-> p, title |-> n, created |-> t, zone |-> z] \in MergeCommits
       /\ [pair |-> p, title |-> n, created |-> t, zone |-> z].pair = p
  /\ \A c \in MergeCommits : c.zone \in Zones /\ c.pair \in Pairs
  BY DEF MergeCommits

\* What a local plan is made of.
LEMMA PlanFacts ==
  /\ \A s \in {"preparing", "planned", "ready"}, r \in Commits \cup {NoCommit}, t \in Times :
       [stage |-> s, result |-> r, created |-> t] \in Plans
  /\ \A l \in Plans : /\ l.stage \in {"preparing", "planned", "ready"}
                      /\ l.result \in Commits \cup {NoCommit} /\ l.created \in Times
  BY DEF Plans

\* A request that changes anything works on a pair of the pull request.
LEMMA PairIsKnown ==
  ASSUME TypeOK, RequestInvariant,
         pc \in BoundPcs \/ pc \in {"heads", "bindRefs", "bindRow"}
  PROVE  pair \in Pairs
  BY DEF TypeOK, RequestInvariant, BoundPcs

\* Its local plan is a plan, and the result it requires is a commit.
LEMMA PlanIsKnown ==
  ASSUME MergeInvariant, pc \in PlannedPcs \ {"load"}
  PROVE  /\ pair \in Pairs /\ plan \in Plans
         /\ plan.stage \in {"preparing", "planned", "ready"}
         /\ plan.result \in Commits \cup {NoCommit} /\ plan.created \in Times
<1>1. pair \in Pairs
  BY PairIsKnown DEF MergeInvariant, PlannedPcs
<1>2. plan \in Plans
  BY DEF MergeInvariant, PlanInvariant
<1> QED
  BY <1>1, <1>2, PlanFacts

\* The result that a plan requires is a commit, for a merge commit one of its
\* own pair.
LEMMA RequiredResultType ==
  ASSUME MergeInvariant, pc = "result"
  PROVE  /\ RequiredResult(pair, plan.result, plan.created) \in Commits
         /\ Method[pair] = "merge_commit" =>
              /\ RequiredResult(pair, plan.result, plan.created) \in MergeCommits
              /\ RequiredResult(pair, plan.result, plan.created).pair = pair
<1>1. pair \in Pairs /\ plan.created \in Times
  BY PlanIsKnown DEF PlannedPcs, BoundPcs, RequestPcs
<1>2. CASE Method[pair] # "merge_commit"
  BY <1>1, <1>2, CommitFacts DEF RequiredResult
<1>3. CASE Method[pair] = "merge_commit"
  <2>1. plan.result # NoCommit => plan.result = resultRef[pair]
    BY <1>1, <1>3 DEF MergeInvariant, PlanInvariant, IntentInvariant, ObjectsAreProtected,
       MergeCommitIsProtected, ResultIsRequired
  <2>2. resultRef[pair] # NoCommit => resultRef[pair] \in MergeCommits
    BY <1>1, <1>3 DEF MergeInvariant, IntentInvariant, RefsAreOf
  <2>3. title \in Titles /\ zone \in Zones
    BY DEF MergeInvariant, TypeOK
  <2>4. Offset(pair, plan.result) \in Zones
    BY <2>1, <2>2, <2>3, MergeCommitFacts DEF Offset
  <2> QED
    BY <1>1, <1>3, <2>3, <2>4, MergeCommitFacts, CommitFacts DEF RequiredResult, MergeCommit
<1> QED
  BY <1>2, <1>3

\* Times are numbers.
LEMMA TimesAreNumbers ==
  ASSUME TypeOK
  PROVE  clock \in Nat /\ OpenedAt \in Nat /\ \A p \in Pairs : created[p] \in Nat
<1>1. created \in [Pairs -> Times \cup {0}] /\ clock \in Times
  BY DEF TypeOK
<1>2. Times \cup {0} \subseteq Nat
  OBVIOUS
<1>3. \A p \in Pairs : created[p] \in Nat
  BY <1>1, <1>2
<1> QED
  BY <1>1, <1>2, <1>3

\* The intent that Merge loads is a plan.
LEMMA LoadedPlan ==
  ASSUME MergeInvariant, LoadIntent PROVE plan' \in Plans
<1>1. pair \in Pairs
  BY PairIsKnown DEF MergeInvariant, LoadIntent, BoundPcs, RequestPcs
<1>2. ASSUME plan' = [stage |-> "preparing", result |-> NoCommit, created |-> clock]
      PROVE plan' \in Plans
  BY <1>2, PlanFacts DEF MergeInvariant, TypeOK
<1>3. ASSUME stage[pair] \in {"preparing", "planned", "ready"},
             plan' = [stage |-> stage[pair], result |-> result[pair], created |-> created[pair]]
      PROVE plan' \in Plans
  <2>1. result[pair] \in Commits \cup {NoCommit} /\ created[pair] \in Times
    BY <1>1, <1>3 DEF MergeInvariant, TypeOK, IntentInvariant
  <2> QED
    BY <1>3, <2>1, PlanFacts
<1> QED
  BY <1>2, <1>3 DEF LoadIntent, GotoWith

\* The receipt belongs to the intent of the pair it was created for, and to no
\* other: there is no other intent.
LEMMA OwnersOfReceipt ==
  ASSUME MergeInvariant, receipt # NoCommit
  PROVE  ReceiptOwners = {published} /\ published \in Pairs
<1>1. published \in Pairs
  BY DEF MergeInvariant, TypeOK, ReceiptInvariant
<1>2. published \in ReceiptOwners
  BY <1>1 DEF MergeInvariant, ReceiptInvariant, IntentInvariant, ReceiptOwners
<1>3. ASSUME NEW p \in ReceiptOwners PROVE p = published
  BY <1>1, <1>3 DEF ReceiptOwners, MergeInvariant, ReceiptInvariant, IntentInvariant, OneIntent
<1> QED
  BY <1>1, <1>2, <1>3

\* A ready intent that validateReceipt finds unpublished shows that nothing
\* was published.
LEMMA NothingIsPublished ==
  ASSUME MergeInvariant, status = "open",
         \A p \in Pairs : stage[p] = "ready" => IsNotPublished(p)
  PROVE  receipt = NoCommit
<1> SUFFICES ASSUME receipt # NoCommit PROVE FALSE
  OBVIOUS
<1>1. ReceiptOwners = {published} /\ published \in Pairs
  BY OwnersOfReceipt
<1>2. stage[published] = "ready"
  BY <1>1 DEF MergeInvariant, ReceiptInvariant, IntentInvariant
<1>3. \E q \in Pairs \ {published} : ReceiptOwners = {q}
  BY <1>1, <1>2 DEF IsNotPublished
<1> QED
  BY <1>1, <1>3

\* Every step keeps the types.
LEMMA TypeStep == ASSUME MergeInvariant, [Next]_vars PROVE TypeOK'
<1> USE PairFacts, CommitFacts, PlanFacts DEF MergeInvariant, TypeOK, Stages, records,
   intentRows, requestRow, branches, mergeRefs, computer, process, Goto, Return, GotoWith, RequestPcs,
   RecoveryPcs, PcValues, UnpublishedPcs, BoundPcs, PlannedPcs
<1>1. ASSUME NEW p \in Pairs, StartMerge(p) \/ StartReview(p) PROVE TypeOK'
  BY <1>1 DEF StartMerge, StartReview, Begin
<1>2. CASE StartClose
  BY <1>2 DEF StartClose, Begin
<1>3. CASE Reopen
  BY <1>3 DEF Reopen, Touch, Raise, Forget
<1>4. CASE Edit
  BY <1>4 DEF Edit, Touch, Raise, Forget
<1>5. CASE NothingWasPublished
  BY <1>5 DEF NothingWasPublished
<1>6. CASE SetPullRequestClosed
  BY <1>6 DEF SetPullRequestClosed, Touch, Raise, Forget
<1>7. CASE CheckHeads
  BY <1>7 DEF CheckHeads
<1>8. CASE EnsureRevisionRefs
  BY <1>8, PairIsKnown DEF EnsureRevisionRefs
<1>9. CASE RecordPullRequestRevision
  BY <1>9, PairIsKnown DEF RecordPullRequestRevision, Touch, Raise, Forget
<1>10. CASE DiscardSupersededPlan
  BY <1>10, PairIsKnown DEF DiscardSupersededPlan, Superseded, Touch, Raise, Forget
<1>11. CASE PlansDiscarded
  BY <1>11 DEF PlansDiscarded
<1>12. CASE LoadIntent
  BY <1>12, PairIsKnown, LoadedPlan DEF LoadIntent
<1>13. CASE PlanMerge
  BY <1>13, PlanIsKnown DEF PlanMerge
<1>14. CASE BeginPullRequestMerge
  BY <1>14, PlanIsKnown DEF BeginPullRequestMerge, Touch, Raise, Forget
<1>15. CASE SavePlan
  BY <1>15, PlanIsKnown DEF SavePlan, Touch, Raise, Forget
<1>16. CASE EnsureMergeResult
  BY <1>16, PlanIsKnown, RequiredResultType DEF EnsureMergeResult
<1>17. CASE SaveReady
  BY <1>17, PlanIsKnown DEF SaveReady, Touch, Raise, Forget
<1>18. CASE PublishMerge
  BY <1>18, PlanIsKnown DEF PublishMerge, PlanInvariant
<1>19. CASE PublishIsRefused
  BY <1>19 DEF PublishIsRefused
<1>20. CASE ReconcileIntent
  BY <1>20, PairIsKnown DEF ReconcileIntent, CompletePullRequestMerge, Touch, Raise, Forget
<1>21. CASE Fail
  BY <1>21 DEF Fail
<1>22. CASE CompletePublishedMerge
  BY <1>22, PairIsKnown DEF CompletePublishedMerge, CompletePullRequestMerge, Touch, Raise, Forget
<1>23. CASE Start
  BY <1>23 DEF Start
<1>24. CASE PrepareAttempt
  BY <1>24 DEF PrepareAttempt
<1>25. CASE PreparationFails
  BY <1>25 DEF PreparationFails
<1>26. CASE EnsureStoredRevisionRefs
  BY <1>26 DEF EnsureStoredRevisionRefs
<1>27. CASE RevisionRefsStored
  BY <1>27 DEF RevisionRefsStored
<1>28. CASE Recovered
  BY <1>28 DEF Recovered
<1>29. CASE Stop
  BY <1>29 DEF Stop
<1>30. CASE MoveBranch
  BY <1>30 DEF MoveBranch
<1>31. CASE LoseRevisionRefs
  BY <1>31 DEF LoseRevisionRefs
<1>32. CASE UNCHANGED vars
  BY <1>32 DEF vars
<1>33. CASE ClockMoves
  BY <1>33 DEF ClockMoves
<1> QED
  BY <1>1, <1>2, <1>3, <1>4, <1>5, <1>6, <1>7, <1>8, <1>9, <1>10, <1>11, <1>12, <1>13, <1>14,
     <1>15, <1>16, <1>17, <1>18, <1>19, <1>20, <1>21, <1>22, <1>23, <1>24, <1>25, <1>26, <1>27,
        <1>28, <1>29, <1>30, <1>31, <1>32, <1>33
     DEF Next, Step, Recovery

\* Every step keeps what a request has established.
LEMMA RequestStep == ASSUME MergeInvariant, [Next]_vars PROVE RequestInvariant'
<1> USE DEF MergeInvariant, RequestInvariant, TypeOK, Superseded, records, intentRows,
   requestRow, branches, mergeRefs, computer, process, Goto, Return, GotoWith, RequestPcs, RecoveryPcs,
   PcValues, UnpublishedPcs, BoundPcs, PlannedPcs
<1>1. ASSUME NEW p \in Pairs, StartMerge(p) \/ StartReview(p) PROVE RequestInvariant'
  BY <1>1 DEF StartMerge, StartReview, Begin
<1>2. CASE StartClose
  BY <1>2 DEF StartClose, Begin
<1>3. CASE Reopen
  BY <1>3 DEF Reopen
<1>4. CASE Edit
  BY <1>4 DEF Edit
<1>5. CASE NothingWasPublished
  BY <1>5, NothingIsPublished DEF NothingWasPublished
<1>6. CASE SetPullRequestClosed
  BY <1>6 DEF SetPullRequestClosed
<1>7. CASE CheckHeads
  BY <1>7 DEF CheckHeads
<1>8. CASE EnsureRevisionRefs
  BY <1>8 DEF EnsureRevisionRefs
<1>9. CASE RecordPullRequestRevision
  BY <1>9 DEF RecordPullRequestRevision
<1>10. CASE DiscardSupersededPlan
  BY <1>10 DEF DiscardSupersededPlan
<1>11. CASE PlansDiscarded
  BY <1>11, PairIsKnown DEF PlansDiscarded
<1>12. CASE LoadIntent
  BY <1>12, PairIsKnown DEF LoadIntent
<1>13. CASE PlanMerge
  BY <1>13 DEF PlanMerge
<1>14. CASE BeginPullRequestMerge
  BY <1>14, PlanIsKnown DEF BeginPullRequestMerge
<1>15. CASE SavePlan
  BY <1>15, PlanIsKnown DEF SavePlan
<1>16. CASE EnsureMergeResult
  BY <1>16 DEF EnsureMergeResult
<1>17. CASE SaveReady
  BY <1>17, PlanIsKnown DEF SaveReady
<1>18. CASE PublishMerge
  BY <1>18 DEF PublishMerge
<1>19. CASE PublishIsRefused
  BY <1>19 DEF PublishIsRefused
<1>20. CASE ReconcileIntent
  BY <1>20 DEF ReconcileIntent, CompletePullRequestMerge
<1>21. CASE Fail
  BY <1>21 DEF Fail
<1>22. CASE CompletePublishedMerge
  BY <1>22 DEF CompletePublishedMerge, CompletePullRequestMerge
<1>23. CASE Start
  BY <1>23 DEF Start
<1>24. CASE PrepareAttempt
  BY <1>24 DEF PrepareAttempt
<1>25. CASE PreparationFails
  BY <1>25 DEF PreparationFails
<1>26. CASE EnsureStoredRevisionRefs
  BY <1>26 DEF EnsureStoredRevisionRefs
<1>27. CASE RevisionRefsStored
  BY <1>27 DEF RevisionRefsStored
<1>28. CASE Recovered
  BY <1>28 DEF Recovered
<1>29. CASE Stop
  BY <1>29 DEF Stop
<1>30. CASE MoveBranch
  BY <1>30 DEF MoveBranch
<1>31. CASE LoseRevisionRefs
  BY <1>31 DEF LoseRevisionRefs
<1>32. CASE UNCHANGED vars
  BY <1>32 DEF vars
<1>33. CASE ClockMoves
  BY <1>33 DEF ClockMoves
<1> QED
  BY <1>1, <1>2, <1>3, <1>4, <1>5, <1>6, <1>7, <1>8, <1>9, <1>10, <1>11, <1>12, <1>13, <1>14,
     <1>15, <1>16, <1>17, <1>18, <1>19, <1>20, <1>21, <1>22, <1>23, <1>24, <1>25, <1>26, <1>27,
        <1>28, <1>29, <1>30, <1>31, <1>32, <1>33
     DEF Next, Step, Recovery

\* Every step keeps the local plan and the records in step.
LEMMA PlanStep == ASSUME MergeInvariant, [Next]_vars PROVE PlanInvariant'
<1> USE DEF MergeInvariant, PlanInvariant, TypeOK, records, intentRows, requestRow, branches,
   mergeRefs, computer, process, Goto, Return, GotoWith, RequestPcs, RecoveryPcs, PcValues, UnpublishedPcs,
   BoundPcs, PlannedPcs
<1>1. ASSUME NEW p \in Pairs, StartMerge(p) \/ StartReview(p) PROVE PlanInvariant'
  BY <1>1 DEF StartMerge, StartReview, Begin
<1>2. CASE StartClose
  BY <1>2 DEF StartClose, Begin
<1>3. CASE Reopen
  BY <1>3 DEF Reopen
<1>4. CASE Edit
  BY <1>4 DEF Edit
<1>5. CASE NothingWasPublished
  BY <1>5 DEF NothingWasPublished
<1>6. CASE SetPullRequestClosed
  BY <1>6 DEF SetPullRequestClosed
<1>7. CASE CheckHeads
  BY <1>7 DEF CheckHeads
<1>8. CASE EnsureRevisionRefs
  BY <1>8 DEF EnsureRevisionRefs
<1>9. CASE RecordPullRequestRevision
  BY <1>9 DEF RecordPullRequestRevision
<1>10. CASE DiscardSupersededPlan
  BY <1>10 DEF DiscardSupersededPlan, Superseded
<1>11. CASE PlansDiscarded
  BY <1>11, PairIsKnown DEF PlansDiscarded, RequestInvariant, IntentInvariant
<1>12. CASE LoadIntent
  BY <1>12, PairIsKnown, LoadedPlan DEF LoadIntent, RequestInvariant, IntentInvariant, Superseded
<1>13. CASE PlanMerge
  BY <1>13, PlanIsKnown, PlanFacts, CommitFacts DEF PlanMerge
<1>14. CASE BeginPullRequestMerge
  BY <1>14, PlanIsKnown DEF BeginPullRequestMerge
<1>15. CASE SavePlan
  BY <1>15, PlanIsKnown DEF SavePlan
<1>16. CASE EnsureMergeResult
  <2> DEFINE required == RequiredResult(pair, plan.result, plan.created)
  <2>1. pair \in Pairs /\ plan \in Plans /\ plan.stage \in {"planned",
     "ready"} /\ plan.stage = stage[pair]
        /\ result[pair] = plan.result /\ required \in Commits /\ plan.result \in {NoCommit,
        required}
    BY <1>16, PlanIsKnown, RequiredResultType DEF EnsureMergeResult
  <2>2. stage[pair] = "ready" => plan.result # NoCommit
    BY <2>1, CommitFacts DEF IntentInvariant, ObjectsAreProtected, MergeCommitIsProtected,
       ExistingResultIsProtected, ResultIsRequired
  <2>3. plan' = [stage |-> plan.stage, result |-> required, created |-> plan.created]
        /\ pc' = (IF plan.stage = "ready" THEN "publish" ELSE "saveReady")
        /\ resultRef' = [resultRef EXCEPT ![pair] = required]
        /\ UNCHANGED <<pair, kind, stage, result, treeRef>>
    BY <1>16 DEF EnsureMergeResult
  <2>4. plan' \in Plans /\ plan'.result = required /\ resultRef'[pair] = required /\ required # NoCommit
    BY <2>1, <2>3, PlanFacts, CommitFacts DEF TypeOK
  <2> HIDE DEF required
  <2> QED
    BY <2>1, <2>2, <2>3, <2>4 DEF PlanInvariant
<1>17. CASE SaveReady
  BY <1>17, PlanIsKnown, PlanFacts, CommitFacts DEF SaveReady
<1>18. CASE PublishMerge
  BY <1>18, PlanIsKnown DEF PublishMerge
<1>19. CASE PublishIsRefused
  BY <1>19 DEF PublishIsRefused
<1>20. CASE ReconcileIntent
  BY <1>20 DEF ReconcileIntent
<1>21. CASE Fail
  BY <1>21 DEF Fail
<1>22. CASE CompletePublishedMerge
  BY <1>22 DEF CompletePublishedMerge
<1>23. CASE Start
  BY <1>23 DEF Start
<1>24. CASE PrepareAttempt
  BY <1>24 DEF PrepareAttempt
<1>25. CASE PreparationFails
  BY <1>25 DEF PreparationFails
<1>26. CASE EnsureStoredRevisionRefs
  BY <1>26 DEF EnsureStoredRevisionRefs
<1>27. CASE RevisionRefsStored
  BY <1>27 DEF RevisionRefsStored
<1>28. CASE Recovered
  BY <1>28 DEF Recovered
<1>29. CASE Stop
  BY <1>29 DEF Stop
<1>30. CASE MoveBranch
  BY <1>30 DEF MoveBranch
<1>31. CASE LoseRevisionRefs
  BY <1>31 DEF LoseRevisionRefs
<1>32. CASE UNCHANGED vars
  BY <1>32 DEF vars
<1>33. CASE ClockMoves
  BY <1>33 DEF ClockMoves
<1> QED
  BY <1>1, <1>2, <1>3, <1>4, <1>5, <1>6, <1>7, <1>8, <1>9, <1>10, <1>11, <1>12, <1>13, <1>14,
     <1>15, <1>16, <1>17, <1>18, <1>19, <1>20, <1>21, <1>22, <1>23, <1>24, <1>25, <1>26, <1>27,
        <1>28, <1>29, <1>30, <1>31, <1>32, <1>33
     DEF Next, Step, Recovery

\* A step that leaves the intents and their refs alone keeps what is said of
\* them; more revisions may be bound.
IntentFrame ==
  /\ UNCHANGED <<stage, result, created, treeRef, resultRef>> /\ bound \subseteq bound'
  /\ UNCHANGED <<status, merged>> \/ (status # "merged" /\ status' # "merged")

\* Such a step keeps IntentInvariant.
LEMMA FrameKeepsIntents == ASSUME IntentInvariant, IntentFrame PROVE IntentInvariant'
  BY DEF IntentInvariant, IntentFrame, OneIntent, ObjectsAreProtected, MergeCommitIsProtected,
         ExistingResultIsProtected, ResultIsRequired, RefsAreOf

\* Every step keeps the intents and the refs that protect their objects.
LEMMA IntentStep == ASSUME MergeInvariant, [Next]_vars PROVE IntentInvariant'
<1> USE FrameKeepsIntents DEF MergeInvariant, IntentFrame, records, intentRows, requestRow,
   branches, mergeRefs, computer, process, Goto, Return, GotoWith, RequestPcs, RecoveryPcs, PcValues,
   UnpublishedPcs, BoundPcs, PlannedPcs
<1>1. ASSUME NEW p \in Pairs, StartMerge(p) \/ StartReview(p) PROVE IntentInvariant'
  BY <1>1 DEF StartMerge, StartReview, Begin
<1>2. CASE StartClose
  BY <1>2 DEF StartClose, Begin
<1>3. CASE Reopen
  BY <1>3 DEF Reopen
<1>4. CASE Edit
  BY <1>4 DEF Edit
<1>5. CASE NothingWasPublished
  BY <1>5 DEF NothingWasPublished
<1>6. CASE SetPullRequestClosed
  BY <1>6 DEF SetPullRequestClosed
<1>7. CASE CheckHeads
  BY <1>7 DEF CheckHeads
<1>8. CASE EnsureRevisionRefs
  BY <1>8 DEF EnsureRevisionRefs
<1>9. CASE RecordPullRequestRevision
  BY <1>9 DEF RecordPullRequestRevision
<1>10. CASE DiscardSupersededPlan
  BY <1>10, PlanIsKnown, RequiredResultType, CommitFacts DEF DiscardSupersededPlan,
     PlanInvariant, RequestInvariant, TypeOK, Superseded, IntentInvariant, OneIntent,
     ObjectsAreProtected, MergeCommitIsProtected, ExistingResultIsProtected, ResultIsRequired,
     RefsAreOf
<1>11. CASE PlansDiscarded
  BY <1>11 DEF PlansDiscarded
<1>12. CASE LoadIntent
  BY <1>12 DEF LoadIntent
<1>13. CASE PlanMerge
  BY <1>13, PlanIsKnown, RequiredResultType, CommitFacts DEF PlanMerge, PlanInvariant,
     RequestInvariant, TypeOK, Superseded, IntentInvariant, OneIntent, ObjectsAreProtected,
     MergeCommitIsProtected, ExistingResultIsProtected, ResultIsRequired, RefsAreOf
<1>14. CASE BeginPullRequestMerge
  <2>1. pair \in Pairs /\ pair \in bound /\ plan.created \in Times /\ status = "open" /\ Superseded = {}
    BY <1>14, PlanIsKnown DEF BeginPullRequestMerge, RequestInvariant
  <2>2. \A p \in Pairs \ {pair} : stage[p] = "none"
    BY <2>1 DEF Superseded, TypeOK, Stages, IntentInvariant
  <2>3. result[pair] = NoCommit
    BY <1>14 DEF BeginPullRequestMerge, PlanInvariant
  <2>4. stage' = [stage EXCEPT ![pair] = "preparing"] /\ created' = [created EXCEPT ![pair] = plan.created]
        /\ UNCHANGED <<status, merged, result, bound, treeRef, resultRef>>
    BY <1>14 DEF BeginPullRequestMerge
  <2> QED
    BY <2>1, <2>2, <2>3, <2>4 DEF TypeOK, IntentInvariant, OneIntent, ObjectsAreProtected,
       MergeCommitIsProtected, ExistingResultIsProtected, ResultIsRequired, RefsAreOf
<1>15. CASE SavePlan
  BY <1>15, PlanIsKnown, RequiredResultType, CommitFacts DEF SavePlan, PlanInvariant,
     RequestInvariant, TypeOK, Superseded, IntentInvariant, OneIntent, ObjectsAreProtected,
     MergeCommitIsProtected, ExistingResultIsProtected, ResultIsRequired, RefsAreOf
<1>16. CASE EnsureMergeResult
  BY <1>16, PlanIsKnown, RequiredResultType, CommitFacts DEF EnsureMergeResult, PlanInvariant,
     RequestInvariant, TypeOK, Superseded, IntentInvariant, OneIntent, ObjectsAreProtected,
     MergeCommitIsProtected, ExistingResultIsProtected, ResultIsRequired, RefsAreOf
<1>17. CASE SaveReady
  BY <1>17, PlanIsKnown, RequiredResultType, CommitFacts DEF SaveReady, PlanInvariant,
     RequestInvariant, TypeOK, Superseded, IntentInvariant, OneIntent, ObjectsAreProtected,
     MergeCommitIsProtected, ExistingResultIsProtected, ResultIsRequired, RefsAreOf
<1>18. CASE PublishMerge
  BY <1>18 DEF PublishMerge
<1>19. CASE PublishIsRefused
  BY <1>19 DEF PublishIsRefused
<1>20. CASE ReconcileIntent
  BY <1>20, PlanIsKnown, RequiredResultType, CommitFacts DEF ReconcileIntent, PlanInvariant,
     RequestInvariant, TypeOK, Superseded, IntentInvariant, OneIntent, ObjectsAreProtected,
     MergeCommitIsProtected, ExistingResultIsProtected, ResultIsRequired, RefsAreOf,
     CompletePullRequestMerge, IsPublished
<1>21. CASE Fail
  BY <1>21 DEF Fail
<1>22. CASE CompletePublishedMerge
  BY <1>22, PlanIsKnown, RequiredResultType, CommitFacts DEF CompletePublishedMerge,
     PlanInvariant, RequestInvariant, TypeOK, Superseded, IntentInvariant, OneIntent,
     ObjectsAreProtected, MergeCommitIsProtected, ExistingResultIsProtected, ResultIsRequired,
     RefsAreOf, CompletePullRequestMerge, IsPublished
<1>23. CASE Start
  BY <1>23 DEF Start
<1>24. CASE PrepareAttempt
  BY <1>24 DEF PrepareAttempt
<1>25. CASE PreparationFails
  BY <1>25 DEF PreparationFails
<1>26. CASE EnsureStoredRevisionRefs
  BY <1>26 DEF EnsureStoredRevisionRefs
<1>27. CASE RevisionRefsStored
  BY <1>27 DEF RevisionRefsStored
<1>28. CASE Recovered
  BY <1>28 DEF Recovered
<1>29. CASE Stop
  BY <1>29 DEF Stop
<1>30. CASE MoveBranch
  BY <1>30 DEF MoveBranch
<1>31. CASE LoseRevisionRefs
  BY <1>31 DEF LoseRevisionRefs
<1>32. CASE UNCHANGED vars
  BY <1>32 DEF vars
<1>33. CASE ClockMoves
  BY <1>33 DEF ClockMoves
<1> QED
  BY <1>1, <1>2, <1>3, <1>4, <1>5, <1>6, <1>7, <1>8, <1>9, <1>10, <1>11, <1>12, <1>13, <1>14,
     <1>15, <1>16, <1>17, <1>18, <1>19, <1>20, <1>21, <1>22, <1>23, <1>24, <1>25, <1>26, <1>27,
        <1>28, <1>29, <1>30, <1>31, <1>32, <1>33
     DEF Next, Step, Recovery

\* Every step keeps the receipt, its intent and the record in agreement.
LEMMA ReceiptStep == ASSUME MergeInvariant, [Next]_vars PROVE ReceiptInvariant'
<1> USE PairFacts, CommitFacts DEF MergeInvariant, ReceiptInvariant, TypeOK, records, intentRows,
   requestRow, branches, mergeRefs, computer, process, Goto, Return, GotoWith, RequestPcs, RecoveryPcs,
   PcValues, UnpublishedPcs, BoundPcs, PlannedPcs
<1>1. ASSUME NEW p \in Pairs, StartMerge(p) \/ StartReview(p) PROVE ReceiptInvariant'
  BY <1>1 DEF StartMerge, StartReview, Begin
<1>2. CASE StartClose
  BY <1>2 DEF StartClose, Begin
<1>3. CASE Reopen
  BY <1>3 DEF Reopen
<1>4. CASE Edit
  BY <1>4 DEF Edit
<1>5. CASE NothingWasPublished
  BY <1>5 DEF NothingWasPublished
<1>6. CASE SetPullRequestClosed
  BY <1>6 DEF SetPullRequestClosed, RequestInvariant
<1>7. CASE CheckHeads
  BY <1>7 DEF CheckHeads
<1>8. CASE EnsureRevisionRefs
  BY <1>8 DEF EnsureRevisionRefs
<1>9. CASE RecordPullRequestRevision
  BY <1>9 DEF RecordPullRequestRevision
<1>10. CASE DiscardSupersededPlan
  BY <1>10 DEF DiscardSupersededPlan
<1>11. CASE PlansDiscarded
  BY <1>11 DEF PlansDiscarded
<1>12. CASE LoadIntent
  BY <1>12 DEF LoadIntent
<1>13. CASE PlanMerge
  BY <1>13 DEF PlanMerge
<1>14. CASE BeginPullRequestMerge
  BY <1>14 DEF BeginPullRequestMerge, RequestInvariant
<1>15. CASE SavePlan
  BY <1>15 DEF SavePlan, RequestInvariant
<1>16. CASE EnsureMergeResult
  BY <1>16 DEF EnsureMergeResult
<1>17. CASE SaveReady
  BY <1>17 DEF SaveReady, RequestInvariant
<1>18. CASE PublishMerge
  BY <1>18, PlanIsKnown DEF PublishMerge, PlanInvariant, RequestInvariant, IntentInvariant
<1>19. CASE PublishIsRefused
  BY <1>19 DEF PublishIsRefused
<1>20. CASE ReconcileIntent
  BY <1>20, OwnersOfReceipt DEF ReconcileIntent, IsPublished, ReceiptOwners,
     CompletePullRequestMerge, IntentInvariant, PlanInvariant
<1>21. CASE Fail
  BY <1>21 DEF Fail
<1>22. CASE CompletePublishedMerge
  BY <1>22, OwnersOfReceipt DEF CompletePublishedMerge, IsPublished, ReceiptOwners,
     CompletePullRequestMerge, IntentInvariant
<1>23. CASE Start
  BY <1>23 DEF Start
<1>24. CASE PrepareAttempt
  BY <1>24 DEF PrepareAttempt
<1>25. CASE PreparationFails
  BY <1>25 DEF PreparationFails
<1>26. CASE EnsureStoredRevisionRefs
  BY <1>26 DEF EnsureStoredRevisionRefs
<1>27. CASE RevisionRefsStored
  BY <1>27 DEF RevisionRefsStored
<1>28. CASE Recovered
  BY <1>28 DEF Recovered
<1>29. CASE Stop
  BY <1>29 DEF Stop
<1>30. CASE MoveBranch
  BY <1>30 DEF MoveBranch
<1>31. CASE LoseRevisionRefs
  BY <1>31 DEF LoseRevisionRefs
<1>32. CASE UNCHANGED vars
  BY <1>32 DEF vars
<1>33. CASE ClockMoves
  BY <1>33 DEF ClockMoves
<1> QED
  BY <1>1, <1>2, <1>3, <1>4, <1>5, <1>6, <1>7, <1>8, <1>9, <1>10, <1>11, <1>12, <1>13, <1>14,
     <1>15, <1>16, <1>17, <1>18, <1>19, <1>20, <1>21, <1>22, <1>23, <1>24, <1>25, <1>26, <1>27,
        <1>28, <1>29, <1>30, <1>31, <1>32, <1>33
     DEF Next, Step, Recovery

\* Every step keeps the recorded revisions under their refs while the
\* repository is served.
LEMMA RetentionStep == ASSUME MergeInvariant, [Next]_vars PROVE RetentionInvariant'
<1> USE DEF MergeInvariant, RetentionInvariant, TypeOK, records, intentRows, requestRow,
   branches, mergeRefs, computer, process, Goto, Return, GotoWith, RequestPcs, RecoveryPcs, PcValues,
   UnpublishedPcs, BoundPcs, PlannedPcs
<1>1. ASSUME NEW p \in Pairs, StartMerge(p) \/ StartReview(p) PROVE RetentionInvariant'
  BY <1>1 DEF StartMerge, StartReview, Begin
<1>2. CASE StartClose
  BY <1>2 DEF StartClose, Begin
<1>3. CASE Reopen
  BY <1>3 DEF Reopen
<1>4. CASE Edit
  BY <1>4 DEF Edit
<1>5. CASE NothingWasPublished
  BY <1>5 DEF NothingWasPublished
<1>6. CASE SetPullRequestClosed
  BY <1>6 DEF SetPullRequestClosed
<1>7. CASE CheckHeads
  BY <1>7 DEF CheckHeads
<1>8. CASE EnsureRevisionRefs
  BY <1>8 DEF EnsureRevisionRefs
<1>9. CASE RecordPullRequestRevision
  BY <1>9 DEF RecordPullRequestRevision
<1>10. CASE DiscardSupersededPlan
  BY <1>10 DEF DiscardSupersededPlan
<1>11. CASE PlansDiscarded
  BY <1>11 DEF PlansDiscarded
<1>12. CASE LoadIntent
  BY <1>12 DEF LoadIntent
<1>13. CASE PlanMerge
  BY <1>13 DEF PlanMerge
<1>14. CASE BeginPullRequestMerge
  BY <1>14 DEF BeginPullRequestMerge
<1>15. CASE SavePlan
  BY <1>15 DEF SavePlan
<1>16. CASE EnsureMergeResult
  BY <1>16 DEF EnsureMergeResult
<1>17. CASE SaveReady
  BY <1>17 DEF SaveReady
<1>18. CASE PublishMerge
  BY <1>18 DEF PublishMerge
<1>19. CASE PublishIsRefused
  BY <1>19 DEF PublishIsRefused
<1>20. CASE ReconcileIntent
  BY <1>20 DEF ReconcileIntent, CompletePullRequestMerge
<1>21. CASE Fail
  BY <1>21 DEF Fail
<1>22. CASE CompletePublishedMerge
  BY <1>22 DEF CompletePublishedMerge, CompletePullRequestMerge
<1>23. CASE Start
  BY <1>23 DEF Start
<1>24. CASE PrepareAttempt
  BY <1>24 DEF PrepareAttempt
<1>25. CASE PreparationFails
  BY <1>25 DEF PreparationFails
<1>26. CASE EnsureStoredRevisionRefs
  BY <1>26 DEF EnsureStoredRevisionRefs
<1>27. CASE RevisionRefsStored
  BY <1>27 DEF RevisionRefsStored
<1>28. CASE Recovered
  BY <1>28 DEF Recovered
<1>29. CASE Stop
  BY <1>29 DEF Stop
<1>30. CASE MoveBranch
  BY <1>30 DEF MoveBranch
<1>31. CASE LoseRevisionRefs
  BY <1>31 DEF LoseRevisionRefs
<1>32. CASE UNCHANGED vars
  BY <1>32 DEF vars
<1>33. CASE ClockMoves
  BY <1>33 DEF ClockMoves
<1> QED
  BY <1>1, <1>2, <1>3, <1>4, <1>5, <1>6, <1>7, <1>8, <1>9, <1>10, <1>11, <1>12, <1>13, <1>14,
     <1>15, <1>16, <1>17, <1>18, <1>19, <1>20, <1>21, <1>22, <1>23, <1>24, <1>25, <1>26, <1>27,
        <1>28, <1>29, <1>30, <1>31, <1>32, <1>33
     DEF Next, Step, Recovery

\* Rows that are not from the future of the clock are not backdated by it.
LEMMA WritesKeepOrder ==
  ASSUME MergeInvariant, ~turnedBack, NEW rows \in SUBSET (Pairs \cup {Request}),
         Touch(rows) \/ Raise(rows)
  PROVE  backdated' = {}
<1>1. OpenedAt <= clock /\ (\A p \in Pairs : created[p] <= clock) /\ backdated = {}
  BY DEF MergeInvariant, ClockInvariant
<1>2. ASSUME NEW row \in Pairs \cup {Request} PROVE ~IsEarly(row)
  <2>1. clock \in Nat /\ OpenedAt \in Nat /\ \A p \in Pairs : created[p] \in Nat
    BY TimesAreNumbers DEF MergeInvariant
  <2> QED
    BY <1>1, <2>1 DEF IsEarly
<1> QED
  BY <1>1, <1>2 DEF Touch, Raise

\* A step that leaves the clock, the times of creation and the local plan's
\* alone, and at most writes rows, keeps the clock's order.
LEMMA WritesKeepClock ==
  ASSUME MergeInvariant, UNCHANGED <<clock, turnedBack, created>>,
         backdated' = backdated \/ (\E rows \in SUBSET (Pairs \cup {Request}) : Touch(rows) \/ Raise(rows)),
         pc' \in PlannedPcs \ {"load"} => pc \in PlannedPcs \ {"load"} /\ plan'.created = plan.created
  PROVE  ClockInvariant'
<1> SUFFICES ASSUME ~turnedBack PROVE ClockInvariant'
  BY DEF ClockInvariant
<1>1. backdated = {}
  BY DEF MergeInvariant, ClockInvariant
<1>2. backdated' = {}
  BY <1>1, WritesKeepOrder
<1> QED
  BY <1>2 DEF MergeInvariant, ClockInvariant

\* Every step keeps the order of the times until the clock is turned back.
LEMMA ClockStep == ASSUME MergeInvariant, [Next]_vars PROVE ClockInvariant'
<1> USE WritesKeepClock DEF records, intentRows, requestRow, branches, mergeRefs, computer, process,
   Goto, Return, GotoWith, RequestPcs, RecoveryPcs, UnpublishedPcs, BoundPcs, PlannedPcs
<1>1. ASSUME NEW p \in Pairs, StartMerge(p) \/ StartReview(p) PROVE ClockInvariant'
  BY <1>1 DEF StartMerge, StartReview, Begin
<1>2. CASE StartClose
  BY <1>2 DEF StartClose, Begin
<1>3. CASE Reopen
  <2>1. Raise({Request}) /\ {Request} \in SUBSET (Pairs \cup {Request})
    BY <1>3 DEF Reopen
  <2> QED
    BY <1>3, <2>1 DEF Reopen
<1>4. CASE Edit
  <2>1. Raise({Request}) /\ {Request} \in SUBSET (Pairs \cup {Request})
    BY <1>4 DEF Edit
  <2> QED
    BY <1>4, <2>1 DEF Edit
<1>5. CASE NothingWasPublished
  BY <1>5 DEF NothingWasPublished
<1>6. CASE SetPullRequestClosed
  <2>1. Raise({Request}) /\ {Request} \in SUBSET (Pairs \cup {Request})
    BY <1>6 DEF SetPullRequestClosed
  <2> QED
    BY <1>6, <2>1 DEF SetPullRequestClosed
<1>7. CASE CheckHeads
  BY <1>7 DEF CheckHeads
<1>8. CASE EnsureRevisionRefs
  BY <1>8 DEF EnsureRevisionRefs
<1>9. CASE RecordPullRequestRevision
  <2>1. backdated' = backdated \/ Touch({Request})
    BY <1>9 DEF RecordPullRequestRevision
  <2>2. {Request} \in SUBSET (Pairs \cup {Request})
    OBVIOUS
  <2> QED
    BY <1>9, <2>1, <2>2 DEF RecordPullRequestRevision
<1>10. CASE DiscardSupersededPlan
  <2>1. PICK p \in Pairs : created' = [created EXCEPT ![p] = 0] /\ Forget(p)
    BY <1>10 DEF DiscardSupersededPlan, Superseded
  <2>2. created \in [Pairs -> Times \cup {0}] /\ clock \in Nat
    BY DEF MergeInvariant, TypeOK
  <2> QED
    BY <1>10, <2>1, <2>2 DEF DiscardSupersededPlan, MergeInvariant, ClockInvariant, Forget
<1>11. CASE PlansDiscarded
  BY <1>11 DEF PlansDiscarded
<1>12. CASE LoadIntent
  <2>1. pair \in Pairs /\ clock \in Nat
    BY <1>12, PairIsKnown DEF LoadIntent, MergeInvariant, TypeOK
  <2>2. plan'.created = clock \/ plan'.created = created[pair]
    BY <1>12 DEF LoadIntent
  <2> QED
    BY <1>12, <2>1, <2>2 DEF LoadIntent, MergeInvariant, ClockInvariant
<1>13. CASE PlanMerge
  BY <1>13 DEF PlanMerge
<1>14. CASE BeginPullRequestMerge
  <2>1. created' = [created EXCEPT ![pair] = plan.created] /\ Forget(pair)
    BY <1>14 DEF BeginPullRequestMerge
  <2>2. created \in [Pairs -> Times \cup {0}]
    BY DEF MergeInvariant, TypeOK
  <2> QED
    BY <1>14, <2>1, <2>2 DEF BeginPullRequestMerge, MergeInvariant, ClockInvariant, Forget
<1>15. CASE SavePlan
  <2>1. Touch({pair}) /\ {pair} \in SUBSET (Pairs \cup {Request})
    BY <1>15, PlanIsKnown DEF SavePlan
  <2> QED
    BY <1>15, <2>1 DEF SavePlan
<1>16. CASE EnsureMergeResult
  BY <1>16 DEF EnsureMergeResult
<1>17. CASE SaveReady
  <2>1. Touch({pair}) /\ {pair} \in SUBSET (Pairs \cup {Request})
    BY <1>17, PlanIsKnown DEF SaveReady
  <2> QED
    BY <1>17, <2>1 DEF SaveReady
<1>18. CASE PublishMerge
  BY <1>18 DEF PublishMerge
<1>19. CASE PublishIsRefused
  BY <1>19 DEF PublishIsRefused
<1>20. CASE ReconcileIntent
  <2>1. pair \in Pairs
    BY <1>20, PairIsKnown DEF ReconcileIntent, MergeInvariant
  <2>2. backdated' = backdated \/ Touch({Request, pair}) \/ Touch({pair})
    BY <1>20 DEF ReconcileIntent, CompletePullRequestMerge
  <2>3. {Request, pair} \in SUBSET (Pairs \cup {Request}) /\ {pair} \in SUBSET (Pairs \cup {Request})
    BY <2>1
  <2>4. UNCHANGED <<computer, created>> /\ pc' = "idle"
    BY <1>20 DEF ReconcileIntent, CompletePullRequestMerge
  <2> QED
    BY <2>2, <2>3, <2>4
<1>21. CASE Fail
  BY <1>21 DEF Fail
<1>22. CASE CompletePublishedMerge
  <2>1. PICK p \in Pairs : CompletePullRequestMerge(p)
    BY <1>22 DEF CompletePublishedMerge
  <2>2. Touch({Request, p}) \/ Touch({p})
    BY <2>1 DEF CompletePullRequestMerge
  <2>3. {Request, p} \in SUBSET (Pairs \cup {Request}) /\ {p} \in SUBSET (Pairs \cup {Request})
    OBVIOUS
  <2>4. UNCHANGED <<computer, created>> /\ pc' \in {"idle", "recover"}
    BY <1>22, <2>1 DEF CompletePublishedMerge, CompletePullRequestMerge
  <2> QED
    BY <2>2, <2>3, <2>4
<1>23. CASE Start
  BY <1>23 DEF Start
<1>24. CASE PrepareAttempt
  BY <1>24 DEF PrepareAttempt
<1>25. CASE PreparationFails
  BY <1>25 DEF PreparationFails
<1>26. CASE EnsureStoredRevisionRefs
  BY <1>26 DEF EnsureStoredRevisionRefs
<1>27. CASE RevisionRefsStored
  BY <1>27 DEF RevisionRefsStored
<1>28. CASE Recovered
  BY <1>28 DEF Recovered
<1>29. CASE Stop
  BY <1>29 DEF Stop
<1>30. CASE MoveBranch
  BY <1>30 DEF MoveBranch
<1>31. CASE LoseRevisionRefs
  BY <1>31 DEF LoseRevisionRefs
<1>32. CASE UNCHANGED vars
  BY <1>32 DEF vars
<1>33. CASE ClockMoves
  <2> SUFFICES ASSUME ~turnedBack' PROVE ClockInvariant'
    BY DEF ClockInvariant
  <2>1. clock \in Nat /\ OpenedAt \in Nat /\ \A p \in Pairs : created[p] \in Nat
    BY TimesAreNumbers DEF MergeInvariant
  <2>2. clock' \in Nat /\ clock <= clock' /\ ~turnedBack
    <3>1. turnedBack' = (turnedBack \/ clock' < clock)
      BY <1>33 DEF ClockMoves
    <3>2. ~(clock' < clock) /\ ~turnedBack
      BY <3>1, Zenon
    <3>3. clock' \in Nat
      BY <1>33 DEF ClockMoves
    <3> QED
      BY <2>1, <3>2, <3>3
  <2>3. pc \in PlannedPcs \ {"load"} => plan.created \in Nat /\ plan.created <= clock
    BY PlanIsKnown, <2>2 DEF MergeInvariant, ClockInvariant
  <2>4. OpenedAt <= clock /\ (\A p \in Pairs : created[p] <= clock) /\ backdated = {}
    BY <2>2 DEF MergeInvariant, ClockInvariant
  <2>5. UNCHANGED <<created, backdated, pc, plan>>
    BY <1>33 DEF ClockMoves
  <2> QED
    BY <2>1, <2>2, <2>3, <2>4, <2>5 DEF ClockInvariant
<1> QED
  BY <1>1, <1>2, <1>3, <1>4, <1>5, <1>6, <1>7, <1>8, <1>9, <1>10, <1>11, <1>12, <1>13, <1>14,
     <1>15, <1>16, <1>17, <1>18, <1>19, <1>20, <1>21, <1>22, <1>23, <1>24, <1>25, <1>26, <1>27,
        <1>28, <1>29, <1>30, <1>31, <1>32, <1>33
     DEF Next, Step, Recovery

\* The initial states satisfy the invariant.
LEMMA InitHolds == Init => MergeInvariant
<1> SUFFICES ASSUME Init PROVE MergeInvariant
  OBVIOUS
<1> USE PairFacts, CommitFacts DEF Init
<1>1. TypeOK
  BY DEF TypeOK, Stages, PcValues
<1>2. RequestInvariant /\ PlanInvariant
  BY DEF RequestInvariant, PlanInvariant, UnpublishedPcs, BoundPcs, PlannedPcs, RequestPcs
<1>3. IntentInvariant
  BY DEF IntentInvariant, OneIntent, RefsAreOf
<1>4. ReceiptInvariant /\ RetentionInvariant
  BY DEF ReceiptInvariant, RetentionInvariant
<1>5. ClockInvariant
  <2>1. clock \in Nat /\ OpenedAt \in Nat /\ \A p \in Pairs : created[p] = 0
    OBVIOUS
  <2>2. pc \notin PlannedPcs
    BY DEF PlannedPcs, BoundPcs, RequestPcs
  <2>3. CASE clock < OpenedAt
    BY <2>3 DEF ClockInvariant
  <2>4. CASE ~(clock < OpenedAt)
    BY <2>1, <2>2, <2>4 DEF ClockInvariant
  <2> QED
    BY <2>3, <2>4
<1> QED
  BY <1>1, <1>2, <1>3, <1>4, <1>5 DEF MergeInvariant

\* MergeInvariant holds in every state: records, refs and the local plan of
\* the running operation agree wherever the server may stop.
THEOREM MergeInvariantHolds == Spec => []MergeInvariant
<1>1. MergeInvariant /\ [Next]_vars => MergeInvariant'
  BY TypeStep, RequestStep, PlanStep, IntentStep, ReceiptStep, RetentionStep, ClockStep DEF MergeInvariant
<1> QED
  BY InitHolds, <1>1, PTL DEF Spec

\* A receipt belongs to exactly one intent.
THEOREM OneOwner == Spec => []ReceiptHasOneOwner
<1>1. MergeInvariant => ReceiptHasOneOwner
  BY OwnersOfReceipt DEF ReceiptHasOneOwner
<1> QED
  BY <1>1, MergeInvariantHolds, PTL

\* Recovery never has a reason to refuse what the server left behind.
THEOREM RecoveryAccepts == Spec => []RecoveryRefusesNothing
<1>1. MergeInvariant => RecoveryRefusesNothing
  <2> SUFFICES ASSUME MergeInvariant, NEW p \in Pairs
               PROVE  /\ stage[p] = "ready" => IsPublished(p) \/ IsNotPublished(p)
                      /\ stage[p] = "planned" => ObjectsAreProtected(p)
                      /\ stage[p] = "ready" /\ IsPublished(p) =>
                           status = "open" \/ (merged = p /\ mergeOID = result[p])
    BY DEF RecoveryRefusesNothing
  <2>1. stage[p] \in {"planned", "ready"} => ObjectsAreProtected(p)
    BY DEF MergeInvariant, IntentInvariant
  <2>2. CASE receipt = NoCommit
    BY <2>1, <2>2 DEF IsNotPublished, IsPublished, ReceiptOwners
  <2>3. CASE receipt # NoCommit
    <3>1. ReceiptOwners = {published} /\ published \in Pairs
      BY <2>3, OwnersOfReceipt
    <3>2. stage[published] \in {"ready", "complete"} /\ status \in {"open", "merged"}
      BY <3>1, PairFacts DEF MergeInvariant, ReceiptInvariant
    <3>3. stage[p] = "ready" => p = published
      BY <3>1, <3>2 DEF MergeInvariant, IntentInvariant, OneIntent
    <3>4. stage[p] = "ready" => status = "open"
      BY <3>1, <3>2, <3>3 DEF MergeInvariant, IntentInvariant, ReceiptInvariant
    <3> QED
      BY <2>1, <3>1, <3>3, <3>4 DEF IsPublished
  <2> QED
    BY <2>2, <2>3
<1> QED
  BY <1>1, MergeInvariantHolds, PTL

\* Recorded revisions are protected whenever the repository is served.
THEOREM RevisionsAreRetained == Spec => []ServedRevisionsAreRetained
<1>1. MergeInvariant => ServedRevisionsAreRetained
  BY DEF MergeInvariant, RetentionInvariant, ServedRevisionsAreRetained, RequestPcs
<1> QED
  BY <1>1, MergeInvariantHolds, PTL

\* What a backup requires of the intents, the revisions and the merge holds of the
\* records in every state, and the order of their times until the clock is turned
\* back.
THEOREM BackupsAreAccepted == Spec => []BackupIsAccepted
<1>1. MergeInvariant => BackupIsAccepted
  <2> SUFFICES ASSUME MergeInvariant PROVE BackupIsAccepted
    OBVIOUS
  <2> USE DEF MergeInvariant, IntentInvariant
  <2>1. \A p \in Pairs : stage[p] # "none" => p \in bound
    OBVIOUS
  <2>2. \A p, q \in Pairs : stage[p] = "complete" /\ stage[q] = "complete" => p = q
    BY DEF OneIntent
  <2>3. \A p \in Pairs : stage[p] = "complete" => status = "merged"
    OBVIOUS
  <2>4. status = "merged" => \E p \in Pairs : stage[p] = "complete" /\ merged = p /\ mergeOID = result[p]
    BY PairFacts DEF ReceiptInvariant
  <2>5. ASSUME NEW p \in Pairs
        PROVE  /\ stage[p] = "preparing" => result[p] = NoCommit
               /\ stage[p] = "planned" =>
                    result[p] = IF Method[p] = "merge_commit" THEN NoCommit ELSE ExistingResult(p)
               /\ stage[p] \in {"ready", "complete"} => result[p] # NoCommit
    BY CommitFacts DEF ObjectsAreProtected, MergeCommitIsProtected, ExistingResultIsProtected,
       ResultIsRequired
  <2>6. backdated = {} \/ turnedBack
    BY DEF ClockInvariant
  <2> QED
    BY <2>1, <2>2, <2>3, <2>4, <2>5, <2>6 DEF BackupIsAccepted
<1> QED
  BY <1>1, MergeInvariantHolds, PTL

\* Recording the merge of a published intent records what was published.
LEMMA RecordStep ==
  ASSUME MergeInvariant, status = "open", NEW p \in Pairs, IsPublished(p),
  CompletePullRequestMerge(p),
         UNCHANGED published
  PROVE  Outcome!Record
<1>1. receipt # NoCommit
  BY DEF IsPublished, ReceiptOwners
<1>2. p = published /\ published # NoPair
  BY <1>1, OwnersOfReceipt, PairFacts DEF IsPublished
<1> QED
  BY <1>2 DEF Outcome!Record, CompletePullRequestMerge, requestRow

\* A ready intent is only left on an open pull request.
LEMMA ReadyIsOpen == ASSUME MergeInvariant, NEW p \in Pairs, stage[p] = "ready", IsPublished(p) PROVE status = "open"
<1>1. p \in ReceiptOwners
  BY DEF IsPublished
<1> QED
  BY <1>1 DEF ReceiptOwners

\* Every step publishes, records, closes or reopens as PullRequestOutcome
\* allows, or changes nothing of the outcome.
LEMMA OutcomeStep == ASSUME MergeInvariant, [Next]_vars PROVE [Outcome!OutcomeNext]_<<status, published, merged>>
<1> USE DEF Outcome!OutcomeNext, MergeInvariant, records, intentRows, requestRow, mergeRefs,
   computer, process, Goto, Return, GotoWith
<1>1. ASSUME NEW p \in Pairs, StartMerge(p) \/ StartReview(p) PROVE UNCHANGED <<status,
   published, merged>>
  BY <1>1 DEF StartMerge, StartReview, Begin
<1>2. CASE StartClose
  BY <1>2 DEF StartClose, Begin
<1>3. CASE Reopen
  BY <1>3 DEF Reopen, Outcome!Reopen
<1>4. CASE Edit
  BY <1>4 DEF Edit
<1>5. CASE NothingWasPublished
  BY <1>5 DEF NothingWasPublished
<1>6. CASE SetPullRequestClosed
  BY <1>6 DEF SetPullRequestClosed, Outcome!Close, RequestInvariant, ReceiptInvariant,
     UnpublishedPcs, RequestPcs
<1>7. CASE CheckHeads
  BY <1>7 DEF CheckHeads
<1>8. CASE EnsureRevisionRefs
  BY <1>8 DEF EnsureRevisionRefs
<1>9. CASE RecordPullRequestRevision
  BY <1>9 DEF RecordPullRequestRevision
<1>10. CASE DiscardSupersededPlan
  BY <1>10 DEF DiscardSupersededPlan
<1>11. CASE PlansDiscarded
  BY <1>11 DEF PlansDiscarded
<1>12. CASE LoadIntent
  BY <1>12 DEF LoadIntent
<1>13. CASE PlanMerge
  BY <1>13 DEF PlanMerge
<1>14. CASE BeginPullRequestMerge
  BY <1>14 DEF BeginPullRequestMerge
<1>15. CASE SavePlan
  BY <1>15 DEF SavePlan
<1>16. CASE EnsureMergeResult
  BY <1>16 DEF EnsureMergeResult
<1>17. CASE SaveReady
  BY <1>17 DEF SaveReady
<1>18. CASE PublishMerge
  <2>1. pair \in Pairs /\ status = "open" /\ published = NoPair
    BY <1>18, PairIsKnown DEF PublishMerge, RequestInvariant, ReceiptInvariant, BoundPcs, RequestPcs
  <2> QED
    BY <1>18, <2>1 DEF PublishMerge, Outcome!Publish
<1>19. CASE PublishIsRefused
  BY <1>19 DEF PublishIsRefused
<1>20. CASE ReconcileIntent
  <2>1. pair \in Pairs /\ status = "open"
    BY <1>20, PairIsKnown DEF ReconcileIntent, RequestInvariant, BoundPcs, RequestPcs
  <2> QED
    BY <1>20, <2>1, RecordStep DEF ReconcileIntent
<1>21. CASE Fail
  BY <1>21 DEF Fail
<1>22. CASE CompletePublishedMerge
  BY <1>22, RecordStep, ReadyIsOpen DEF CompletePublishedMerge
<1>23. CASE Start
  BY <1>23 DEF Start
<1>24. CASE PrepareAttempt
  BY <1>24 DEF PrepareAttempt
<1>25. CASE PreparationFails
  BY <1>25 DEF PreparationFails
<1>26. CASE EnsureStoredRevisionRefs
  BY <1>26 DEF EnsureStoredRevisionRefs
<1>27. CASE RevisionRefsStored
  BY <1>27 DEF RevisionRefsStored
<1>28. CASE Recovered
  BY <1>28 DEF Recovered
<1>29. CASE Stop
  BY <1>29 DEF Stop
<1>30. CASE MoveBranch
  BY <1>30 DEF MoveBranch
<1>31. CASE LoseRevisionRefs
  BY <1>31 DEF LoseRevisionRefs
<1>32. CASE UNCHANGED vars
  BY <1>32 DEF vars
<1>33. CASE ClockMoves
  BY <1>33 DEF ClockMoves
<1> QED
  BY <1>1, <1>2, <1>3, <1>4, <1>5, <1>6, <1>7, <1>8, <1>9, <1>10, <1>11, <1>12, <1>13, <1>14,
     <1>15, <1>16, <1>17, <1>18, <1>19, <1>20, <1>21, <1>22, <1>23, <1>24, <1>25, <1>26, <1>27,
        <1>28, <1>29, <1>30, <1>31, <1>32, <1>33
     DEF Next, Step, Recovery

\* The merge implements what a pull request promises about its outcome: only
\* the published pair is recorded as merged, and no published one is closed.
THEOREM OutcomeImplemented == Spec => ImplementsOutcome
<1>1. Init => Outcome!OutcomeInit
  BY DEF Init, Outcome!OutcomeInit
<1>2. MergeInvariant /\ [Next]_vars => [Outcome!OutcomeNext]_<<status, published, merged>>
  BY OutcomeStep
<1> QED
  BY <1>1, <1>2, MergeInvariantHolds, PTL
     DEF Spec, ImplementsOutcome, Outcome!OutcomeSpec, Outcome!outcomeVars
=============================================================================
