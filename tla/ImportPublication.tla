------------------------- MODULE ImportPublication -------------------------
\* How a refresh from an import source changes one repository
\* (internal/importsync, internal/state/imports.go).  A run is admitted, fetches
\* what the source advertises and then, under the repository's write lock,
\* records an intent, writes the refs in one or two transactions and HEAD on
\* its own, reads the outcome back and settles the intent.  A run can be
\* stopped, the process can crash between two steps, a record can fail, and a
\* program that knows nothing of the lock can write to the folder: an intent
\* whose outcome is unknown is reconciled by the next run and, from a page of
\* open intents read before the lock is taken, by the recovery that runs at the
\* start and whenever a repository becomes ready.
\*
\* The repository exists from the beginning, made by a first import (run 1).
EXTENDS Naturals, FiniteSets

CONSTANTS
    Refs,            \* branches
    Commits,         \* commits of the source and of the owner
    Ancestors,       \* the commits each commit contains, itself included
    Local,           \* commits only the owner makes
    Advertisements,  \* what the source may answer: [refs, head]
    FirstImport,     \* what it answered to the first import
    Settings,        \* [overwrite, follow], the source's refresh choices
    RefWrites,       \* [keepHistory, protect], kept history and protection
    MaxRuns, MaxWrites, MaxChanges, MaxFaults, MaxCrashes, MaxPages,
    MaxDisturbances, \* bounds of each kind of disturbance, and of all of them
    None             \* no commit, no HEAD, no problem

ASSUME ConstantsAssumption ==
    /\ MaxRuns \in Nat \ {0} /\ MaxWrites \in Nat /\ MaxChanges \in Nat
    /\ MaxFaults \in Nat /\ MaxCrashes \in Nat /\ MaxPages \in Nat
    /\ MaxDisturbances \in Nat
    /\ None \notin Refs /\ None \notin Commits /\ Local \subseteq Commits
    /\ None \notin {"cancelled", "superseded", "failed", "unresolved"} /\ "HEAD" \notin Refs
    /\ Ancestors \in [Commits -> SUBSET Commits]
    /\ Advertisements \cup {FirstImport} \subseteq
          [refs : [Refs -> Commits \cup {None}], head : Refs \cup {None}]
    /\ FirstImport.head \in Refs /\ FirstImport.refs[FirstImport.head] # None
    /\ Settings \subseteq [overwrite : BOOLEAN, follow : BOOLEAN]
    /\ RefWrites \subseteq [keepHistory : BOOLEAN, protect : BOOLEAN]

VARIABLES
    refs,      \* the commit each branch of the repository holds
    head,      \* the branch HEAD names
    retained,  \* commits kept under retention refs
    author,    \* history: the run that wrote a branch or HEAD last, or 0
    source,    \* the source row: its choices and revisions
    writes,    \* the repository's kept history and protection
    runs,      \* the run rows
    intents,   \* the publication intents, at most one for each run
    obs,       \* which run's observation of a ref is recorded, per generation
    pc,        \* where the live run is
    live,      \* what it holds in memory
    page,      \* open intents a recovery has read and still has to reconcile
    spent      \* how much of each bound is used

destination == <<refs, head, retained, author>>
settings == <<source, writes>>
record == <<runs, intents, obs>>
vars == <<destination, settings, record, pc, live, page, spent>>

Rows == 1..MaxRuns
Head == "HEAD"
Values == Commits \cup {None}
Early == {"admitted", "staged", "locked"}
Publishing == {"planned", "second", "applied", "head", "written", "settle"}
LockFree == pc \notin {"locked"} \cup Publishing
Pending == {"planning", "applied", "invalidated", "unresolved"}
Nothing == [run |-> 0, adv |-> FirstImport, checked |-> 0, todo |-> {}, problem |-> None, blocked |-> FALSE]

IsAncestor(c, d) == d # None /\ c \in Ancestors[d]
IsActive(i) == runs[i].status = "active"
MutantIsOpen(i) == intents[i].status = "unresolved"
IsOpen(i) ==
    \/ intents[i].status \in Pending
    \/ intents[i].status = "complete" /\ runs[i].status # "complete"

\* No run, and no intent.
NoRun == [status |-> "none", stop |-> None, source |-> source, writes |-> writes]
NoFacts == [r \in {} |-> None]
NoIntent == [status |-> "none", expected |-> NoFacts, desired |-> NoFacts, observed |-> NoFacts,
             retained |-> {}, kept |-> {}, owned |-> FALSE, sourceHead |-> None,
             oldHead |-> [target |-> None, oid |-> None], newHead |-> [target |-> None, oid |-> None]]

Advertised(a) == {r \in Refs : a.refs[r] # None}
Facts(a) == [r \in Advertised(a) |-> a.refs[r]]
FirstHead == [target |-> FirstImport.head, oid |-> FirstImport.refs[FirstImport.head]]

Init ==
    /\ refs = FirstImport.refs
    /\ head = FirstImport.head
    /\ retained = {}
    /\ author = [r \in Refs \cup {Head} |-> 1]
    /\ \E s \in Settings : source = [generation |-> 1, authority |-> 1, signIn |-> 0,
                                     overwrite |-> s.overwrite, follow |-> s.follow]
    /\ writes \in RefWrites
    /\ runs = [i \in Rows |-> IF i = 1 THEN [NoRun EXCEPT !.status = "complete"] ELSE NoRun]
    /\ intents = [i \in Rows |->
         IF i > 1 THEN NoIntent
         ELSE [NoIntent EXCEPT !.status = "complete", !.owned = TRUE, !.sourceHead = FirstImport.head,
                 !.desired = Facts(FirstImport), !.observed = Facts(FirstImport),
                 !.expected = [r \in Advertised(FirstImport) |-> None],
                 !.oldHead = FirstHead, !.newHead = FirstHead]]
    /\ obs = [g \in 1..(MaxChanges + 1) |-> [r \in Refs \cup {Head} |->
                IF g = 1 /\ r \in Advertised(FirstImport) \cup {Head} THEN 1 ELSE 0]]
    /\ pc = "idle" /\ live = Nothing /\ page = {}
    /\ spent = [writes |-> 0, changes |-> 0, faults |-> 0, crashes |-> 0, pages |-> 0]

Spend(what) ==
    /\ spent.writes + spent.changes + spent.faults + spent.crashes + spent.pages < MaxDisturbances
    /\ spent' = [spent EXCEPT ![what] = @ + 1]

----------------------------------------------------------------------------
\* What a run may do.

\* checkAuthority: the run was stopped, or its source is no longer the one it
\* was admitted under.  Once refs are visible a stop comes too late
\* (authorityUnchanged).
AuthorityChanged(i) ==
    \/ source.generation # runs[i].source.generation
    \/ source.authority # runs[i].source.authority
AuthorityProblem(i) ==
    IF runs[i].stop # None THEN runs[i].stop ELSE IF AuthorityChanged(i) THEN "superseded" ELSE None
MutantUnchangedProblem(i) == AuthorityProblem(i)      \* honours a stop that is too late
UnchangedProblem(i) == IF AuthorityChanged(i) THEN "superseded" ELSE None

\* observationMap: the value the current generation last observed, if a complete
\* run recorded it, and whether the current sign-in has seen it.
Observer(r) == obs[source.generation][r]
IsObserved(r) == Observer(r) # 0 /\ runs[Observer(r)].status = "complete"
Observed(r) == IF IsObserved(r) THEN intents[Observer(r)].observed[r] ELSE None
SignedIn(r) == IsObserved(r) /\ runs[Observer(r)].source.authority >= source.signIn
\* intentProvesHEADOwnership, and HEAD still is what was observed.
OwnsHead ==
    /\ IsObserved(Head)
    /\ LET i == intents[Observer(Head)] IN
       /\ i.status = "complete" /\ i.owned /\ i.newHead.target = i.sourceHead
       /\ i.sourceHead = head

MutantMayReplace(r) == Observed(r) # None             \* forgets the local value
\* mayReplaceLocal
MayReplace(r) == Observed(r) # None /\ (refs[r] = Observed(r) \/ source.overwrite)

\* The value a refresh gives a branch the source advertises (planPublication).
Follows(r, new) ==
    \/ refs[r] \in {None, new}
    \/ MayReplace(r)
    \/ IsAncestor(Observed(r), refs[r]) /\ IsAncestor(refs[r], new)
\* A branch the source has no longer, deleted here as well; see keptLocalRef.
IsDeletable(r, a) ==
    /\ source.follow /\ Advertised(a) # {}
    /\ Observed(r) # None /\ a.refs[r] = None /\ SignedIn(r)
    /\ refs[r] # None /\ r \notin {head, a.head}
    /\ MayReplace(r)

Plan(i, a) ==
    LET deleted == {r \in Refs : IsDeletable(r, a)}
        planned == Advertised(a) \cup deleted
        desired == [r \in planned |-> IF r \in deleted THEN None
                                      ELSE IF Follows(r, a.refs[r]) THEN a.refs[r] ELSE refs[r]]
        lost == {r \in planned : desired[r] # refs[r] /\ refs[r] # None /\ ~IsAncestor(refs[r], desired[r])}
        tips == IF runs[i].writes.keepHistory THEN {refs[r] : r \in lost} ELSE {}
        owned == a.head # None /\ OwnsHead
        target == IF owned THEN a.head ELSE head
    IN [status |-> "planning",
        expected |-> [r \in planned |-> refs[r]], desired |-> desired, observed |-> Facts(a),
        retained |-> tips, kept |-> tips \cap retained,
        sourceHead |-> a.head, owned |-> owned /\ target = head,
        oldHead |-> [target |-> head, oid |-> refs[head]],
        newHead |-> [target |-> target,
                     oid |-> IF target \in planned THEN desired[target]
                             ELSE IF owned THEN a.refs[target] ELSE refs[target]]]

Changed(t) == {r \in DOMAIN t.desired : t.desired[r] # t.expected[r]}
MovesHead(t) == t.newHead.target # t.oldHead.target
\* The branches an intent rewrites under default branch protection or deletes:
\* neither may be the one HEAD resolves to (guardedChange, guardsHEAD).
Guarded(i) ==
    LET t == intents[i] IN
    {r \in Changed(t) :
        \/ t.desired[r] = None
        \/ runs[i].writes.protect /\ t.expected[r] # None /\ ~IsAncestor(t.expected[r], t.desired[r])}

----------------------------------------------------------------------------
\* Settling an intent.

\* observeIntent
HeadIs(h) == head = h.target /\ refs[head] = h.oid
MatchesDesired(t) == HeadIs(t.newHead) /\ \A r \in DOMAIN t.desired : refs[r] = t.desired[r]
MatchesExpected(t) ==
    /\ HeadIs(t.oldHead) /\ t.retained \cap retained = t.kept
    /\ \A r \in DOMAIN t.expected : refs[r] = t.expected[r]
MutantRetentionComplete(t) == TRUE
RetentionComplete(t) == t.retained \subseteq retained
Confirmed(t) == MatchesDesired(t) /\ RetentionComplete(t)

WithStatus(t, status) ==
    [t EXCEPT !.status = status, !.owned = @ /\ status \notin {"not_applied", "owner_resolved"}]

\* FinalizeImportPublication: the receipt, the observations and the run's
\* outcome in one transaction.  A ref the source deleted is observed no longer.
Finalized(i) ==
    /\ intents' = [intents EXCEPT ![i].status = "complete"]
    /\ runs' = [runs EXCEPT ![i].status = "complete"]
    /\ obs' = [obs EXCEPT ![runs[i].source.generation] = [r \in Refs \cup {Head} |->
                 IF r \in DOMAIN intents[i].observed \cup {Head} THEN i
                 ELSE IF r \in DOMAIN intents[i].desired THEN 0 ELSE @[r]]]
Settled(i, status) ==
    intents' = [intents EXCEPT ![i] = WithStatus(@, status)] /\ UNCHANGED obs

\* reconcileIntentListLocked, for one intent: what the destination shows decides.
IsUnknown(i) == ~Confirmed(intents[i]) /\ ~MatchesExpected(intents[i])
ReconcileIntent(i) ==
    \/ Confirmed(intents[i]) /\ Finalized(i)
    \/ /\ ~Confirmed(intents[i]) /\ MatchesExpected(intents[i])
       /\ Settled(i, IF AuthorityChanged(i) THEN "invalidated" ELSE "not_applied")
       /\ UNCHANGED runs
    \/ /\ IsUnknown(i)
       /\ Settled(i, "unresolved")
       /\ runs' = [runs EXCEPT ![i].status = IF @ = "interrupted" THEN "unresolved" ELSE @]

----------------------------------------------------------------------------
\* A run up to its publication (execute, runPipeline).

BeginRun(i) ==
    /\ pc = "idle" /\ runs[i].status = "none"
    /\ \A j \in Rows : j < i => runs[j].status # "none"
    /\ \A j \in Rows : ~IsActive(j)
    /\ runs' = [runs EXCEPT ![i] = [status |-> "active", stop |-> None, source |-> source, writes |-> writes]]
    /\ pc' = "admitted" /\ live' = [Nothing EXCEPT !.run = i]
    /\ UNCHANGED <<destination, settings, intents, obs, page, spent>>

\* A run that cannot go on ends with a problem; finishRun records it later.
EndsWith(problem) == pc' = "finish" /\ live' = [Nothing EXCEPT !.run = live.run, !.problem = problem]

\* fetchAndStage: what the source advertises is all a run learns of it.
Fetch(a) ==
    /\ pc = "admitted" /\ AuthorityProblem(live.run) = None
    /\ pc' = "staged" /\ live' = [live EXCEPT !.adv = a]
    /\ UNCHANGED <<destination, settings, record, page, spent>>

LockRepository ==
    /\ pc = "staged" /\ AuthorityProblem(live.run) = None
    /\ pc' = "locked"
    /\ UNCHANGED <<destination, settings, record, live, page, spent>>

\* A stop, a changed authority or a failure before anything is recorded.
EndEarly ==
    /\ pc \in Early
    /\ EndsWith(IF AuthorityProblem(live.run) # None THEN AuthorityProblem(live.run) ELSE "failed")
    /\ UNCHANGED <<destination, settings, record, page, spent>>

\* A new publication never proceeds while an older outcome is unknown.
Unchecked == {j \in Rows : j > live.checked /\ IsOpen(j)}
ReconcileOlder ==
    /\ pc = "locked" /\ runs[live.run].stop = None
    /\ \E j \in Unchecked :
         /\ \A k \in Unchecked : j <= k
         /\ ReconcileIntent(j)
         /\ IF IsUnknown(j) THEN EndsWith("unresolved")
            ELSE pc' = pc /\ live' = [live EXCEPT !.checked = j]
    /\ UNCHANGED <<destination, settings, page, spent>>

\* The plan is made and recorded under the lock.  A refresh that would rewrite
\* the protected default branch publishes nothing.
RecordIntent ==
    /\ pc = "locked" /\ Unchecked = {} /\ AuthorityProblem(live.run) = None
    /\ LET i == live.run  t == Plan(i, live.adv) IN
       IF /\ runs[i].writes.protect /\ head \in Changed(t) /\ refs[head] # None
          /\ ~IsAncestor(refs[head], t.desired[head])
       THEN EndsWith("failed") /\ UNCHANGED intents
       ELSE pc' = "planned" /\ intents' = [intents EXCEPT ![i] = t] /\ UNCHANGED live
    /\ UNCHANGED <<destination, settings, runs, obs, page, spent>>

----------------------------------------------------------------------------
\* The publication (applyIntent).

Intent == intents[live.run]
Problem(problem, isBlocked) == [live EXCEPT !.problem = problem, !.blocked = isBlocked, !.todo = {}]
SettlesWith(problem, isBlocked) == pc' = "settle" /\ live' = Problem(problem, isBlocked)

Write(set) ==
    /\ refs' = [r \in Refs |-> IF r \in set THEN Intent.desired[r] ELSE refs[r]]
    /\ author' = [r \in Refs \cup {Head} |-> IF r \in set THEN live.run ELSE author[r]]
Next2 == IF MovesHead(Intent) THEN "head" ELSE "settle"

\* lockHEADChain and splitHEADBranchWrites: with guarded changes the branch HEAD
\* names is written by itself, later, and the guards hold HEAD still.
MutantGuardsHold(i) == TRUE
GuardsHold(i) == head \notin Guarded(i)
SecondWrites(i) == IF Guarded(i) = {} THEN {} ELSE Changed(intents[i]) \cap {head}
FirstWrites(i) == Changed(intents[i]) \ SecondWrites(i)
HeadIsExpected == head = Intent.oldHead.target
MutantAreExpected(set) == TRUE
AreExpected(set) == \A r \in set : refs[r] = Intent.expected[r]

\* Nothing to write but HEAD, or nothing at all.
SkipTransaction ==
    /\ pc = "planned" /\ Changed(Intent) = {}
    /\ IF MovesHead(Intent) /\ ~HeadIsExpected THEN SettlesWith("failed", TRUE)
       ELSE pc' = Next2 /\ UNCHANGED live
    /\ UNCHANGED <<destination, settings, record, page, spent>>

\* A check fails before the first transaction, or while it is prepared.
RefuseTransaction ==
    /\ pc = "planned" /\ Changed(Intent) # {}
    /\ LET i == live.run  isBlocked == (MovesHead(Intent) /\ ~HeadIsExpected) \/ ~GuardsHold(i) IN
       \/ isBlocked /\ SettlesWith("failed", TRUE)
       \/ /\ ~isBlocked /\ AuthorityProblem(i) # None
          /\ \E early \in BOOLEAN : SettlesWith(AuthorityProblem(i), early)
       \/ ~isBlocked /\ ~AreExpected(FirstWrites(i)) /\ SettlesWith("failed", FALSE)
    /\ UNCHANGED <<destination, settings, record, page, spent>>

\* HEAD may have moved since it was checked before the transaction.
MayCommit(i) ==
    /\ GuardsHold(i) /\ AuthorityProblem(i) = None /\ AreExpected(FirstWrites(i))
FirstTransaction ==
    /\ pc = "planned" /\ Changed(Intent) # {} /\ MayCommit(live.run)
    /\ Write(FirstWrites(live.run))
    /\ retained' = retained \cup Intent.retained
    /\ LET rest == SecondWrites(live.run) IN
       /\ pc' = IF rest = {} THEN "applied" ELSE "second"
       /\ live' = [live EXCEPT !.todo = rest]
    /\ UNCHANGED <<head, settings, record, page, spent>>
\* A failed command is never proof that no write occurred.
TransactionFails ==
    /\ \/ pc = "planned" /\ Changed(Intent) # {} /\ MayCommit(live.run)
       \/ pc = "second" /\ AreExpected(live.todo)
    /\ spent.faults < MaxFaults /\ Spend("faults")
    /\ LET first == pc = "planned" IN
       \E done \in SUBSET (IF first THEN FirstWrites(live.run) ELSE live.todo),
          kept \in {{}, Intent.retained} :
         Write(done) /\ retained' = IF first THEN retained \cup kept ELSE retained
    /\ SettlesWith("failed", FALSE)
    /\ UNCHANGED <<head, settings, record, page>>

\* The second transaction finishes what is visible already: a stop is too late.
SecondTransaction ==
    /\ pc = "second"
    /\ IF AreExpected(live.todo) /\ UnchangedProblem(live.run) = None
       THEN Write(live.todo) /\ pc' = "applied" /\ live' = [live EXCEPT !.todo = {}]
       ELSE UNCHANGED <<refs, author>> /\ SettlesWith("failed", FALSE)
    /\ UNCHANGED <<head, retained, settings, record, page, spent>>

RecordApplied ==
    /\ pc = "applied"
    /\ \/ /\ intents' = [intents EXCEPT ![live.run].status = "applied"]
          /\ pc' = Next2 /\ UNCHANGED <<live, spent>>
       \/ /\ spent.faults < MaxFaults /\ Spend("faults")
          /\ SettlesWith("failed", TRUE) /\ UNCHANGED intents
    /\ UNCHANGED <<destination, settings, runs, obs, page>>

\* HEAD is written under its own lock, if it still is what the plan read.
HeadProblem == IF Changed(Intent) = {} THEN AuthorityProblem(live.run) ELSE UnchangedProblem(live.run)
WriteHead ==
    /\ pc = "head"
    /\ IF HeadIsExpected /\ HeadProblem = None
       THEN /\ head' = Intent.newHead.target /\ author' = [author EXCEPT ![Head] = live.run]
            /\ pc' = "written" /\ UNCHANGED live
       ELSE UNCHANGED <<head, author>>
            /\ SettlesWith(IF HeadIsExpected THEN HeadProblem ELSE "failed", TRUE)
    /\ UNCHANGED <<refs, retained, settings, record, page, spent>>
RecordHead ==
    /\ pc = "written"
    /\ \/ /\ intents' = [intents EXCEPT ![live.run].status = "applied", ![live.run].owned = TRUE]
          /\ pc' = "settle" /\ UNCHANGED <<live, spent>>
       \/ /\ spent.faults < MaxFaults /\ Spend("faults")
          /\ SettlesWith("failed", TRUE) /\ UNCHANGED intents
    /\ UNCHANGED <<destination, settings, runs, obs, page>>

\* The outcome is read back: published, not applied, or neither.  A problem the
\* readback cannot explain away blocks the final record.
FinalProblem(i) == IF live.blocked THEN live.problem ELSE UnchangedProblem(i)
Settle ==
    /\ pc = "settle"
    /\ LET i == live.run  t == Intent  else == IF live.problem = None THEN "failed" ELSE live.problem IN
       \/ Confirmed(t) /\ FinalProblem(i) = None /\ Finalized(i) /\ EndsWith(None)
       \/ Confirmed(t) /\ FinalProblem(i) # None /\ EndsWith(FinalProblem(i)) /\ UNCHANGED record
       \/ ~Confirmed(t) /\ MatchesExpected(t) /\ Settled(i, "not_applied") /\ EndsWith(else) /\ UNCHANGED runs
       \/ ~Confirmed(t) /\ ~MatchesExpected(t) /\ Settled(i, "unresolved") /\ EndsWith("unresolved")
          /\ UNCHANGED runs
    /\ UNCHANGED <<destination, settings, page, spent>>
SettleFails ==
    /\ pc = "settle" /\ spent.faults < MaxFaults /\ Spend("faults")
    /\ EndsWith("failed")
    /\ UNCHANGED <<destination, settings, record, page>>

MutantFinishRun ==                                    \* downgrades a complete run
    /\ pc = "finish"
    /\ runs' = [runs EXCEPT ![live.run].status = live.problem]
    /\ pc' = "idle" /\ live' = Nothing
    /\ UNCHANGED <<destination, settings, intents, obs, page, spent>>
\* finishRun, which cannot downgrade a run that is complete.
FinishRun ==
    /\ pc = "finish"
    /\ runs' = [runs EXCEPT ![live.run].status = IF @ = "complete" THEN @ ELSE live.problem]
    /\ pc' = "idle" /\ live' = Nothing
    /\ UNCHANGED <<destination, settings, intents, obs, page, spent>>

----------------------------------------------------------------------------
\* What others do meanwhile.

\* A push through the server waits for the lock; so does a change of the default
\* branch.  Another program in the folder does not.
LocalWrite ==
    /\ spent.writes < MaxWrites /\ Spend("writes")
    /\ \/ \E r \in Refs, c \in Local : refs[r] # c /\ refs' = [refs EXCEPT ![r] = c]
            /\ author' = [author EXCEPT ![r] = 0] /\ UNCHANGED head
       \/ \E r \in Refs \ {head} : refs[r] # None /\ refs' = [refs EXCEPT ![r] = None]
            /\ author' = [author EXCEPT ![r] = 0] /\ UNCHANGED head
       \/ \E r \in Refs \ {head} : refs[r] # None /\ head' = r
            /\ author' = [author EXCEPT ![Head] = 0] /\ UNCHANGED refs
    /\ UNCHANGED <<retained, settings, record, pc, live, page>>

\* Cancel; a deadline that passes stops a run at the same places.
Cancel ==
    /\ \E i \in Rows :
         /\ IsActive(i) /\ runs[i].stop = None /\ i = live.run
         /\ runs' = [runs EXCEPT ![i].stop = "cancelled"]
    /\ UNCHANGED <<destination, settings, intents, obs, pc, live, page, spent>>

\* configure and SetCredentials: a new address starts a new generation, another
\* sign-in may see fewer refs.  The stale run is cancelled (cancelSuperseded).
Configure ==
    /\ LockFree /\ spent.changes < MaxChanges /\ Spend("changes")
    /\ \/ \E s \in Settings : [overwrite |-> source.overwrite, follow |-> source.follow] # s
            /\ source' = [source EXCEPT !.authority = @ + 1, !.overwrite = s.overwrite, !.follow = s.follow]
       \/ source' = [source EXCEPT !.authority = @ + 1, !.generation = @ + 1,
                                   !.overwrite = FALSE, !.follow = FALSE]
       \/ source' = [source EXCEPT !.authority = @ + 1, !.signIn = source.authority + 1]
    /\ runs' = [i \in Rows |-> IF IsActive(i) /\ i = live.run /\ runs[i].stop = None
                               THEN [runs[i] EXCEPT !.stop = "superseded"] ELSE runs[i]]
    /\ UNCHANGED <<destination, writes, intents, obs, pc, live, page>>
ChangeRefWrites ==
    /\ spent.changes < MaxChanges /\ Spend("changes")
    /\ writes' \in RefWrites \ {writes}
    /\ UNCHANGED <<destination, source, record, pc, live, page>>

----------------------------------------------------------------------------
\* Crashes and recovery.

Crash ==
    /\ pc # "down" /\ spent.crashes < MaxCrashes /\ Spend("crashes")
    /\ pc' = "down" /\ live' = Nothing /\ page' = {}
    /\ UNCHANGED <<destination, settings, record>>

\* Reconcile: what no live run owns is interrupted or invalidated
\* (InterruptImportAuthority), and the open intents are read, a page at a time,
\* before the repository's lock is taken.
MutantInterrupted(i) == runs[i]                       \* forgets what a crash left
Interrupted(i) == IF IsActive(i) /\ i # live.run THEN [runs[i] EXCEPT !.status = "interrupted"] ELSE runs[i]
Invalidated(i) ==
    IF intents[i].status \in {"planning", "applied"} /\ i # live.run
    THEN WithStatus(intents[i], "invalidated") ELSE intents[i]
ReadPage ==
    /\ runs' = [i \in Rows |-> Interrupted(i)]
    /\ intents' = [i \in Rows |-> Invalidated(i)]
    /\ page' = {i \in Rows : IsOpen(i)}
    /\ UNCHANGED <<destination, settings, obs, live>>
Restart == pc = "down" /\ pc' = "idle" /\ ReadPage /\ UNCHANGED spent
ReconcileReady ==
    /\ pc # "down" /\ page = {} /\ spent.pages < MaxPages /\ Spend("pages")
    /\ ReadPage /\ UNCHANGED pc
ReconcilePage ==
    /\ LockFree /\ pc # "down"
    /\ \E i \in page :
         /\ \A j \in page : i <= j
         /\ page' = IF IsUnknown(i) THEN {} ELSE page \ {i}
         /\ ReconcileIntent(i)
    /\ UNCHANGED <<destination, settings, pc, live, spent>>

\* ResolveUnresolved: the owner accepts the repository as it is.
ResolveUnresolved ==
    /\ LockFree /\ pc # "down" /\ \A i \in Rows : ~IsActive(i)
    /\ \E i \in Rows : intents[i].status = "unresolved"
    /\ intents' = [i \in Rows |-> IF intents[i].status = "unresolved"
                                  THEN WithStatus(intents[i], "owner_resolved") ELSE intents[i]]
    /\ UNCHANGED <<destination, settings, runs, obs, pc, live, page, spent>>

RunStep ==
    \/ \E a \in Advertisements : Fetch(a)
    \/ LockRepository \/ EndEarly \/ ReconcileOlder \/ RecordIntent
    \/ SkipTransaction \/ RefuseTransaction \/ FirstTransaction \/ TransactionFails \/ SecondTransaction
    \/ RecordApplied \/ WriteHead \/ RecordHead \/ Settle \/ SettleFails \/ FinishRun

Next ==
    \/ \E i \in Rows : BeginRun(i)
    \/ RunStep
    \/ LocalWrite \/ Cancel
    \/ Configure \/ ChangeRefWrites
    \/ Crash \/ Restart \/ ReconcileReady \/ ReconcilePage \/ ResolveUnresolved

Spec == Init /\ [][Next]_vars
FairSpec == Spec /\ WF_vars(RunStep) /\ WF_vars(Restart)
----------------------------------------------------------------------------
(* Properties *)

IntentStatuses == {"none", "planning", "applied", "complete", "invalidated",
                   "not_applied", "unresolved", "owner_resolved"}
RunStatuses == {"none", "active", "complete", "cancelled", "superseded", "failed",
                "unresolved", "interrupted"}

Sources == [generation : 1..(MaxChanges + 1), authority : Nat, signIn : Nat,
            overwrite : BOOLEAN, follow : BOOLEAN]
RunRecords == [status : RunStatuses, stop : {None, "cancelled", "superseded"},
               source : Sources, writes : RefWrites]
RefFacts == UNION {[facts -> Values] : facts \in SUBSET Refs}
HeadFacts == [target : Refs \cup {None}, oid : Values]
IntentRecords ==
    [status : IntentStatuses, expected : RefFacts, desired : RefFacts, observed : RefFacts,
     retained : SUBSET Commits, kept : SUBSET Commits, owned : BOOLEAN,
     sourceHead : Refs \cup {None}, oldHead : HeadFacts, newHead : HeadFacts]
LiveRecords ==
    [run : 0..MaxRuns, adv : Advertisements \cup {FirstImport}, checked : 0..MaxRuns,
     todo : SUBSET Refs, problem : {None, "cancelled", "superseded", "failed", "unresolved"},
     blocked : BOOLEAN]

TypeOK ==
    /\ refs \in [Refs -> Values] /\ head \in Refs /\ retained \subseteq Commits
    /\ author \in [Refs \cup {Head} -> 0..MaxRuns]
    /\ source \in Sources /\ writes \in RefWrites
    /\ runs \in [Rows -> RunRecords] /\ intents \in [Rows -> IntentRecords]
    /\ obs \in [1..(MaxChanges + 1) -> [Refs \cup {Head} -> 0..MaxRuns]]
    /\ pc \in Early \cup Publishing \cup {"idle", "finish", "down"}
    /\ live \in LiveRecords /\ page \subseteq Rows
    /\ spent \in [writes : Nat, changes : 0..MaxChanges, faults : Nat, crashes : Nat, pages : Nat]
    /\ source.generation <= spent.changes + 1

\* Whoever publishes has a run and an intent, and a run that is over has a
\* problem or a complete record.
RunIsInOrder ==
    /\ pc \in {"idle", "down"} => live.run = 0
    /\ pc \in Early \cup Publishing => live.run \in Rows /\ IsActive(live.run)
    /\ pc \in Early => Intent.status = "none"
    /\ pc \in {"admitted", "staged"} => live.checked = 0
    /\ pc \in (Early \cup Publishing) \ {"settle"} => live.problem = None
    /\ pc \in Publishing => Intent.status \in {"planning", "applied"}
    /\ pc = "finish" => /\ live.run \in Rows /\ runs[live.run].status # "none"
                        /\ live.problem = None => runs[live.run].status = "complete"
    /\ \A i \in Rows : runs[i].status = "none" => intents[i].status = "none"
    /\ \A i \in page : intents[i].status # "none"

\* What an intent says of the tips it retires, and that a complete one kept them.
IntentsKeepTips ==
    \A i \in Rows : intents[i].status # "none" =>
        LET t == intents[i] IN
        /\ DOMAIN t.expected = DOMAIN t.desired /\ t.newHead.target \in Refs
        /\ runs[i].writes.keepHistory => \A r \in Changed(t) :
              \/ t.expected[r] = None \/ IsAncestor(t.expected[r], t.desired[r])
              \/ t.expected[r] \in t.retained
        /\ t.status = "complete" => t.retained \subseteq retained

\* Nobody publishes while the outcome of another run is open.
OthersAreSettled ==
    pc \in Publishing \cup {"locked"} => \A j \in Rows \ {live.run} :
        pc \in Publishing \/ j <= live.checked =>
            intents[j].status \notin {"planning", "applied", "unresolved"}

\* A run that is reported as stopped, or will be, has written nothing.
WroteNothing(i) == \A x \in Refs \cup {Head} : author[x] # i
StoppedRunsWroteNothing ==
    /\ \A i \in Rows : runs[i].status \in {"none", "cancelled", "superseded"} => WroteNothing(i)
    /\ pc \in Early \cup {"planned"} => WroteNothing(live.run)
    /\ pc \in {"settle", "finish"} /\ live.problem \in {"cancelled", "superseded"} => WroteNothing(live.run)
    /\ pc = "head" /\ Changed(Intent) = {} => WroteNothing(live.run)
    /\ pc \in {"second", "applied"} => Changed(Intent) # {}

\* While a run publishes, its source is the one it was admitted under, and what
\* is left to write is not guarded.
PublicationIsAuthorised ==
    /\ pc \in Publishing => ~AuthorityChanged(live.run)
    /\ pc = "second" => live.todo \subseteq Changed(Intent) \ Guarded(live.run)

\* What a generation has observed of a ref, a run of it recorded.
WasObserved(i, r) ==
    /\ runs[i].status = "complete" /\ runs[i].source.generation = source.generation
    /\ intents[i].status # "none" /\ r \in DOMAIN intents[i].observed
ObservationsAreRecorded ==
    \A g \in 1..(MaxChanges + 1), r \in Refs :
        LET i == obs[g][r] IN
        i # 0 => /\ runs[i].source.generation = g
                 /\ intents[i].status # "none" /\ r \in DOMAIN intents[i].observed

\* A plan changes what is absent, or what was observed and is unchanged since,
\* fast-forwarded, or may be overwritten.
MayChange(i, r, old, new) ==
    /\ WasObserved(i, r)
    /\ old = intents[i].observed[r] \/ source.overwrite \/ IsAncestor(old, new)
PlanIsObserved ==
    pc \in Publishing => \A r \in Changed(Intent) :
        \/ Intent.expected[r] = None
        \/ \E i \in Rows : MayChange(i, r, Intent.expected[r], Intent.desired[r])

\* The inductive invariant: what a run that publishes has found and planned
\* under the lock still holds of the records and of the repository's authors.
ImportInvariant ==
    /\ TypeOK /\ RunIsInOrder /\ IntentsKeepTips /\ OthersAreSettled
    /\ StoppedRunsWroteNothing /\ PublicationIsAuthorised
    /\ ObservationsAreRecorded /\ PlanIsObserved

\* One publication at a time: while a run writes, no intent of another run is
\* planned, applied or of unknown outcome (publishRepositoryLocked).
PublicationsDoNotOverlap ==
    pc \in Publishing => \A j \in Rows \ {live.run} :
        intents[j].status \notin {"planning", "applied", "unresolved"}

\* What a run reported as cancelled or superseded has written nothing that is
\* still there: a stop is honoured until refs are visible and ignored afterwards
\* (authorityCurrent, authorityUnchanged).
StoppedRunsLeaveNothing ==
    \A i \in Rows : runs[i].status \in {"cancelled", "superseded"} => WroteNothing(i)

\* With kept history, a publication recorded as complete has kept every tip it
\* replaced other than by a fast-forward (addRetention, observeIntent).
RetiredTipsAreKept ==
    \A i \in Rows : intents[i].status = "complete" /\ runs[i].writes.keepHistory =>
        \A r \in Changed(intents[i]) :
            LET old == intents[i].expected[r] IN
            old = None \/ IsAncestor(old, intents[i].desired[r]) \/ old \in retained

\* The steps of imports, those of other programs and of the owner left out.
ByImport == spent'.writes = spent.writes

\* An import replaces or deletes local work only where the owner chose so: it
\* changes a ref that is absent, or one that a complete run of this source
\* configuration has observed and that still holds an observed value, or is
\* fast-forwarded, or may be overwritten (mayReplaceLocal, planPublication).
\* What another program writes between the plan and the transaction is safe too.
LocalWorkIsKept ==
    [][ByImport => \A r \in Refs : refs'[r] # refs[r] =>
          \/ refs[r] = None
          \/ \E i \in Rows : MayChange(i, r, refs[r], refs'[r])]_vars

\* An import never deletes the branch HEAD names when it commits and, under
\* default branch protection, only fast-forwards it, wherever HEAD has moved
\* since the plan was made (lockHEADChain, validatePreparedHEADGuards).
DefaultBranchIsSafe ==
    [][ByImport /\ refs[head] # None /\ refs'[head] # refs[head] =>
          /\ refs'[head] # None
          /\ runs[live.run].writes.protect => IsAncestor(refs[head], refs'[head])]_vars

\* A run that was admitted ends, whatever stops it (execute, Reconcile).
RunsEnd == \A i \in Rows : IsActive(i) ~> ~IsActive(i)

\* What the owner resolved stays resolved: "ImportIntentOwnerResolved is
\* terminal" (state/imports.go).  It does not: a recovery reconciles the intents
\* of a page it read before the owner's decision and marks them unresolved again.
OwnerResolutionIsFinal ==
    [][\A i \in Rows : intents[i].status = "owner_resolved" => intents'[i].status = "owner_resolved"]_vars
=============================================================================
