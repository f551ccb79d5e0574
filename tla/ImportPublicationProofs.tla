----------------------- MODULE ImportPublicationProofs ----------------------
(***************************************************************************)
(* Proofs about ImportPublication: what a refresh may write holds for any  *)
(* branches, commits, answers of the source, and numbers of runs, stops,   *)
(* crashes and foreign writes.  Every step but an admission and the record *)
(* of a plan keeps what the runs and intents say (RecordsKept), and most   *)
(* conjuncts of ImportInvariant are about what they say.                   *)
(***************************************************************************)
EXTENDS ImportPublication, TLAPS

Answers == Advertisements \cup {FirstImport}

\* What an intent says, its status and ownership apart.
SameIntent(t, u) ==
    /\ u \in IntentRecords
    /\ u.expected = t.expected /\ u.desired = t.desired /\ u.observed = t.observed
    /\ u.retained = t.retained /\ u.newHead = t.newHead
    /\ u.status = "none" <=> t.status = "none"
SameRun(q, p) ==
    /\ p \in RunRecords
    /\ p.source = q.source /\ p.writes = q.writes
    /\ p.status = "none" <=> q.status = "none"
    /\ q.status = "complete" => p.status = "complete"
RecordsKept ==
    /\ intents' \in [Rows -> IntentRecords] /\ runs' \in [Rows -> RunRecords]
    /\ \A i \in Rows : SameIntent(intents[i], intents'[i]) /\ SameRun(runs[i], runs'[i])

-----------------------------------------------------------------------------
(* Types *)

\* The facts of an intent are about branches.
LEMMA FactTypes ==
    ASSUME NEW f \in RefFacts
    PROVE  DOMAIN f \subseteq Refs /\ \A r \in DOMAIN f : f[r] \in Values
  BY DEF RefFacts

\* Every set of branches has facts.
LEMMA FactsExist ==
    ASSUME NEW facts \in SUBSET Refs, NEW f, f \in [facts -> Values]
    PROVE  f \in RefFacts
  BY DEF RefFacts

\* The assumptions about what the source may answer.
LEMMA AnswerTypes ==
    ASSUME NEW a \in Answers
    PROVE  a.refs \in [Refs -> Values] /\ a.head \in Refs \cup {None}
  BY ConstantsAssumption DEF Answers, Values

\* An intent whose status is set still says the same.
LEMMA WithStatusSame ==
    ASSUME NEW t \in IntentRecords, t.status # "none",
           NEW s \in IntentStatuses, s # "none"
    PROVE  SameIntent(t, WithStatus(t, s)) /\ WithStatus(t, s).status = s
  <1>1. (t.owned /\ s \notin {"not_applied", "owner_resolved"}) \in BOOLEAN
    OBVIOUS
  <1>2. WithStatus(t, s) \in IntentRecords
    BY <1>1 DEF WithStatus, IntentRecords
  <1> QED
    BY <1>2 DEF WithStatus, IntentRecords, SameIntent

\* An intent that is not touched says the same, as does one that is applied.
LEMMA SameIntents ==
    ASSUME NEW t \in IntentRecords
    PROVE  /\ SameIntent(t, t)
           /\ t.status # "none" => \A s \in IntentStatuses \ {"none"} : SameIntent(t, [t EXCEPT !.status = s])
           /\ t.status # "none" => SameIntent(t, [t EXCEPT !.status = "applied", !.owned = TRUE])
  BY DEF SameIntent, IntentRecords, IntentStatuses

\* The same for runs.
LEMMA SameRuns ==
    ASSUME NEW q \in RunRecords
    PROVE  /\ SameRun(q, q)
           /\ q.status \notin {"none", "complete"} =>
                \A s \in RunStatuses \ {"none"} : SameRun(q, [q EXCEPT !.status = s])
           /\ q.status # "none" => SameRun(q, [q EXCEPT !.status = "complete"])
           /\ \A s \in {None, "cancelled", "superseded"} : SameRun(q, [q EXCEPT !.stop = s])
  BY DEF SameRun, RunRecords, RunStatuses

-----------------------------------------------------------------------------
(* The plan *)

\* A plan is a record of what it read and what it will write, and it keeps the
\* tips that it retires.
LEMMA PlanIsSound ==
    ASSUME TypeOK, NEW i \in Rows, NEW a \in Answers
    PROVE  LET t == Plan(i, a) IN
           /\ t \in IntentRecords /\ t.status = "planning"
           /\ DOMAIN t.expected = DOMAIN t.desired /\ t.newHead.target \in Refs
           /\ \A r \in DOMAIN t.desired : t.expected[r] = refs[r]
           /\ runs[i].writes.keepHistory => \A r \in Changed(t) :
                 \/ t.expected[r] = None \/ IsAncestor(t.expected[r], t.desired[r])
                 \/ t.expected[r] \in t.retained
  <1> DEFINE deleted == {r \in Refs : IsDeletable(r, a)}
             planned == Advertised(a) \cup deleted
             desired == [r \in planned |-> IF r \in deleted THEN None
                                           ELSE IF Follows(r, a.refs[r]) THEN a.refs[r] ELSE refs[r]]
             lost == {r \in planned : desired[r] # refs[r] /\ refs[r] # None /\ ~IsAncestor(refs[r], desired[r])}
             tips == IF runs[i].writes.keepHistory THEN {refs[r] : r \in lost} ELSE {}
             owned == a.head # None /\ OwnsHead
             target == IF owned THEN a.head ELSE head
             oid == IF target \in planned THEN desired[target]
                    ELSE IF owned THEN a.refs[target] ELSE refs[target]
             t == Plan(i, a)
  <1>1. t = [status |-> "planning",
             expected |-> [r \in planned |-> refs[r]], desired |-> desired, observed |-> Facts(a),
             retained |-> tips, kept |-> tips \cap retained,
             sourceHead |-> a.head, owned |-> owned /\ target = head,
             oldHead |-> [target |-> head, oid |-> refs[head]],
             newHead |-> [target |-> target, oid |-> oid]]
    BY DEF Plan
  <1>2. /\ a.refs \in [Refs -> Values] /\ a.head \in Refs \cup {None}
        /\ refs \in [Refs -> Values] /\ head \in Refs /\ None \in Values
        /\ planned \subseteq Refs /\ Advertised(a) \subseteq Refs
    BY AnswerTypes DEF TypeOK, Advertised, Values
  <1>3. desired \in [planned -> Values]
    BY <1>2
  <1>4. desired \in RefFacts /\ [r \in planned |-> refs[r]] \in RefFacts /\ Facts(a) \in RefFacts
    <2>1. [r \in planned |-> refs[r]] \in [planned -> Values]
      BY <1>2
    <2>2. Facts(a) \in [Advertised(a) -> Values]
      BY <1>2 DEF Facts
    <2> QED
      BY <1>2, <1>3, <2>1, <2>2, FactsExist
  <1>5. tips \subseteq Commits
    BY <1>2 DEF Values
  <1>6. target \in Refs
    BY <1>2
  <1>7. oid \in Values
    BY <1>2, <1>3, <1>6
  <1>8. (owned /\ target = head) \in BOOLEAN
    OBVIOUS
  <1>9. /\ [target |-> head, oid |-> refs[head]] \in HeadFacts
        /\ [target |-> target, oid |-> oid] \in HeadFacts
    BY <1>2, <1>6, <1>7 DEF HeadFacts
  <1>10. t \in IntentRecords
    <2> HIDE DEF t, desired, tips, target, oid, owned, planned
    <2> QED
      BY <1>1, <1>2, <1>4, <1>5, <1>8, <1>9 DEF IntentRecords, IntentStatuses
  <1>11. /\ t.status = "planning" /\ t.expected = [r \in planned |-> refs[r]]
         /\ t.desired = desired /\ t.retained = tips /\ t.newHead.target = target
    <2> HIDE DEF t, desired, tips, target, oid, owned, planned
    <2> QED
      BY <1>1
  <1>12. ASSUME runs[i].writes.keepHistory, NEW r \in Changed(t)
         PROVE  \/ t.expected[r] = None \/ IsAncestor(t.expected[r], t.desired[r])
                \/ t.expected[r] \in t.retained
    <2>1. r \in planned /\ desired[r] # refs[r] /\ t.expected[r] = refs[r] /\ t.desired[r] = desired[r]
      <3> HIDE DEF t, desired, tips, planned
      <3>1. DOMAIN desired = planned
        BY <1>3
      <3> QED
        BY <1>11, <1>12, <3>1 DEF Changed
    <2> HIDE DEF t, desired, planned
    <2> QED
      BY <1>11, <1>12, <2>1
  <1> HIDE DEF t, desired, tips, target, planned
  <1>13. DOMAIN t.expected = planned /\ DOMAIN t.desired = planned
         /\ \A r \in planned : t.expected[r] = refs[r]
    BY <1>3, <1>11
  <1> QED
    BY <1>6, <1>10, <1>11, <1>12, <1>13 DEF t

\* What a plan changes was absent, or observed by this configuration and still
\* what was observed, a fast-forward, or to be overwritten.
LEMMA PlanFollowsObservations ==
    ASSUME TypeOK, ObservationsAreRecorded, NEW i \in Rows, NEW a \in Answers,
           NEW r \in Changed(Plan(i, a)), refs[r] # None
    PROVE  \E j \in Rows : MayChange(j, r, refs[r], Plan(i, a).desired[r])
  <1> DEFINE j == Observer(r)
             new == Plan(i, a).desired[r]
  <1>1. /\ r \in Refs /\ new # refs[r]
        /\ \/ IsDeletable(r, a) /\ new = None
           \/ Follows(r, a.refs[r]) /\ new = a.refs[r]
    <2>1. r \in DOMAIN Plan(i, a).desired /\ new # Plan(i, a).expected[r]
      BY DEF Changed
    <2>2. /\ DOMAIN Plan(i, a).desired \subseteq Refs
          /\ Plan(i, a).expected[r] = refs[r]
      BY <2>1, PlanIsSound, FactTypes DEF IntentRecords
    <2>3. \/ IsDeletable(r, a) /\ new = None
          \/ Follows(r, a.refs[r]) /\ new = a.refs[r]
          \/ new = refs[r]
      BY <2>1 DEF Plan
    <2> QED
      BY <2>1, <2>2, <2>3
  <1>2. source.generation \in 1..(MaxChanges + 1)
    BY DEF TypeOK, Sources
  <1>3. j \in 0..MaxRuns
    BY <1>1, <1>2 DEF TypeOK, Observer
  <1>4. ASSUME Observed(r) # None PROVE j \in Rows /\ WasObserved(j, r) /\ Observed(r) = intents[j].observed[r]
    <2>1. j # 0 /\ runs[j].status = "complete" /\ Observed(r) = intents[j].observed[r]
      BY <1>4 DEF Observed, IsObserved
    <2>2. runs[j].source.generation = source.generation /\ intents[j].status # "none"
          /\ r \in DOMAIN intents[j].observed
      BY <1>1, <1>2, <2>1 DEF ObservationsAreRecorded, Observer
    <2> QED
      BY <1>3, <2>1, <2>2, ConstantsAssumption DEF WasObserved, Rows
  <1>5. CASE MayReplace(r)
    BY <1>4, <1>5 DEF MayReplace, MayChange
  <1>6. CASE IsAncestor(Observed(r), refs[r]) /\ IsAncestor(refs[r], a.refs[r]) /\ new = a.refs[r]
    <2>1. Observed(r) # None
      BY <1>1, <1>6, ConstantsAssumption DEF IsAncestor, TypeOK, Values
    <2> QED
      BY <1>4, <1>6, <2>1 DEF MayChange
  <1> QED
    BY <1>1, <1>5, <1>6 DEF IsDeletable, Follows

-----------------------------------------------------------------------------
(* What every step but an admission and a plan does *)

\* Nobody's intent is read or written under a number that is not a run's.
LEMMA RowTypes ==
    ASSUME TypeOK, NEW i \in Rows
    PROVE  intents[i] \in IntentRecords /\ runs[i] \in RunRecords /\ i # 0 /\ i \in 0..MaxRuns
  BY ConstantsAssumption DEF TypeOK, Rows

\* Who is recorded to have observed a branch is a run.
LEMMA ObserverRow ==
    ASSUME TypeOK, NEW g \in 1..(MaxChanges + 1), NEW r \in Refs, obs[g][r] # 0
    PROVE  obs[g][r] \in Rows
  BY ConstantsAssumption DEF TypeOK, Rows

\* Rows that are not touched say the same.
LEMMA UntouchedRecords ==
    ASSUME TypeOK, UNCHANGED <<runs, intents>>
    PROVE  RecordsKept
  BY SameIntents, SameRuns, RowTypes DEF TypeOK, RecordsKept

\* One intent and one run may be touched.
LEMMA TouchedRecords ==
    ASSUME TypeOK, NEW i \in Rows, NEW t, NEW q,
           SameIntent(intents[i], t), SameRun(runs[i], q),
           intents' = [intents EXCEPT ![i] = t], runs' = [runs EXCEPT ![i] = q]
    PROVE  /\ RecordsKept
           /\ intents'[i] = t /\ runs'[i] = q
           /\ \A j \in Rows : j # i => intents'[j] = intents[j] /\ runs'[j] = runs[j]
  <1>1. intents' \in [Rows -> IntentRecords] /\ runs' \in [Rows -> RunRecords]
    BY DEF TypeOK, SameIntent, SameRun
  <1>2. /\ intents'[i] = t /\ runs'[i] = q
        /\ \A j \in Rows : j # i => intents'[j] = intents[j] /\ runs'[j] = runs[j]
    BY DEF TypeOK
  <1> QED
    BY <1>1, <1>2, SameIntents, SameRuns, RowTypes DEF RecordsKept

\* What is settled is settled by what the destination shows.
SettledBy(i) ==
    /\ RecordsKept
    /\ \A j \in Rows : j # i => intents'[j] = intents[j] /\ runs'[j] = runs[j]
    /\ intents'[i].status \in {"complete", "invalidated", "not_applied", "unresolved"}
    /\ intents'[i].status = "complete" => intents[i].retained \subseteq retained
    /\ intents'[i].status = "unresolved" => ~Confirmed(intents[i]) /\ ~MatchesExpected(intents[i])
    /\ runs'[i].status \in {runs[i].status, "complete", "unresolved"}
    /\ obs' \in [1..(MaxChanges + 1) -> [Refs \cup {Head} -> 0..MaxRuns]]
    /\ ObservationsAreRecorded'

\* Observations name the runs that recorded them.
LEMMA ObservationsKept ==
    ASSUME TypeOK, ObservationsAreRecorded, RecordsKept, obs' = obs
    PROVE  ObservationsAreRecorded'
  <1> SUFFICES ASSUME NEW g \in 1..(MaxChanges + 1), NEW r \in Refs, obs[g][r] # 0
               PROVE  LET i == obs[g][r] IN
                      /\ runs'[i].source.generation = g
                      /\ intents'[i].status # "none" /\ r \in DOMAIN intents'[i].observed
    BY DEF ObservationsAreRecorded
  <1>1. obs[g][r] \in Rows
    BY ObserverRow
  <1> QED
    BY <1>1 DEF ObservationsAreRecorded, RecordsKept, SameIntent, SameRun

\* A finished publication is observed in the generation of its run.
LEMMA FinalizedIsSettled ==
    ASSUME TypeOK, ObservationsAreRecorded, NEW i \in Rows, intents[i].status # "none",
           runs[i].status # "none", Confirmed(intents[i]), Finalized(i)
    PROVE  SettledBy(i) /\ runs'[i].status = "complete"
  <1> DEFINE t == [intents[i] EXCEPT !.status = "complete"]
             q == [runs[i] EXCEPT !.status = "complete"]
             gen == runs[i].source.generation
  <1>1. SameIntent(intents[i], t) /\ SameRun(runs[i], q)
    BY RowTypes, SameIntents, SameRuns DEF IntentStatuses
  <1>2. intents' = [intents EXCEPT ![i] = t] /\ runs' = [runs EXCEPT ![i] = q]
    BY DEF Finalized, TypeOK
  <1>3. t.status = "complete" /\ q.status = "complete"
    BY RowTypes DEF IntentRecords, RunRecords
  <1>4. /\ RecordsKept /\ intents'[i] = t /\ runs'[i] = q
        /\ \A j \in Rows : j # i => intents'[j] = intents[j] /\ runs'[j] = runs[j]
    <2> HIDE DEF t, q
    <2> QED
      BY <1>1, <1>2, TouchedRecords, ZenonT(60)
  <1>5. gen \in 1..(MaxChanges + 1)
    BY RowTypes DEF RunRecords, Sources
  <1>6. obs' = [obs EXCEPT ![gen] = [r \in Refs \cup {Head} |->
                  IF r \in DOMAIN intents[i].observed \cup {Head} THEN i
                  ELSE IF r \in DOMAIN intents[i].desired THEN 0 ELSE obs[gen][r]]]
    BY DEF Finalized
  <1>7. obs' \in [1..(MaxChanges + 1) -> [Refs \cup {Head} -> 0..MaxRuns]]
    <2> HIDE DEF gen
    <2>1. i \in 0..MaxRuns /\ 0 \in 0..MaxRuns
      BY RowTypes, ConstantsAssumption
    <2> QED
      BY <1>5, <1>6, <2>1 DEF TypeOK
  <1>8. ObservationsAreRecorded'
    <2> SUFFICES ASSUME NEW g \in 1..(MaxChanges + 1), NEW r \in Refs, obs'[g][r] # 0
                 PROVE  LET k == obs'[g][r] IN
                        /\ runs'[k].source.generation = g
                        /\ intents'[k].status # "none" /\ r \in DOMAIN intents'[k].observed
      BY DEF ObservationsAreRecorded
    <2>1. CASE g = gen /\ r \in DOMAIN intents[i].observed
      <3>1. obs'[g][r] = i
        <4> HIDE DEF gen
        <4> QED
          BY <1>5, <1>6, <2>1 DEF TypeOK
      <3> QED
        BY <1>1, <1>3, <1>4, <2>1, <3>1, ZenonT(60) DEF SameIntent, SameRun
    <2>2. CASE ~(g = gen /\ r \in DOMAIN intents[i].observed)
      <3>1. obs'[g][r] = obs[g][r]
        <4> HIDE DEF gen
        <4>1. r # Head
          BY ConstantsAssumption DEF Head
        <4> QED
          BY <1>5, <1>6, <2>2, <4>1 DEF TypeOK
      <3>2. obs[g][r] \in Rows
        BY <3>1, ObserverRow
      <3> QED
        BY <1>4, <3>1, <3>2 DEF ObservationsAreRecorded, RecordsKept, SameIntent, SameRun
    <2> QED
      BY <2>1, <2>2
  <1>9. intents[i].retained \subseteq retained
    BY DEF Confirmed, RetentionComplete
  <1> QED
    BY <1>3, <1>4, <1>7, <1>8, <1>9 DEF SettledBy

\* An intent that is settled with a status of its own.
LEMMA SettledIsSettled ==
    ASSUME TypeOK, ObservationsAreRecorded, NEW i \in Rows, intents[i].status # "none",
           NEW s \in {"invalidated", "not_applied", "unresolved"}, Settled(i, s),
           s = "unresolved" => ~Confirmed(intents[i]) /\ ~MatchesExpected(intents[i]),
           NEW q, SameRun(runs[i], q), q.status \in {runs[i].status, "unresolved"},
           runs' = [runs EXCEPT ![i] = q]
    PROVE  SettledBy(i) /\ intents'[i].status = s
  <1> DEFINE t == WithStatus(intents[i], s)
  <1>1. SameIntent(intents[i], t) /\ t.status = s
    BY RowTypes, WithStatusSame DEF IntentStatuses
  <1>2. intents' = [intents EXCEPT ![i] = t] /\ obs' = obs
    BY DEF Settled
  <1>3. /\ RecordsKept /\ intents'[i] = t /\ runs'[i] = q
        /\ \A j \in Rows : j # i => intents'[j] = intents[j] /\ runs'[j] = runs[j]
    <2> HIDE DEF t
    <2> QED
      BY <1>1, <1>2, TouchedRecords, ZenonT(60)
  <1>4. ObservationsAreRecorded'
    BY <1>2, <1>3, ObservationsKept
  <1> QED
    BY <1>1, <1>2, <1>3, <1>4 DEF SettledBy, TypeOK

\* A reconciliation settles one intent, and only by what it sees.
LEMMA ReconcileSettles ==
    ASSUME TypeOK, ObservationsAreRecorded, NEW i \in Rows, intents[i].status # "none",
           runs[i].status # "none", ReconcileIntent(i)
    PROVE  SettledBy(i)
  <1>1. CASE Confirmed(intents[i]) /\ Finalized(i)
    BY <1>1, FinalizedIsSettled
  <1>2. CASE Settled(i, IF AuthorityChanged(i) THEN "invalidated" ELSE "not_applied") /\ UNCHANGED runs
    <2>1. PICK s \in {"invalidated", "not_applied"} : Settled(i, s)
      BY <1>2
    <2>2. SameRun(runs[i], runs[i]) /\ runs' = [runs EXCEPT ![i] = runs[i]]
      BY <1>2, RowTypes, SameRuns DEF TypeOK
    <2> QED
      BY <2>1, <2>2, SettledIsSettled
  <1>3. CASE /\ IsUnknown(i) /\ Settled(i, "unresolved")
             /\ runs' = [runs EXCEPT ![i].status = IF @ = "interrupted" THEN "unresolved" ELSE @]
    <2> DEFINE q == [runs[i] EXCEPT !.status = IF @ = "interrupted" THEN "unresolved" ELSE @]
    <2>1. runs' = [runs EXCEPT ![i] = q]
      BY <1>3 DEF TypeOK
    <2>2. SameRun(runs[i], q) /\ q.status \in {runs[i].status, "unresolved"}
      BY RowTypes DEF SameRun, RunRecords, RunStatuses
    <2> HIDE DEF q
    <2> QED
      BY <1>3, <2>1, <2>2, SettledIsSettled DEF IsUnknown
  <1> QED
    BY <1>1, <1>2, <1>3 DEF ReconcileIntent

Problems == {None, "cancelled", "superseded", "failed", "unresolved"}

\* A run ends with a problem.
LEMMA EndsWithProblem ==
    ASSUME TypeOK, NEW p \in Problems, EndsWith(p)
    PROVE  live' \in LiveRecords /\ live'.run = live.run /\ live'.problem = p /\ pc' = "finish"
  <1>1. Nothing \in LiveRecords
    BY ConstantsAssumption DEF Nothing, LiveRecords
  <1>2. live.run \in 0..MaxRuns
    BY DEF TypeOK, LiveRecords
  <1>3. pc' = "finish" /\ live' = [Nothing EXCEPT !.run = live.run, !.problem = p]
    BY DEF EndsWith
  <1> QED
    BY <1>1, <1>2, <1>3 DEF LiveRecords, Problems

\* A run turns to its settlement with a problem.
LEMMA SettlesWithProblem ==
    ASSUME TypeOK, NEW p \in Problems, NEW b \in BOOLEAN, SettlesWith(p, b)
    PROVE  live' \in LiveRecords /\ live'.run = live.run /\ live'.problem = p /\ pc' = "settle"
  BY DEF SettlesWith, Problem, LiveRecords, TypeOK, Problems

\* Why a run is stopped.
LEMMA AuthorityProblems ==
    ASSUME TypeOK, NEW i \in Rows
    PROVE  /\ AuthorityProblem(i) \in {None, "cancelled", "superseded"}
           /\ AuthorityProblem(i) = None => ~AuthorityChanged(i)
           /\ ~AuthorityChanged(i) => UnchangedProblem(i) = None
           /\ UnchangedProblem(i) \in {None, "superseded"}
  BY RowTypes, ConstantsAssumption DEF AuthorityProblem, UnchangedProblem, RunRecords

\* A disturbance is counted.
LEMMA SpendTypes ==
    ASSUME TypeOK, NEW what \in {"writes", "faults", "crashes", "pages"}, Spend(what)
    PROVE  /\ spent' \in [writes : Nat, changes : 0..MaxChanges, faults : Nat, crashes : Nat, pages : Nat]
           /\ spent'.changes = spent.changes
  <1> DEFINE S == [writes : Nat, changes : 0..MaxChanges, faults : Nat, crashes : Nat, pages : Nat]
  <1>1. spent \in S /\ spent' = [spent EXCEPT ![what] = @ + 1]
    BY DEF TypeOK, Spend
  <1>2. CASE what = "writes"
    BY <1>1, <1>2
  <1>3. CASE what = "faults"
    BY <1>1, <1>3
  <1>4. CASE what = "crashes"
    BY <1>1, <1>4
  <1>5. CASE what = "pages"
    BY <1>1, <1>5
  <1> QED
    BY <1>2, <1>3, <1>4, <1>5

\* A step that keeps what runs and intents say, as all but an admission and the
\* record of a plan do.
KeepsPlan ==
    /\ RecordsKept /\ ObservationsAreRecorded'
    /\ retained \subseteq retained'
    /\ \A i \in Rows : intents'[i].status = "complete" =>
          intents[i].status = "complete" \/ intents[i].retained \subseteq retained
    /\ pc' \in Publishing => pc \in Publishing /\ live'.run = live.run /\ source' = source
    /\ pc' = "second" => live'.todo \subseteq Changed(Intent) \ Guarded(live.run)

\* Such a step keeps what the plans say and what was observed.
LEMMA PlanKept ==
    ASSUME ImportInvariant, TypeOK', KeepsPlan
    PROVE  IntentsKeepTips' /\ PublicationIsAuthorised' /\ ObservationsAreRecorded' /\ PlanIsObserved'
  <1>r. /\ TypeOK /\ RunIsInOrder /\ IntentsKeepTips /\ PublicationIsAuthorised /\ PlanIsObserved
        /\ RecordsKept /\ retained \subseteq retained'
    BY DEF ImportInvariant, KeepsPlan
  <1>1. \A i \in Rows : Changed(intents'[i]) = Changed(intents[i])
    BY <1>r DEF RecordsKept, SameIntent, Changed
  <1>2. IntentsKeepTips'
    <2> SUFFICES ASSUME NEW i \in Rows, intents'[i].status # "none"
                 PROVE  LET t == intents'[i] IN
                        /\ DOMAIN t.expected = DOMAIN t.desired /\ t.newHead.target \in Refs
                        /\ runs'[i].writes.keepHistory => \A r \in Changed(t) :
                              \/ t.expected[r] = None \/ IsAncestor(t.expected[r], t.desired[r])
                              \/ t.expected[r] \in t.retained
                        /\ t.status = "complete" => t.retained \subseteq retained'
      BY DEF IntentsKeepTips, Changed
    <2>1. SameIntent(intents[i], intents'[i]) /\ SameRun(runs[i], runs'[i])
      BY <1>r DEF RecordsKept
    <2>2. intents'[i].status = "complete" => intents'[i].retained \subseteq retained'
      BY <1>r, <2>1 DEF KeepsPlan, IntentsKeepTips, SameIntent
    <2> QED
      BY <1>r, <1>1, <2>1, <2>2 DEF IntentsKeepTips, SameIntent, SameRun
  <1>3. ASSUME pc' \in Publishing
        PROVE  /\ pc \in Publishing /\ live'.run = live.run /\ source' = source /\ live.run \in Rows
               /\ SameIntent(Intent, intents'[live.run]) /\ SameRun(runs[live.run], runs'[live.run])
    BY <1>3, <1>r DEF KeepsPlan, RunIsInOrder, RecordsKept, Intent
  <1>4. PublicationIsAuthorised'
    <2>1. ASSUME pc' \in Publishing PROVE ~AuthorityChanged(live.run)'
      BY <1>3, <1>r, <2>1 DEF PublicationIsAuthorised, AuthorityChanged, SameRun
    <2>2. ASSUME pc' = "second" PROVE live'.todo \subseteq (Changed(Intent) \ Guarded(live.run))'
      <3>1. pc' \in Publishing
        BY <2>2 DEF Publishing
      <3>2. Changed(Intent)' = Changed(Intent)
        BY <1>1, <1>3, <3>1 DEF Intent
      <3>3. Guarded(live.run)' = Guarded(live.run)
        BY <1>1, <1>3, <3>1 DEF Guarded, Intent, SameIntent, SameRun, IsAncestor
      <3> QED
        BY <2>2, <3>2, <3>3 DEF KeepsPlan
    <2> QED
      BY <2>1, <2>2 DEF PublicationIsAuthorised
  <1>5. PlanIsObserved'
    <2> SUFFICES ASSUME pc' \in Publishing, NEW r \in Changed(Intent)', Intent'.expected[r] # None
                 PROVE  \E i \in Rows : MayChange(i, r, Intent.expected[r], Intent.desired[r])'
      BY DEF PlanIsObserved
    <2>1. /\ Changed(Intent)' = Changed(Intent)
          /\ Intent'.expected = Intent.expected /\ Intent'.desired = Intent.desired
      BY <1>1, <1>3 DEF Intent, SameIntent
    <2>2. PICK i \in Rows : MayChange(i, r, Intent.expected[r], Intent.desired[r])
      BY <1>3, <1>r, <2>1 DEF PlanIsObserved
    <2>3. SameIntent(intents[i], intents'[i]) /\ SameRun(runs[i], runs'[i])
      BY <1>r DEF RecordsKept
    <2>4. MayChange(i, r, Intent.expected[r], Intent.desired[r])'
      <3>1. WasObserved(i, r)'
        BY <1>3, <2>1, <2>2, <2>3 DEF MayChange, WasObserved, SameIntent, SameRun
      <3>2. \/ Intent'.expected[r] = intents'[i].observed[r] \/ source'.overwrite
            \/ IsAncestor(Intent.expected[r], Intent.desired[r])
        BY <1>3, <2>1, <2>2, <2>3 DEF MayChange, SameIntent
      <3> QED
        BY <2>1, <3>1, <3>2 DEF MayChange, IsAncestor
    <2> QED
      BY <2>4
  <1> QED
    BY <1>2, <1>4, <1>5 DEF KeepsPlan

\* A step that touches neither the records nor the folder, other than with the
\* bounds and what the run holds in memory.
MemoryStep ==
    UNCHANGED <<destination, settings, record, page>> /\ live'.run = live.run

\* It keeps what runs and intents say.
LEMMA MemoryKeeps ==
    ASSUME ImportInvariant, MemoryStep,
           pc' \in Publishing => pc \in Publishing, pc' # "second"
    PROVE  KeepsPlan
  <1>1. TypeOK /\ ObservationsAreRecorded /\ UNCHANGED <<refs, head, retained, source, runs, intents, obs, live.run>>
    BY DEF ImportInvariant, MemoryStep, destination, settings, record
  <1>2. RecordsKept /\ ObservationsAreRecorded'
    BY <1>1, UntouchedRecords, ObservationsKept
  <1> QED
    BY <1>1, <1>2 DEF KeepsPlan

\* A step of the live run in memory keeps the invariant when it ends with a
\* problem that says no more than is known of its writes.
LEMMA MemoryInvariant ==
    ASSUME ImportInvariant, MemoryStep, live' \in LiveRecords,
           UNCHANGED spent \/ Spend("faults"),
           pc' \in Early \cup Publishing \cup {"finish"}, pc \in Early \cup Publishing,
           pc' \in Publishing => pc \in Publishing, pc' \notin {"second", "applied"},
           pc' \in Early \cup {"planned"} => pc \in Early,
           pc' \in {"admitted", "staged", "locked"} => pc \in {"admitted", "staged"} /\ live'.checked = 0,
           pc' = "finish" => live'.problem # None,
           pc' \in {"settle", "finish"} /\ live'.problem \in {"cancelled", "superseded"} => WroteNothing(live.run),
           pc' = "head" => pc = "planned",
           pc' \notin {"settle", "finish"} => live'.problem = live.problem /\ pc # "settle"
    PROVE  ImportInvariant'
  <1>1. /\ TypeOK /\ RunIsInOrder /\ OthersAreSettled /\ StoppedRunsWroteNothing
        /\ UNCHANGED <<refs, head, retained, author, source, writes, runs, intents, obs, page>> /\ live'.run = live.run
    BY DEF ImportInvariant, MemoryStep, destination, settings, record
  <1>2. TypeOK'
    BY <1>1, SpendTypes DEF TypeOK
  <1>3. KeepsPlan
    BY <1>1, MemoryKeeps
  <1>4. Intent' = Intent
    BY <1>1 DEF Intent
  <1>5. RunIsInOrder'
    BY <1>1, <1>4 DEF RunIsInOrder, IsActive, Early, Publishing
  <1>6. OthersAreSettled'
    <2>1. live'.checked \in 0..MaxRuns /\ \A j \in Rows : ~(j <= 0)
      BY DEF LiveRecords, Rows
    <2> QED
      BY <1>1, <2>1 DEF OthersAreSettled, Early, Publishing
  <1>7. StoppedRunsWroteNothing'
    <2>1. \A i \in Rows : WroteNothing(i)' <=> WroteNothing(i)
      BY <1>1 DEF WroteNothing
    <2>2. live.run \in Rows
      BY <1>1 DEF RunIsInOrder
    <2> QED
      BY <1>1, <1>4, <2>1, <2>2 DEF StoppedRunsWroteNothing, Early, Publishing, WroteNothing
  <1> QED
    BY <1>2, <1>3, <1>5, <1>6, <1>7, PlanKept DEF ImportInvariant

-----------------------------------------------------------------------------
(* The steps of a run *)

\* While a run is under way it has a row, an intent and what it holds in memory.
LEMMA LiveRun ==
    ASSUME ImportInvariant, pc \in Early \cup Publishing
    PROVE  /\ live \in LiveRecords /\ live.run \in Rows /\ live.run # 0 /\ IsActive(live.run)
           /\ Intent \in IntentRecords /\ runs[live.run] \in RunRecords
           /\ pc \in Publishing => ~AuthorityChanged(live.run) /\ Intent.status \in {"planning", "applied"}
           /\ pc \in Early => Intent.status = "none" /\ WroteNothing(live.run)
  <1>1. live \in LiveRecords /\ live.run \in Rows /\ IsActive(live.run)
    BY DEF ImportInvariant, TypeOK, RunIsInOrder
  <1>2. /\ pc \in Publishing => ~AuthorityChanged(live.run) /\ Intent.status \in {"planning", "applied"}
        /\ pc \in Early => Intent.status = "none" /\ WroteNothing(live.run)
    BY DEF ImportInvariant, RunIsInOrder, PublicationIsAuthorised, StoppedRunsWroteNothing
  <1> QED
    BY <1>1, <1>2, RowTypes DEF ImportInvariant, Intent

\* Fetching, locking, and ending before anything is recorded.
LEMMA EarlySteps ==
    ASSUME ImportInvariant, (\E a \in Advertisements : Fetch(a)) \/ LockRepository \/ EndEarly
    PROVE  ImportInvariant'
  <1>1. CASE \E a \in Advertisements : Fetch(a)
    <2>1. PICK a \in Advertisements : Fetch(a)
      BY <1>1
    <2>2. live \in LiveRecords /\ pc = "admitted" /\ live.checked = 0
      BY <2>1 DEF Fetch, ImportInvariant, TypeOK, RunIsInOrder
    <2>3. /\ live' \in LiveRecords /\ live'.run = live.run
          /\ live'.checked = 0 /\ live'.problem = live.problem
      BY <2>1, <2>2 DEF Fetch, LiveRecords
    <2>4. MemoryStep
      BY <2>1, <2>3 DEF Fetch, MemoryStep
    <2> QED
      BY <2>1, <2>2, <2>3, <2>4, MemoryInvariant DEF Fetch, Early, Publishing
  <1>2. CASE LockRepository
    <2>1. live \in LiveRecords /\ pc = "staged" /\ live.checked = 0
      BY <1>2 DEF LockRepository, ImportInvariant, TypeOK, RunIsInOrder
    <2>2. MemoryStep
      BY <1>2 DEF LockRepository, MemoryStep
    <2> QED
      BY <1>2, <2>1, <2>2, MemoryInvariant DEF LockRepository, Early, Publishing
  <1>3. CASE EndEarly
    <2> DEFINE p == IF AuthorityProblem(live.run) # None THEN AuthorityProblem(live.run) ELSE "failed"
    <2>1. live.run \in Rows /\ TypeOK /\ WroteNothing(live.run) /\ pc \in Early
      BY <1>3, LiveRun DEF EndEarly, ImportInvariant
    <2>2. p \in Problems /\ p # None
      BY <2>1, AuthorityProblems, ConstantsAssumption DEF Problems
    <2>3. EndsWith(p)
      BY <1>3 DEF EndEarly
    <2>4. live' \in LiveRecords /\ live'.run = live.run /\ live'.problem = p /\ pc' = "finish"
      <3> HIDE DEF p
      <3> QED
        BY <2>1, <2>2, <2>3, EndsWithProblem
    <2>5. MemoryStep
      BY <1>3, <2>4 DEF EndEarly, MemoryStep
    <2> HIDE DEF p
    <2> QED
      BY <1>3, <2>1, <2>2, <2>4, <2>5, MemoryInvariant DEF EndEarly, Early, Publishing
  <1> QED
    BY <1>1, <1>2, <1>3

\* A publication that turns to its settlement, with nothing written by this step.
LEMMA SettlesInMemory ==
    ASSUME ImportInvariant, pc \in Publishing \ {"settle"}, NEW p \in Problems, NEW b \in BOOLEAN,
           SettlesWith(p, b), UNCHANGED <<destination, settings, record, page>>,
           UNCHANGED spent \/ Spend("faults"),
           p \in {"cancelled", "superseded"} => WroteNothing(live.run)
    PROVE  ImportInvariant'
  <1>1. live' \in LiveRecords /\ live'.run = live.run /\ live'.problem = p /\ pc' = "settle"
    BY SettlesWithProblem DEF ImportInvariant
  <1>2. MemoryStep
    BY <1>1 DEF MemoryStep
  <1> QED
    BY <1>1, <1>2, MemoryInvariant DEF Early, Publishing

\* Before the first transaction.
LEMMA PlannedSteps ==
    ASSUME ImportInvariant, SkipTransaction \/ RefuseTransaction
    PROVE  ImportInvariant'
  <1>1. pc = "planned" /\ pc \in Publishing /\ live.run \in Rows /\ TypeOK /\ live \in LiveRecords
    BY LiveRun DEF SkipTransaction, RefuseTransaction, Publishing, ImportInvariant, TypeOK
  <1>2. WroteNothing(live.run)
    BY <1>1 DEF ImportInvariant, StoppedRunsWroteNothing
  <1>3. UNCHANGED <<destination, settings, record, page, spent>>
    BY DEF SkipTransaction, RefuseTransaction
  <1>4. ASSUME NEW p \in Problems, NEW b \in BOOLEAN, SettlesWith(p, b)
        PROVE  ImportInvariant'
    BY <1>1, <1>2, <1>3, <1>4, SettlesInMemory
  <1>5. CASE pc' = Next2 /\ UNCHANGED live
    <2>1. pc' \in {"head", "settle"} /\ MemoryStep
      BY <1>3, <1>5 DEF Next2, MemoryStep
    <2> QED
      BY <1>1, <1>2, <1>3, <1>5, <2>1, MemoryInvariant DEF Early, Publishing
  <1>6. AuthorityProblem(live.run) \in Problems /\ "failed" \in Problems
    BY <1>1, AuthorityProblems DEF Problems
  <1> QED
    BY <1>4, <1>5, <1>6 DEF SkipTransaction, RefuseTransaction

\* What a write leaves alone, and what it must show of the run that writes: it
\* has an intent with changes, or moves HEAD.
LEMMA WritingInvariant ==
    ASSUME ImportInvariant, pc \in Publishing, UNCHANGED <<settings, record, page>>,
           refs' \in [Refs -> Values], head' \in Refs, retained' \subseteq Commits, retained \subseteq retained',
           author' \in [Refs \cup {Head} -> 0..MaxRuns],
           \A x \in Refs \cup {Head} : author'[x] \in {author[x], live.run},
           live' \in LiveRecords, live'.run = live.run, UNCHANGED spent \/ Spend("faults"),
           pc' \in {"second", "applied", "written", "settle"},
           pc' \in {"second", "applied"} => Changed(Intent) # {},
           pc' = "settle" => live'.problem = "failed",
           pc' # "settle" => live'.problem = live.problem /\ pc # "settle",
           pc' = "second" => live'.todo \subseteq Changed(Intent) \ Guarded(live.run)
    PROVE  ImportInvariant'
  <1>1. /\ TypeOK /\ RunIsInOrder /\ OthersAreSettled /\ StoppedRunsWroteNothing /\ ObservationsAreRecorded
        /\ UNCHANGED <<source, writes, runs, intents, obs, page>>
        /\ live.run \in Rows /\ IsActive(live.run)
    BY LiveRun DEF ImportInvariant, settings, record
  <1>2. pc' \in Publishing
    BY DEF Publishing
  <1>3. TypeOK'
    BY <1>1, <1>2, SpendTypes DEF TypeOK
  <1>4. KeepsPlan
    <2>1. RecordsKept /\ ObservationsAreRecorded'
      BY <1>1, UntouchedRecords, ObservationsKept
    <2> QED
      BY <1>1, <2>1 DEF KeepsPlan
  <1>5. Intent' = Intent /\ Changed(Intent)' = Changed(Intent)
    BY <1>1 DEF Intent, Changed
  <1>6. RunIsInOrder'
    BY <1>1, <1>2, <1>5 DEF RunIsInOrder, IsActive, Early, Publishing
  <1>7. OthersAreSettled'
    BY <1>1, <1>2 DEF OthersAreSettled
  <1>8. StoppedRunsWroteNothing'
    <2>1. \A i \in Rows : runs[i].status \in {"none", "cancelled", "superseded"} => i # live.run
      BY <1>1 DEF IsActive
    <2>2. \A i \in Rows : i # live.run /\ WroteNothing(i) => WroteNothing(i)'
      BY DEF WroteNothing
    <2> QED
      BY <1>1, <1>5, <2>1, <2>2, ConstantsAssumption DEF StoppedRunsWroteNothing, Early
  <1> QED
    BY <1>3, <1>4, <1>6, <1>7, <1>8, PlanKept DEF ImportInvariant

\* The set a transaction writes, and what the branches then hold.
LEMMA WriteTypes ==
    ASSUME ImportInvariant, pc \in Publishing, NEW set, set \subseteq Changed(Intent), Write(set)
    PROVE  /\ refs' \in [Refs -> Values] /\ author' \in [Refs \cup {Head} -> 0..MaxRuns]
           /\ \A x \in Refs \cup {Head} : author'[x] \in {author[x], live.run}
           /\ \A r \in Refs : refs'[r] = IF r \in set THEN Intent.desired[r] ELSE refs[r]
  <1>1. TypeOK /\ Intent \in IntentRecords /\ live.run \in Rows /\ live.run \in 0..MaxRuns
    BY LiveRun, RowTypes DEF ImportInvariant
  <1>2. Changed(Intent) \subseteq Refs /\ \A r \in Changed(Intent) : Intent.desired[r] \in Values
    BY <1>1, FactTypes DEF IntentRecords, Changed
  <1> QED
    BY <1>1, <1>2 DEF Write, TypeOK

\* With changes that are guarded, what the second transaction writes is not.
LEMMA RestIsUnguarded ==
    ASSUME NEW i, GuardsHold(i)
    PROVE  /\ SecondWrites(i) \subseteq Changed(intents[i]) \ Guarded(i)
           /\ FirstWrites(i) \subseteq Changed(intents[i])
  BY DEF GuardsHold, SecondWrites, FirstWrites

\* The transactions, with what a failed one may have done.
LEMMA Transactions ==
    ASSUME ImportInvariant, FirstTransaction \/ SecondTransaction \/ TransactionFails
    PROVE  ImportInvariant'
  <1>1. pc \in {"planned", "second"} /\ pc \in Publishing
    BY DEF FirstTransaction, SecondTransaction, TransactionFails, Publishing
  <1>2. /\ TypeOK /\ live \in LiveRecords /\ live.run \in Rows /\ Intent \in IntentRecords
        /\ head \in Refs /\ retained \subseteq Commits
        /\ Intent.retained \subseteq Commits /\ Changed(Intent) \subseteq Refs
        /\ pc = "second" => live.todo \subseteq Changed(Intent) /\ Changed(Intent) # {}
    <2>1. TypeOK /\ live \in LiveRecords /\ live.run \in Rows /\ Intent \in IntentRecords
      BY <1>1, LiveRun DEF ImportInvariant
    <2>2. Changed(Intent) \subseteq Refs
      BY <2>1, FactTypes DEF IntentRecords, Changed
    <2> QED
      BY <2>1, <2>2 DEF TypeOK, IntentRecords, ImportInvariant, PublicationIsAuthorised, StoppedRunsWroteNothing
  <1>3. CASE FirstTransaction
    <2> DEFINE rest == SecondWrites(live.run)
    <2>1. /\ Changed(Intent) # {} /\ GuardsHold(live.run) /\ Write(FirstWrites(live.run))
          /\ retained' = retained \cup Intent.retained
          /\ pc' = (IF rest = {} THEN "applied" ELSE "second") /\ live' = [live EXCEPT !.todo = rest]
          /\ UNCHANGED <<head, settings, record, page, spent>>
      BY <1>3 DEF FirstTransaction, MayCommit
    <2>2. rest \subseteq Changed(Intent) \ Guarded(live.run) /\ FirstWrites(live.run) \subseteq Changed(Intent)
      BY <2>1, RestIsUnguarded DEF Intent
    <2>3. /\ refs' \in [Refs -> Values] /\ author' \in [Refs \cup {Head} -> 0..MaxRuns]
          /\ \A x \in Refs \cup {Head} : author'[x] \in {author[x], live.run}
      BY <1>1, <2>1, <2>2, WriteTypes
    <2>4. /\ live' \in LiveRecords /\ live'.run = live.run
          /\ live'.todo = rest /\ live'.problem = live.problem
      <3> HIDE DEF rest
      <3> QED
        BY <1>2, <2>1, <2>2 DEF LiveRecords
    <2> HIDE DEF rest
    <2> QED
      BY <1>1, <1>2, <2>1, <2>2, <2>3, <2>4, WritingInvariant
  <1>4. CASE SecondTransaction /\ Write(live.todo) /\ pc' = "applied" /\ live' = [live EXCEPT !.todo = {}]
    <2>1. pc = "second" /\ UNCHANGED <<head, retained, settings, record, page, spent>>
      BY <1>4 DEF SecondTransaction
    <2>2. /\ refs' \in [Refs -> Values] /\ author' \in [Refs \cup {Head} -> 0..MaxRuns]
          /\ \A x \in Refs \cup {Head} : author'[x] \in {author[x], live.run}
      BY <1>1, <1>2, <1>4, <2>1, WriteTypes
    <2>3. live' \in LiveRecords /\ live'.run = live.run /\ live'.problem = live.problem
      BY <1>2, <1>4 DEF LiveRecords
    <2> QED
      BY <1>1, <1>2, <1>4, <2>1, <2>2, <2>3, WritingInvariant
  <1>5. CASE SecondTransaction /\ UNCHANGED <<refs, author>> /\ SettlesWith("failed", FALSE)
    <2>1. UNCHANGED <<destination, settings, record, page, spent>> /\ pc = "second"
      BY <1>5 DEF SecondTransaction, destination
    <2> QED
      BY <1>1, <1>5, <2>1, SettlesInMemory DEF Problems
  <1>6. CASE TransactionFails
    <2>1. PICK done \in SUBSET (IF pc = "planned" THEN FirstWrites(live.run) ELSE live.todo),
               kept \in {{}, Intent.retained} :
             /\ Write(done)
             /\ retained' = IF pc = "planned" THEN retained \cup kept ELSE retained
      BY <1>6 DEF TransactionFails
    <2>2. /\ SettlesWith("failed", FALSE) /\ Spend("faults") /\ UNCHANGED <<head, settings, record, page>>
          /\ pc = "planned" => GuardsHold(live.run)
      BY <1>6 DEF TransactionFails, MayCommit
    <2>3. done \in SUBSET Changed(Intent)
      BY <1>1, <1>2, <2>1, <2>2, RestIsUnguarded DEF Intent
    <2>4. /\ refs' \in [Refs -> Values] /\ author' \in [Refs \cup {Head} -> 0..MaxRuns]
          /\ \A x \in Refs \cup {Head} : author'[x] \in {author[x], live.run}
      BY <1>1, <2>1, <2>3, WriteTypes
    <2>5. live' \in LiveRecords /\ live'.run = live.run /\ live'.problem = "failed" /\ pc' = "settle"
      BY <1>2, <2>2, SettlesWithProblem DEF Problems
    <2>6. retained' \subseteq Commits /\ retained \subseteq retained'
      BY <1>2, <2>1
    <2> QED
      BY <1>1, <1>2, <2>2, <2>4, <2>5, <2>6, WritingInvariant
  <1> QED
    BY <1>3, <1>4, <1>5, <1>6 DEF SecondTransaction

\* An intent that is recorded as applied.
LEMMA AppliedInvariant ==
    ASSUME ImportInvariant, pc \in {"applied", "written"}, NEW t, SameIntent(Intent, t), t.status = "applied",
           intents' = [intents EXCEPT ![live.run] = t],
           UNCHANGED <<destination, settings, runs, obs, page, live, spent>>,
           pc' \in {"head", "settle"}, pc' = "head" => pc = "applied"
    PROVE  ImportInvariant'
  <1>1. pc \in Publishing /\ pc' \in Publishing
    BY DEF Publishing
  <1>2. /\ TypeOK /\ RunIsInOrder /\ OthersAreSettled /\ StoppedRunsWroteNothing /\ ObservationsAreRecorded
        /\ UNCHANGED <<refs, head, retained, author, source, writes>>
        /\ live.run \in Rows /\ IsActive(live.run) /\ Intent.status # "none"
    BY <1>1, LiveRun DEF ImportInvariant, settings, destination
  <1>3. runs' = [runs EXCEPT ![live.run] = runs[live.run]] /\ SameRun(runs[live.run], runs[live.run])
    BY <1>2, SameRuns, RowTypes DEF TypeOK
  <1>4. /\ RecordsKept /\ intents'[live.run] = t
        /\ \A j \in Rows : j # live.run => intents'[j] = intents[j]
    BY <1>2, <1>3, TouchedRecords DEF Intent
  <1>5. TypeOK'
    BY <1>1, <1>2, <1>4 DEF TypeOK, RecordsKept
  <1>6. KeepsPlan
    BY <1>1, <1>2, <1>4, ObservationsKept DEF KeepsPlan
  <1>7. Intent' = t /\ Changed(Intent)' = Changed(Intent)
    BY <1>4 DEF Intent, Changed, SameIntent
  <1>8. RunIsInOrder'
    <2>1. \A i \in Rows : intents'[i].status = "none" <=> intents[i].status = "none"
      BY <1>4 DEF RecordsKept, SameIntent
    <2>2. page \subseteq Rows
      BY <1>2 DEF TypeOK
    <2> QED
      BY <1>1, <1>2, <1>7, <2>1, <2>2 DEF RunIsInOrder, IsActive, Early, Publishing
  <1>9. OthersAreSettled'
    BY <1>1, <1>2, <1>4 DEF OthersAreSettled
  <1>10. StoppedRunsWroteNothing'
    BY <1>1, <1>2, <1>7, ConstantsAssumption DEF StoppedRunsWroteNothing, Early, WroteNothing, RunIsInOrder, Publishing
  <1> QED
    BY <1>5, <1>6, <1>8, <1>9, <1>10, PlanKept DEF ImportInvariant

\* What is recorded between the transactions, and the write of HEAD.
LEMMA RecordingSteps ==
    ASSUME ImportInvariant, RecordApplied \/ WriteHead \/ RecordHead
    PROVE  ImportInvariant'
  <1>1. pc \in {"applied", "head", "written"} /\ pc \in Publishing \ {"settle"}
    BY DEF RecordApplied, WriteHead, RecordHead, Publishing
  <1>2. /\ TypeOK /\ live \in LiveRecords /\ live.run \in Rows /\ live.run \in 0..MaxRuns
        /\ Intent \in IntentRecords /\ Intent.status \in {"planning", "applied"} /\ ~AuthorityChanged(live.run)
    BY <1>1, LiveRun, RowTypes DEF ImportInvariant
  <1>3. ASSUME SettlesWith("failed", TRUE), Spend("faults"), UNCHANGED <<destination, settings, record, page>>
        PROVE  ImportInvariant'
    BY <1>1, <1>3, SettlesInMemory DEF Problems
  <1>4. CASE RecordApplied /\ pc' = Next2 /\ intents' = [intents EXCEPT ![live.run].status = "applied"]
             /\ UNCHANGED <<live, spent>>
    <2> DEFINE t == [intents[live.run] EXCEPT !.status = "applied"]
    <2>1. intents' = [intents EXCEPT ![live.run] = t]
      BY <1>2, <1>4 DEF TypeOK
    <2>2. SameIntent(Intent, t) /\ t.status = "applied"
      BY <1>2, SameIntents DEF Intent, IntentStatuses, IntentRecords
    <2>3. pc = "applied" /\ pc' \in {"head", "settle"} /\ UNCHANGED <<destination, settings, runs, obs, page>>
      BY <1>4 DEF RecordApplied, Next2
    <2> HIDE DEF t
    <2> QED
      BY <1>4, <2>1, <2>2, <2>3, AppliedInvariant
  <1>5. CASE RecordHead /\ pc' = "settle" /\ UNCHANGED <<live, spent>>
             /\ intents' = [intents EXCEPT ![live.run].status = "applied", ![live.run].owned = TRUE]
    <2> DEFINE t == [intents[live.run] EXCEPT !.status = "applied", !.owned = TRUE]
    <2>1. intents' = [intents EXCEPT ![live.run] = t]
      BY <1>2, <1>5 DEF TypeOK
    <2>2. SameIntent(Intent, t) /\ t.status = "applied"
      BY <1>2, SameIntents DEF Intent, IntentStatuses, IntentRecords
    <2>3. pc = "written" /\ UNCHANGED <<destination, settings, runs, obs, page>>
      BY <1>5 DEF RecordHead
    <2> HIDE DEF t
    <2> QED
      BY <1>5, <2>1, <2>2, <2>3, AppliedInvariant
  <1>6. CASE WriteHead /\ head' = Intent.newHead.target /\ author' = [author EXCEPT ![Head] = live.run]
             /\ pc' = "written" /\ UNCHANGED live
    <2>1. UNCHANGED <<refs, retained, settings, record, page, spent>> /\ pc = "head"
      BY <1>6 DEF WriteHead
    <2>2. head' \in Refs
      BY <1>2, <1>6 DEF ImportInvariant, IntentsKeepTips, Intent
    <2>3. author' \in [Refs \cup {Head} -> 0..MaxRuns]
          /\ \A x \in Refs \cup {Head} : author'[x] \in {author[x], live.run}
      BY <1>2, <1>6 DEF TypeOK
    <2>4. refs' \in [Refs -> Values] /\ retained' \subseteq Commits /\ retained \subseteq retained'
      BY <1>2, <2>1 DEF TypeOK
    <2> QED
      BY <1>1, <1>2, <1>6, <2>1, <2>2, <2>3, <2>4, WritingInvariant
  <1>7. CASE /\ WriteHead /\ UNCHANGED <<head, author>>
             /\ SettlesWith(IF HeadIsExpected THEN HeadProblem ELSE "failed", TRUE)
    <2> DEFINE p == IF HeadIsExpected THEN HeadProblem ELSE "failed"
    <2>1. UNCHANGED <<destination, settings, record, page, spent>> /\ pc = "head"
      BY <1>7 DEF WriteHead, destination
    <2>2. p \in Problems
      BY <1>2, AuthorityProblems DEF HeadProblem, Problems
    <2>3. p \in {"cancelled", "superseded"} => Changed(Intent) = {}
      BY <1>2, AuthorityProblems, ConstantsAssumption DEF HeadProblem
    <2>4. p \in {"cancelled", "superseded"} => WroteNothing(live.run)
      BY <2>1, <2>3 DEF ImportInvariant, StoppedRunsWroteNothing
    <2> HIDE DEF p
    <2>5. SettlesWith(p, TRUE)
      BY <1>7 DEF p
    <2> QED
      BY <1>1, <2>1, <2>2, <2>4, <2>5, SettlesInMemory
  <1>8. CASE RecordApplied /\ SettlesWith("failed", TRUE) /\ Spend("faults") /\ UNCHANGED intents
    BY <1>3, <1>8 DEF RecordApplied, record
  <1>9. CASE RecordHead /\ SettlesWith("failed", TRUE) /\ Spend("faults") /\ UNCHANGED intents
    BY <1>3, <1>9 DEF RecordHead, record
  <1>10. CASE RecordApplied
    BY <1>4, <1>8, <1>10 DEF RecordApplied
  <1>11. CASE WriteHead
    BY <1>6, <1>7, <1>11 DEF WriteHead
  <1>12. CASE RecordHead
    BY <1>5, <1>9, <1>12 DEF RecordHead
  <1> QED
    BY <1>10, <1>11, <1>12

\* An intent that is settled, by the run itself, by a later run or by a recovery.
LEMMA SettledInvariant ==
    ASSUME ImportInvariant, NEW i \in Rows, SettledBy(i), intents[i].status # "none",
           UNCHANGED <<destination, settings, spent>>, page' \subseteq page,
           live' \in LiveRecords, live'.run = live.run,
           pc' \in Early \cup {"idle", "finish", "down"}, pc' # "finish" => pc' = pc,
           pc' = "finish" => pc \in Early \cup Publishing \cup {"finish"},
           pc' \in Early => live'.problem = live.problem,
           pc' \in {"admitted", "staged"} => live'.checked = live.checked,
           pc' = "locked" => \A j \in Rows \ {live.run} : j <= live'.checked =>
                                intents'[j].status \notin {"planning", "applied", "unresolved"},
           pc' = "finish" /\ live'.problem = None => runs'[live.run].status = "complete",
           pc' = "finish" /\ live'.problem \in {"cancelled", "superseded"} => WroteNothing(live.run)
    PROVE  ImportInvariant'
  <1>1. /\ TypeOK /\ RunIsInOrder /\ OthersAreSettled /\ StoppedRunsWroteNothing
        /\ UNCHANGED <<refs, head, retained, author, source, writes>>
        /\ RecordsKept /\ ObservationsAreRecorded'
        /\ \A j \in Rows : j # i => intents'[j] = intents[j] /\ runs'[j] = runs[j]
        /\ runs'[i].status \in {runs[i].status, "complete", "unresolved"}
    BY DEF ImportInvariant, settings, destination, SettledBy
  <1>2. TypeOK'
    BY <1>1 DEF TypeOK, RecordsKept, SettledBy
  <1>3. pc' \notin Publishing
    BY DEF Publishing, Early
  <1>4. KeepsPlan
    <2>1. pc' # "second"
      BY DEF Early
    <2> QED
      BY <1>1, <1>3, <2>1 DEF KeepsPlan, SettledBy
  <1>5. RunIsInOrder'
    <2>1. \A j \in Rows : (intents'[j].status = "none" <=> intents[j].status = "none")
                        /\ (runs'[j].status = "none" <=> runs[j].status = "none")
      BY <1>1 DEF RecordsKept, SameIntent, SameRun
    <2>2. page \subseteq Rows
      BY <1>1 DEF TypeOK
    <2>3. pc' \in Early => pc \in Early /\ i # live.run /\ live.run \in Rows
      BY <1>1 DEF RunIsInOrder, Intent, Early
    <2>4. pc' = "finish" => live.run \in Rows /\ runs'[live'.run].status # "none"
      <3>1. pc' = "finish" => live.run \in Rows /\ runs[live.run].status # "none"
        BY <1>1 DEF RunIsInOrder, IsActive
      <3> QED
        BY <1>1, <2>1, <3>1
    <2>5. pc' \in Early => Intent' = Intent /\ IsActive(live.run)' /\ live'.run \in Rows
      BY <1>1, <2>3 DEF RunIsInOrder, Intent, IsActive
    <2>6. pc' \in Early => Intent.status = "none" /\ live.problem = None
      BY <1>1, <2>3 DEF RunIsInOrder, Early
    <2>7. pc' \in {"admitted", "staged"} => live.checked = 0
      BY <1>1 DEF RunIsInOrder
    <2>8. pc' \in {"idle", "down"} => live'.run = 0
      BY <1>1 DEF RunIsInOrder
    <2>9. \A j \in Rows : runs'[j].status = "none" => intents'[j].status = "none"
      BY <1>1, <2>1 DEF RunIsInOrder
    <2>10. \A j \in page' : intents'[j].status # "none"
      BY <1>1, <2>1, <2>2 DEF RunIsInOrder
    <2> QED
      BY <1>3, <2>4, <2>5, <2>6, <2>7, <2>8, <2>9, <2>10 DEF RunIsInOrder
  <1>6. OthersAreSettled'
    BY <1>1, <1>3 DEF OthersAreSettled
  <1>7. StoppedRunsWroteNothing'
    <2>1. \A j : WroteNothing(j)' <=> WroteNothing(j)
      BY <1>1 DEF WroteNothing
    <2>2. \A j \in Rows : runs'[j].status \in {"none", "cancelled", "superseded"} => runs'[j].status = runs[j].status
      BY <1>1
    <2>3. pc' \in Early => pc \in Early
      BY DEF Early
    <2> QED
      BY <1>1, <1>3, <2>1, <2>2, <2>3 DEF StoppedRunsWroteNothing, Publishing
  <1> QED
    BY <1>2, <1>4, <1>5, <1>6, <1>7, PlanKept DEF ImportInvariant

\* The publication is settled by what is read back.
LEMMA SettleSteps ==
    ASSUME ImportInvariant, Settle \/ SettleFails
    PROVE  ImportInvariant'
  <1>1. pc = "settle" /\ pc \in Publishing
    BY DEF Settle, SettleFails, Publishing
  <1>2. /\ TypeOK /\ ObservationsAreRecorded /\ live \in LiveRecords /\ live.run \in Rows
        /\ Intent.status # "none" /\ Intent = intents[live.run]
        /\ runs[live.run].status = "active" /\ UnchangedProblem(live.run) = None
        /\ live.problem \in Problems
        /\ live.problem \in {"cancelled", "superseded"} => WroteNothing(live.run)
    <2>1. live.run \in Rows /\ TypeOK /\ ~AuthorityChanged(live.run)
      BY <1>1, LiveRun DEF ImportInvariant
    <2> QED
      BY <1>1, <2>1, LiveRun, AuthorityProblems
         DEF ImportInvariant, StoppedRunsWroteNothing, LiveRecords, Problems, IsActive, Intent
  <1>3. UNCHANGED <<destination, settings, page>> /\ page' \subseteq page
    BY DEF Settle, SettleFails
  <1>4. ASSUME NEW p \in Problems, EndsWith(p), UNCHANGED record, UNCHANGED spent \/ Spend("faults"), p # None,
               p \in {"cancelled", "superseded"} => WroteNothing(live.run)
        PROVE  ImportInvariant'
    <2>1. live' \in LiveRecords /\ live'.run = live.run /\ live'.problem = p /\ pc' = "finish"
      BY <1>2, <1>4, EndsWithProblem
    <2>2. MemoryStep
      BY <1>3, <1>4, <2>1 DEF MemoryStep
    <2> QED
      BY <1>1, <1>4, <2>1, <2>2, MemoryInvariant DEF Early, Publishing
  <1>5. ASSUME NEW p \in Problems, EndsWith(p), SettledBy(live.run), UNCHANGED spent,
               p = None => runs'[live.run].status = "complete",
               p \in {"cancelled", "superseded"} => WroteNothing(live.run)
        PROVE  ImportInvariant'
    <2>1. live' \in LiveRecords /\ live'.run = live.run /\ live'.problem = p /\ pc' = "finish"
      BY <1>2, <1>5, EndsWithProblem
    <2> QED
      BY <1>1, <1>2, <1>3, <1>5, <2>1, SettledInvariant DEF Early
  <1>6. CASE SettleFails
    BY <1>4, <1>6, ConstantsAssumption DEF SettleFails, Problems
  <1>7. CASE Settle
    <2> DEFINE i == live.run
               else == IF live.problem = None THEN "failed" ELSE live.problem
    <2>0. UNCHANGED spent
      BY <1>7 DEF Settle
    <2>1. CASE Confirmed(Intent) /\ Finalized(i) /\ EndsWith(None)
      BY <1>2, <1>5, <2>0, <2>1, FinalizedIsSettled, ConstantsAssumption DEF Problems
    <2>2. CASE FinalProblem(i) # None /\ EndsWith(FinalProblem(i)) /\ UNCHANGED record
      <3>1. FinalProblem(i) = live.problem
        BY <1>2, <2>2 DEF FinalProblem
      <3> QED
        BY <1>2, <1>4, <2>0, <2>2, <3>1
    <2>3. SameRun(runs[i], runs[i]) /\ (UNCHANGED runs => runs' = [runs EXCEPT ![i] = runs[i]])
      BY <1>2, SameRuns, RowTypes DEF TypeOK
    <2>4. CASE Settled(i, "not_applied") /\ EndsWith(else) /\ UNCHANGED runs
      <3>1. else \in Problems /\ else # None /\ (else \in {"cancelled", "superseded"} => WroteNothing(i))
        BY <1>2, ConstantsAssumption DEF Problems
      <3>2. SettledBy(i)
        BY <1>2, <2>3, <2>4, SettledIsSettled
      <3> HIDE DEF else
      <3> QED
        BY <1>5, <2>0, <2>4, <3>1, <3>2
    <2>5. CASE /\ ~Confirmed(Intent) /\ ~MatchesExpected(Intent) /\ Settled(i, "unresolved")
               /\ EndsWith("unresolved") /\ UNCHANGED runs
      <3>1. SettledBy(i)
        BY <1>2, <2>3, <2>5, SettledIsSettled
      <3> QED
        BY <1>5, <2>0, <2>5, <3>1, ConstantsAssumption DEF Problems
    <2> QED
      BY <1>7, <2>1, <2>2, <2>4, <2>5 DEF Settle
  <1> QED
    BY <1>6, <1>7

\* What is open has an intent and a run.
LEMMA OpenHasRun ==
    ASSUME ImportInvariant, NEW i \in Rows, intents[i].status # "none"
    PROVE  TypeOK /\ ObservationsAreRecorded /\ runs[i].status # "none"
  BY DEF ImportInvariant, RunIsInOrder

\* A run settles what older runs left open before it plans.
LEMMA ReconcileOlderStep ==
    ASSUME ImportInvariant, ReconcileOlder
    PROVE  ImportInvariant'
  <1>1. PICK j \in Unchecked :
           /\ \A k \in Unchecked : j <= k
           /\ ReconcileIntent(j)
           /\ IF IsUnknown(j) THEN EndsWith("unresolved")
              ELSE pc' = pc /\ live' = [live EXCEPT !.checked = j]
    BY DEF ReconcileOlder
  <1>2. /\ pc = "locked" /\ pc \in Early /\ UNCHANGED <<destination, settings, page, spent>>
        /\ live \in LiveRecords /\ live.run \in Rows /\ Intent.status = "none" /\ Intent = intents[live.run]
        /\ live.problem = None /\ live.checked \in 0..MaxRuns
    BY LiveRun DEF ReconcileOlder, Early, Intent, ImportInvariant, RunIsInOrder, LiveRecords
  <1>3. j \in Rows /\ j > live.checked /\ IsOpen(j) /\ intents[j].status # "none" /\ j # live.run
    BY <1>2 DEF Unchecked, IsOpen, Pending
  <1>4. SettledBy(j)
    BY <1>1, <1>3, OpenHasRun, ReconcileSettles
  <1>5. CASE IsUnknown(j)
    <2>1. live' \in LiveRecords /\ live'.run = live.run /\ live'.problem = "unresolved" /\ pc' = "finish"
      BY <1>1, <1>3, <1>5, OpenHasRun, EndsWithProblem DEF Problems
    <2> QED
      BY <1>2, <1>3, <1>4, <2>1, ConstantsAssumption, SettledInvariant DEF Early
  <1>6. CASE ~IsUnknown(j)
    <2>1. /\ pc' = "locked" /\ live' \in LiveRecords /\ live'.run = live.run
          /\ live'.problem = live.problem /\ live'.checked = j
      BY <1>1, <1>2, <1>3, <1>6, RowTypes, OpenHasRun DEF LiveRecords
    <2>2. ASSUME NEW k \in Rows \ {live.run}, k <= j
          PROVE  intents'[k].status \notin {"planning", "applied", "unresolved"}
      <3>1. CASE k = j
        BY <1>4, <1>6, <3>1 DEF SettledBy, IsUnknown
      <3>2. CASE k # j /\ k <= live.checked
        BY <1>2, <1>4, <3>2 DEF SettledBy, ImportInvariant, OthersAreSettled
      <3>3. CASE k # j /\ ~(k <= live.checked)
        <4>1. k \notin Unchecked
          BY <1>1, <1>3, <2>2, <3>3 DEF Rows
        <4>2. ~IsOpen(k)
          BY <1>2, <3>3, <4>1 DEF Unchecked, Rows
        <4> QED
          BY <1>4, <3>3, <4>2 DEF SettledBy, IsOpen, Pending
      <3> QED
        BY <3>1, <3>2, <3>3
    <2> QED
      BY <1>2, <1>3, <1>4, <2>1, <2>2, SettledInvariant DEF Early
  <1> QED
    BY <1>5, <1>6

\* A recovery settles the next of the intents it has read.
LEMMA ReconcilePageStep ==
    ASSUME ImportInvariant, ReconcilePage
    PROVE  ImportInvariant'
  <1>1. PICK i \in page : ReconcileIntent(i) /\ page' = IF IsUnknown(i) THEN {} ELSE page \ {i}
    BY DEF ReconcilePage
  <1>2. /\ LockFree /\ pc # "down" /\ UNCHANGED <<destination, settings, pc, live, spent>>
        /\ TypeOK /\ RunIsInOrder /\ StoppedRunsWroteNothing
    BY DEF ReconcilePage, ImportInvariant
  <1>3. i \in Rows /\ intents[i].status # "none" /\ page' \subseteq page /\ live \in LiveRecords
    BY <1>1, <1>2 DEF TypeOK, RunIsInOrder
  <1>4. SettledBy(i)
    BY <1>1, <1>3, OpenHasRun, ReconcileSettles
  <1>5. pc \in {"admitted", "staged", "idle", "finish"}
    BY <1>2 DEF LockFree, TypeOK, Early, Publishing
  <1>6. pc = "finish" /\ live.problem = None => runs'[live.run].status = "complete"
    BY <1>2, <1>4 DEF RunIsInOrder, SettledBy, RecordsKept, SameRun
  <1>7. pc = "finish" /\ live.problem \in {"cancelled", "superseded"} => WroteNothing(live.run)
    BY <1>2 DEF StoppedRunsWroteNothing
  <1> QED
    BY <1>2, <1>3, <1>4, <1>5, <1>6, <1>7, SettledInvariant DEF Early

\* An admission: the new row has no intent, and nothing is observed by it.
LEMMA BeginRunStep ==
    ASSUME ImportInvariant, NEW i \in Rows, BeginRun(i)
    PROVE  ImportInvariant'
  <1> DEFINE q == [status |-> "active", stop |-> None, source |-> source, writes |-> writes]
  <1>1. /\ pc = "idle" /\ runs[i].status = "none" /\ \A j \in Rows : ~IsActive(j)
        /\ runs' = [runs EXCEPT ![i] = q] /\ pc' = "admitted" /\ live' = [Nothing EXCEPT !.run = i]
        /\ UNCHANGED <<refs, head, retained, author, source, writes, intents, obs, page, spent>>
    BY DEF BeginRun, destination, settings
  <1>2. TypeOK /\ RunIsInOrder /\ IntentsKeepTips /\ StoppedRunsWroteNothing /\ ObservationsAreRecorded
    BY DEF ImportInvariant
  <1>3. /\ q \in RunRecords /\ runs'[i] = q /\ runs' \in [Rows -> RunRecords]
        /\ \A j \in Rows : j # i => runs'[j] = runs[j]
    <2>1. q \in RunRecords
      BY <1>2 DEF TypeOK, RunRecords, RunStatuses
    <2> HIDE DEF q
    <2> QED
      BY <1>1, <1>2, <2>1 DEF TypeOK
  <1>4. q.status = "active"
    OBVIOUS
  <1> HIDE DEF q
  <1>5. /\ live' \in LiveRecords /\ live'.run = i /\ live'.checked = 0 /\ live'.problem = None
    <2>1. Nothing \in LiveRecords /\ Nothing.checked = 0 /\ Nothing.problem = None
      BY ConstantsAssumption DEF Nothing, LiveRecords
    <2>2. i \in 0..MaxRuns
      BY <1>2, RowTypes
    <2> QED
      BY <1>1, <2>1, <2>2 DEF LiveRecords
  <1>6. TypeOK'
    BY <1>1, <1>2, <1>3, <1>5 DEF TypeOK, Early
  <1>7. intents[i].status = "none"
    BY <1>1, <1>2 DEF RunIsInOrder
  <1>8. RunIsInOrder'
    <2>1. Intent'.status = "none" /\ IsActive(live.run)'
      BY <1>1, <1>3, <1>4, <1>5, <1>7 DEF Intent, IsActive
    <2> QED
      BY <1>1, <1>2, <1>3, <1>4, <1>5, <2>1 DEF RunIsInOrder, Early, Publishing
  <1>9. IntentsKeepTips'
    BY <1>1, <1>2, <1>3, <1>7 DEF IntentsKeepTips, Changed, IsAncestor
  <1>10. OthersAreSettled' /\ PublicationIsAuthorised' /\ PlanIsObserved'
    BY <1>1 DEF OthersAreSettled, PublicationIsAuthorised, PlanIsObserved, Publishing
  <1>11. StoppedRunsWroteNothing'
    <2>1. \A j : WroteNothing(j)' <=> WroteNothing(j)
      BY <1>1 DEF WroteNothing
    <2> QED
      BY <1>1, <1>2, <1>3, <1>4, <1>5, <2>1 DEF StoppedRunsWroteNothing
  <1>12. ObservationsAreRecorded'
    <2> SUFFICES ASSUME NEW g \in 1..(MaxChanges + 1), NEW r \in Refs, obs[g][r] # 0
                 PROVE  LET k == obs[g][r] IN
                        /\ runs'[k].source.generation = g
                        /\ intents[k].status # "none" /\ r \in DOMAIN intents[k].observed
      BY <1>1 DEF ObservationsAreRecorded
    <2>1. obs[g][r] \in Rows
      BY <1>2, ObserverRow
    <2> QED
      BY <1>2, <1>3, <1>7, <2>1 DEF ObservationsAreRecorded
  <1> QED
    BY <1>6, <1>8, <1>9, <1>10, <1>11, <1>12 DEF ImportInvariant

\* The plan, from what is read under the lock when nothing else is open.
LEMMA RecordIntentStep ==
    ASSUME ImportInvariant, RecordIntent
    PROVE  ImportInvariant'
  <1> DEFINE i == live.run
             t == Plan(i, live.adv)
  <1>1. /\ pc = "locked" /\ pc \in Early /\ Unchecked = {} /\ AuthorityProblem(i) = None
        /\ UNCHANGED <<refs, head, retained, author, source, writes, runs, obs, page, spent>>
    BY DEF RecordIntent, Early, destination, settings
  <1>2. /\ TypeOK /\ RunIsInOrder /\ IntentsKeepTips /\ OthersAreSettled
        /\ StoppedRunsWroteNothing /\ ObservationsAreRecorded
    BY DEF ImportInvariant
  <1>3. /\ i \in Rows /\ live \in LiveRecords /\ live.adv \in Answers /\ IsActive(i)
        /\ intents[i].status = "none" /\ WroteNothing(i) /\ live.problem = None
        /\ ~AuthorityChanged(i)
    BY <1>1, <1>2, LiveRun, AuthorityProblems DEF Intent, LiveRecords, Answers, RunIsInOrder
  <1>4. CASE EndsWith("failed") /\ UNCHANGED intents
    <2>1. live' \in LiveRecords /\ live'.run = i /\ live'.problem = "failed" /\ pc' = "finish"
      BY <1>2, <1>4, EndsWithProblem DEF Problems
    <2>2. MemoryStep
      BY <1>1, <1>4, <2>1 DEF MemoryStep, destination, settings, record
    <2> QED
      BY <1>1, <2>1, <2>2, MemoryInvariant, ConstantsAssumption DEF Early, Publishing
  <1>5. CASE pc' = "planned" /\ intents' = [intents EXCEPT ![i] = t] /\ UNCHANGED live
    <2>1. /\ t \in IntentRecords /\ t.status = "planning"
          /\ DOMAIN t.expected = DOMAIN t.desired /\ t.newHead.target \in Refs
          /\ \A r \in DOMAIN t.desired : t.expected[r] = refs[r]
          /\ runs[i].writes.keepHistory => \A r \in Changed(t) :
                \/ t.expected[r] = None \/ IsAncestor(t.expected[r], t.desired[r])
                \/ t.expected[r] \in t.retained
      BY <1>2, <1>3, PlanIsSound
    <2>2. \A r \in Changed(t) : refs[r] # None => \E j \in Rows : MayChange(j, r, refs[r], t.desired[r])
      BY <1>2, <1>3, PlanFollowsObservations
    <2> HIDE DEF t
    <2>3. /\ intents' \in [Rows -> IntentRecords] /\ intents'[i] = t
          /\ \A j \in Rows : j # i => intents'[j] = intents[j]
      BY <1>2, <1>3, <1>5, <2>1 DEF TypeOK
    <2>4. Intent' = t /\ pc' \in Publishing /\ live' = live
      BY <1>5, <2>3 DEF Intent, Publishing
    <2>5. TypeOK'
      BY <1>1, <1>2, <1>5, <2>3, <2>4 DEF TypeOK
    <2>6. RunIsInOrder'
      <3>1. page \subseteq Rows /\ runs[i].status = "active"
        BY <1>2, <1>3 DEF TypeOK, IsActive
      <3> QED
        BY <1>1, <1>2, <1>3, <1>5, <2>1, <2>3, <2>4, <3>1 DEF RunIsInOrder, IsActive, Early
    <2>7. IntentsKeepTips'
      BY <1>1, <1>2, <2>1, <2>3 DEF IntentsKeepTips, Changed, IsAncestor
    <2>8. OthersAreSettled'
      <3> SUFFICES ASSUME NEW j \in Rows, j # i
                   PROVE  intents[j].status \notin {"planning", "applied", "unresolved"}
        BY <2>3, <2>4 DEF OthersAreSettled
      <3>1. CASE j <= live.checked
        BY <1>1, <1>2, <3>1 DEF OthersAreSettled
      <3>2. CASE ~(j <= live.checked)
        <4>1. ~IsOpen(j)
          BY <1>1, <1>3, <3>2 DEF Unchecked, Rows, LiveRecords
        <4> QED
          BY <4>1 DEF IsOpen, Pending
      <3> QED
        BY <3>1, <3>2
    <2>9. StoppedRunsWroteNothing'
      <3>1. \A j : WroteNothing(j)' <=> WroteNothing(j)
        BY <1>1 DEF WroteNothing
      <3> QED
        BY <1>1, <1>2, <1>3, <1>5, <3>1 DEF StoppedRunsWroteNothing
    <2>10. PublicationIsAuthorised'
      BY <1>1, <1>3, <1>5 DEF PublicationIsAuthorised, AuthorityChanged
    <2>11. ObservationsAreRecorded'
      <3> SUFFICES ASSUME NEW g \in 1..(MaxChanges + 1), NEW r \in Refs, obs[g][r] # 0
                   PROVE  LET k == obs[g][r] IN
                          /\ runs[k].source.generation = g
                          /\ intents'[k].status # "none" /\ r \in DOMAIN intents'[k].observed
        BY <1>1 DEF ObservationsAreRecorded
      <3>1. obs[g][r] \in Rows
        BY <1>2, ObserverRow
      <3> QED
        BY <1>2, <1>3, <2>3, <3>1 DEF ObservationsAreRecorded
    <2>12. PlanIsObserved'
      <3>1. ASSUME NEW r \in Changed(t), t.expected[r] # None
            PROVE  \E j \in Rows :
                      /\ WasObserved(j, r)'
                      /\ \/ t.expected[r] = intents'[j].observed[r] \/ source'.overwrite
                         \/ IsAncestor(t.expected[r], t.desired[r])
        <4>1. t.expected[r] = refs[r]
          BY <2>1 DEF Changed
        <4>2. PICK j \in Rows : MayChange(j, r, refs[r], t.desired[r])
          BY <2>2, <3>1, <4>1
        <4>3. j # i
          BY <1>3, <4>2 DEF MayChange, WasObserved
        <4>4. WasObserved(j, r)' /\ intents'[j] = intents[j]
          BY <1>1, <2>3, <4>2, <4>3 DEF MayChange, WasObserved
        <4> QED
          BY <1>1, <4>1, <4>2, <4>4 DEF MayChange
      <3>2. Changed(Intent)' = Changed(t)
        BY <2>4 DEF Changed
      <3> QED
        BY <2>4, <3>1, <3>2 DEF PlanIsObserved, MayChange, IsAncestor
    <2> QED
      BY <2>5, <2>6, <2>7, <2>8, <2>9, <2>10, <2>11, <2>12 DEF ImportInvariant
  <1> QED
    BY <1>4, <1>5 DEF RecordIntent

\* The end of a run, which a complete one does not lose its outcome to.
LEMMA FinishRunStep ==
    ASSUME ImportInvariant, FinishRun
    PROVE  ImportInvariant'
  <1> DEFINE i == live.run
             s == IF runs[i].status = "complete" THEN "complete" ELSE live.problem
             q == [runs[i] EXCEPT !.status = s]
  <1>1. /\ pc = "finish" /\ pc' = "idle" /\ live' = Nothing
        /\ UNCHANGED <<refs, head, retained, author, source, writes, intents, obs, page, spent>>
    BY DEF FinishRun, destination, settings
  <1>2. /\ TypeOK /\ RunIsInOrder /\ StoppedRunsWroteNothing /\ ObservationsAreRecorded
        /\ i \in Rows /\ runs[i].status # "none" /\ live.problem \in Problems
        /\ live.problem = None => runs[i].status = "complete"
        /\ live.problem \in {"cancelled", "superseded"} => WroteNothing(i)
    BY <1>1 DEF ImportInvariant, RunIsInOrder, TypeOK, LiveRecords, StoppedRunsWroteNothing, Problems
  <1>3. SameRun(runs[i], q) /\ q.status = s /\ runs' = [runs EXCEPT ![i] = q]
    <2>1. s \in RunStatuses \ {"none"} /\ (runs[i].status = "complete" => s = "complete")
      BY <1>2 DEF Problems, RunStatuses
    <2>2. runs' = [runs EXCEPT ![i] = q]
      BY <1>2 DEF FinishRun, TypeOK
    <2> HIDE DEF s
    <2> QED
      BY <1>2, <2>1, <2>2, RowTypes DEF SameRun, RunRecords
  <1>4. intents' = [intents EXCEPT ![i] = intents[i]] /\ SameIntent(intents[i], intents[i])
    BY <1>1, <1>2, SameIntents, RowTypes DEF TypeOK
  <1>5. RecordsKept /\ runs'[i] = q /\ \A j \in Rows : j # i => runs'[j] = runs[j]
    <2> DEFINE t == intents[i]
    <2>1. intents' = [intents EXCEPT ![i] = t] /\ SameIntent(intents[i], t)
      BY <1>4
    <2>2. i \in Rows /\ SameRun(runs[i], q) /\ runs' = [runs EXCEPT ![i] = q]
      BY <1>2, <1>3
    <2> HIDE DEF q, t, i
    <2> QED
      BY <1>2, <2>1, <2>2, TouchedRecords, ZenonT(60)
  <1> HIDE DEF q
  <1>6. Nothing \in LiveRecords /\ Nothing.run = 0
    BY ConstantsAssumption DEF Nothing, LiveRecords
  <1>7. TypeOK'
    BY <1>1, <1>2, <1>5, <1>6 DEF TypeOK, RecordsKept
  <1>8. KeepsPlan
    BY <1>1, <1>2, <1>5, ObservationsKept DEF KeepsPlan, Publishing
  <1>9. RunIsInOrder'
    <2>1. \A j \in Rows : runs'[j].status = "none" <=> runs[j].status = "none"
      BY <1>5 DEF RecordsKept, SameRun
    <2> QED
      BY <1>1, <1>2, <1>6, <2>1 DEF RunIsInOrder, Early, Publishing
  <1>10. OthersAreSettled'
    BY <1>1 DEF OthersAreSettled, Publishing
  <1>11. StoppedRunsWroteNothing'
    <2>1. \A j : WroteNothing(j)' <=> WroteNothing(j)
      BY <1>1 DEF WroteNothing
    <2>2. runs'[i].status = s
      BY <1>3, <1>5
    <2>3. s \in {"none", "cancelled", "superseded"} => WroteNothing(i)
      BY <1>2, ConstantsAssumption DEF Problems
    <2>4. ASSUME NEW j \in Rows, runs'[j].status \in {"none", "cancelled", "superseded"}
          PROVE  WroteNothing(j)
      BY <1>2, <1>5, <2>2, <2>3, <2>4 DEF StoppedRunsWroteNothing
    <2> QED
      BY <1>1, <2>1, <2>4 DEF StoppedRunsWroteNothing, Early
  <1> QED
    BY <1>7, <1>8, <1>9, <1>10, <1>11, PlanKept DEF ImportInvariant

-----------------------------------------------------------------------------
(* The steps of others *)

\* What others may do to the records and to the live run: stop it from outside,
\* or interrupt and resolve what no live run owns.
LEMMA OutsideInvariant ==
    ASSUME ImportInvariant, RecordsKept, ObservationsAreRecorded', TypeOK', retained' = retained,
           \/ UNCHANGED <<pc, live>>
           \/ pc' \in {"idle", "down"} /\ live'.run = 0,
           \A x \in Refs \cup {Head} : author'[x] \in {author[x], 0},
           \A i \in Rows : /\ intents'[i].status \in {intents[i].status, "invalidated", "owner_resolved"}
                         /\ runs'[i].status \in {runs[i].status, "interrupted"},
           pc' \in Early \cup Publishing => /\ intents'[live.run] = intents[live.run]
                                         /\ runs'[live.run].status = runs[live.run].status,
           pc' \in Publishing => source' = source,
           \A i \in page' : intents'[i].status # "none"
    PROVE  ImportInvariant'
  <1>1. /\ TypeOK /\ RunIsInOrder /\ OthersAreSettled /\ StoppedRunsWroteNothing /\ PublicationIsAuthorised
    BY DEF ImportInvariant
  <1>2. pc' \notin {"idle", "down"} => UNCHANGED <<pc, live>>
    OBVIOUS
  <1>3. pc' \in Publishing \cup Early => pc' \notin {"idle", "down"}
    BY DEF Publishing, Early
  <1>4. pc' \in Early \cup Publishing => live.run \in Rows /\ Intent' = Intent /\ UNCHANGED <<pc, live>>
    BY <1>1, <1>2, <1>3 DEF RunIsInOrder, Intent
  <1>5. KeepsPlan
    <2>1. pc' = "second" => live'.todo \subseteq Changed(Intent) \ Guarded(live.run)
      BY <1>1, <1>2 DEF PublicationIsAuthorised
    <2> QED
      BY <1>1, <1>2, <1>3, <2>1 DEF KeepsPlan
  <1>6. RunIsInOrder'
    <2>1. \A j \in Rows : /\ (intents'[j].status = "none" <=> intents[j].status = "none")
                        /\ (runs'[j].status = "none" <=> runs[j].status = "none")
                        /\ (runs[j].status = "complete" => runs'[j].status = "complete")
      <3> TAKE j \in Rows
      <3>1. SameIntent(intents[j], intents'[j]) /\ SameRun(runs[j], runs'[j])
        BY DEF RecordsKept
      <3> QED
        BY <3>1 DEF SameIntent, SameRun
    <2>2. pc' \in {"idle", "down"} => live'.run = 0
      BY <1>1 DEF RunIsInOrder
    <2>3. pc' \in Early \cup Publishing => live'.run \in Rows /\ IsActive(live.run)'
      BY <1>1, <1>4 DEF RunIsInOrder, IsActive
    <2>4. /\ pc' \in Early => Intent'.status = "none"
          /\ pc' \in {"admitted", "staged"} => live'.checked = 0
          /\ pc' \in (Early \cup Publishing) \ {"settle"} => live'.problem = None
          /\ pc' \in Publishing => Intent'.status \in {"planning", "applied"}
      BY <1>1, <1>2, <1>3, <1>4 DEF RunIsInOrder
    <2>5. pc' = "finish" => /\ live'.run \in Rows /\ runs'[live'.run].status # "none"
                            /\ live'.problem = None => runs'[live'.run].status = "complete"
      BY <1>1, <1>2, <2>1 DEF RunIsInOrder
    <2>6. \A j \in Rows : runs'[j].status = "none" => intents'[j].status = "none"
      BY <1>1, <2>1 DEF RunIsInOrder
    <2> QED
      BY <2>2, <2>3, <2>4, <2>5, <2>6 DEF RunIsInOrder
  <1>7. OthersAreSettled'
    <2>1. pc' \in Publishing \cup {"locked"} => UNCHANGED <<pc, live>>
      BY <1>2, <1>3
    <2> QED
      BY <1>1, <2>1 DEF OthersAreSettled
  <1>8. StoppedRunsWroteNothing'
    <2>1. \A j \in Rows : WroteNothing(j) => WroteNothing(j)'
      BY DEF WroteNothing, Rows
    <2>2. Changed(Intent)' = Changed(Intent) \/ pc' \notin Publishing
      BY <1>4 DEF Changed
    <2>3. \A j \in Rows : runs'[j].status \in {"none", "cancelled", "superseded"} => runs'[j].status = runs[j].status
      OBVIOUS
    <2>4. pc' \in Early \cup Publishing \cup {"finish"} => live.run \in Rows /\ UNCHANGED <<pc, live>>
      BY <1>1, <1>2, <1>3 DEF RunIsInOrder
    <2> QED
      BY <1>1, <2>1, <2>2, <2>3, <2>4 DEF StoppedRunsWroteNothing, Publishing
  <1> QED
    BY <1>5, <1>6, <1>7, <1>8, PlanKept DEF ImportInvariant

\* What another program writes to the folder.
LEMMA LocalWriteStep ==
    ASSUME ImportInvariant, LocalWrite
    PROVE  ImportInvariant'
  <1>1. /\ UNCHANGED <<retained, source, writes, runs, intents, obs, pc, live, page>>
        /\ Spend("writes")
    BY DEF LocalWrite, settings, record
  <1>2. TypeOK /\ RunIsInOrder /\ ObservationsAreRecorded
    BY DEF ImportInvariant
  <1>3. /\ refs' \in [Refs -> Values] /\ head' \in Refs
        /\ author' \in [Refs \cup {Head} -> 0..MaxRuns]
        /\ \A x \in Refs \cup {Head} : author'[x] \in {author[x], 0}
    <2>1. 0 \in 0..MaxRuns /\ Local \subseteq Values /\ None \in Values
      BY ConstantsAssumption DEF Values
    <2>2. CASE \E r \in Refs, c \in Local : refs[r] # c /\ refs' = [refs EXCEPT ![r] = c]
                 /\ author' = [author EXCEPT ![r] = 0] /\ UNCHANGED head
      BY <1>2, <2>1, <2>2 DEF TypeOK
    <2>3. CASE \E r \in Refs \ {head} : refs[r] # None /\ refs' = [refs EXCEPT ![r] = None]
                 /\ author' = [author EXCEPT ![r] = 0] /\ UNCHANGED head
      BY <1>2, <2>1, <2>3 DEF TypeOK
    <2>4. CASE \E r \in Refs \ {head} : refs[r] # None /\ head' = r
                 /\ author' = [author EXCEPT ![Head] = 0] /\ UNCHANGED refs
      BY <1>2, <2>1, <2>4 DEF TypeOK
    <2> QED
      BY <2>2, <2>3, <2>4 DEF LocalWrite
  <1>4. TypeOK'
    BY <1>1, <1>2, <1>3, SpendTypes DEF TypeOK
  <1>5. RecordsKept /\ ObservationsAreRecorded'
    BY <1>1, <1>2, UntouchedRecords, ObservationsKept
  <1>6. \A i \in page' : intents'[i].status # "none"
    BY <1>1, <1>2 DEF RunIsInOrder
  <1> QED
    BY <1>1, <1>3, <1>4, <1>5, <1>6, OutsideInvariant

\* A stop, and a change of the source or of what may be written.
LEMMA OwnerSteps ==
    ASSUME ImportInvariant, Cancel \/ Configure \/ ChangeRefWrites
    PROVE  ImportInvariant'
  <1>1. /\ TypeOK /\ RunIsInOrder /\ ObservationsAreRecorded
        /\ UNCHANGED <<refs, head, retained, author, intents, obs, pc, live, page>>
    BY DEF ImportInvariant, Cancel, Configure, ChangeRefWrites, destination, record
  <1>2. ASSUME NEW stopped \in SUBSET Rows, NEW problem \in {"cancelled", "superseded"},
               runs' = [i \in Rows |-> IF i \in stopped THEN [runs[i] EXCEPT !.stop = problem] ELSE runs[i]],
               source' \in Sources, writes' \in RefWrites, source'.generation <= spent'.changes + 1,
               spent' \in [writes : Nat, changes : 0..MaxChanges, faults : Nat, crashes : Nat, pages : Nat],
               pc \in Publishing => source' = source
        PROVE  ImportInvariant'
    <2>1. \A i \in Rows : SameRun(runs[i], runs'[i]) /\ runs'[i].status = runs[i].status
      <3> TAKE i \in Rows
      <3>1. runs[i] \in RunRecords
        BY <1>1 DEF TypeOK
      <3>2. runs'[i] = runs[i] \/ runs'[i] = [runs[i] EXCEPT !.stop = problem]
        BY <1>2
      <3> QED
        BY <3>1, <3>2 DEF SameRun, RunRecords
    <2>2. RecordsKept
      <3>1. \A i \in Rows : SameIntent(intents[i], intents'[i])
        BY <1>1, SameIntents, RowTypes
      <3>2. runs' \in [Rows -> RunRecords]
        BY <1>2, <2>1 DEF SameRun
      <3> QED
        BY <1>1, <2>1, <3>1, <3>2 DEF RecordsKept, TypeOK
    <2>3. TypeOK'
      BY <1>1, <1>2, <2>2 DEF TypeOK, RecordsKept
    <2>4. ObservationsAreRecorded'
      BY <1>1, <2>2, ObservationsKept
    <2>5. \A i \in page' : intents'[i].status # "none"
      BY <1>1 DEF RunIsInOrder
    <2>6. pc \in Early \cup Publishing => live.run \in Rows
      BY <1>1 DEF RunIsInOrder
    <2> QED
      BY <1>1, <1>2, <2>1, <2>2, <2>3, <2>4, <2>5, <2>6, OutsideInvariant
  <1>3. source \in Sources /\ writes \in RefWrites /\ source.generation <= spent.changes + 1
        /\ spent \in [writes : Nat, changes : 0..MaxChanges, faults : Nat, crashes : Nat, pages : Nat]
        /\ runs = [i \in Rows |-> runs[i]]
    BY <1>1 DEF TypeOK
  <1>4. CASE Cancel
    <2>1. PICK k \in Rows : runs' = [runs EXCEPT ![k].stop = "cancelled"]
      BY <1>4 DEF Cancel
    <2>2. runs' = [i \in Rows |-> IF i \in {k} THEN [runs[i] EXCEPT !.stop = "cancelled"] ELSE runs[i]]
      BY <2>1, <1>3
    <2>3. UNCHANGED <<source, writes, spent>>
      BY <1>4 DEF Cancel, settings
    <2> QED
      BY <1>2, <1>3, <2>2, <2>3
  <1>5. ASSUME Spend("changes"), spent.changes < MaxChanges
        PROVE  /\ spent'.changes = spent.changes + 1
               /\ spent' \in [writes : Nat, changes : 0..MaxChanges, faults : Nat, crashes : Nat, pages : Nat]
    BY <1>3, <1>5, ConstantsAssumption DEF Spend
  <1>6. CASE Configure
    <2> DEFINE stopped == {i \in Rows : IsActive(i) /\ i = live.run /\ runs[i].stop = None}
    <2>1. /\ LockFree /\ Spend("changes") /\ spent.changes < MaxChanges /\ writes' = writes
          /\ runs' = [i \in Rows |-> IF IsActive(i) /\ i = live.run /\ runs[i].stop = None
                                      THEN [runs[i] EXCEPT !.stop = "superseded"] ELSE runs[i]]
      BY <1>6 DEF Configure
    <2>2. runs' = [i \in Rows |-> IF i \in stopped THEN [runs[i] EXCEPT !.stop = "superseded"] ELSE runs[i]]
      BY <2>1
    <2>s. /\ source.generation \in 1..(MaxChanges + 1) /\ source.authority + 1 \in Nat
          /\ source.signIn \in Nat /\ source.overwrite \in BOOLEAN /\ source.follow \in BOOLEAN
      BY <1>3 DEF Sources
    <2>3. source' \in Sources /\ source'.generation \in {source.generation, source.generation + 1}
      <3>1. CASE \E s \in Settings : source' = [source EXCEPT !.authority = @ + 1, !.overwrite = s.overwrite,
                                                             !.follow = s.follow]
        <4>1. PICK s \in Settings : source' = [source EXCEPT !.authority = @ + 1, !.overwrite = s.overwrite,
                                                             !.follow = s.follow]
          BY <3>1
        <4>2. s \in [overwrite : BOOLEAN, follow : BOOLEAN]
          BY ConstantsAssumption
        <4>3. s.overwrite \in BOOLEAN /\ s.follow \in BOOLEAN
          BY <4>2
        <4> QED
          BY <1>3, <2>s, <4>1, <4>3 DEF Sources
      <3>2. CASE source' = [source EXCEPT !.authority = @ + 1, !.generation = @ + 1,
                                          !.overwrite = FALSE, !.follow = FALSE]
        <4>1. source.generation + 1 \in 1..(MaxChanges + 1)
          BY <1>3, <2>1, ConstantsAssumption DEF Sources
        <4> QED
          BY <1>3, <2>s, <3>2, <4>1 DEF Sources
      <3>3. CASE source' = [source EXCEPT !.authority = @ + 1, !.signIn = source.authority + 1]
        BY <1>3, <2>s, <3>3 DEF Sources
      <3> QED
        BY <1>6, <3>1, <3>2, <3>3 DEF Configure
    <2>4. source'.generation <= spent'.changes + 1
      BY <1>3, <1>5, <2>1, <2>3 DEF Sources
    <2>5. pc \notin Publishing
      BY <2>1 DEF LockFree
    <2>6. stopped \in SUBSET Rows
      OBVIOUS
    <2> HIDE DEF stopped
    <2> QED
      BY <1>2, <1>3, <1>5, <2>1, <2>2, <2>3, <2>4, <2>5, <2>6
  <1>7. CASE ChangeRefWrites
    <2>1. /\ spent.changes < MaxChanges /\ Spend("changes") /\ writes' \in RefWrites
          /\ UNCHANGED <<source, runs>>
      BY <1>7 DEF ChangeRefWrites, record
    <2> DEFINE stopped == {}
    <2>2. /\ runs' = [i \in Rows |-> IF i \in stopped THEN [runs[i] EXCEPT !.stop = "cancelled"] ELSE runs[i]]
          /\ stopped \in SUBSET Rows
      BY <1>3, <2>1
    <2> HIDE DEF stopped
    <2>3. source'.generation <= spent'.changes + 1
      BY <1>3, <1>5, <2>1 DEF Sources
    <2> QED
      BY <1>2, <1>3, <1>5, <2>1, <2>2, <2>3
  <1> QED
    BY <1>4, <1>6, <1>7

\* A crash loses what the process holds in memory.
LEMMA CrashStep ==
    ASSUME ImportInvariant, Crash
    PROVE  ImportInvariant'
  <1>1. /\ pc' = "down" /\ live' = Nothing /\ page' = {} /\ Spend("crashes")
        /\ UNCHANGED <<refs, head, retained, author, source, writes, runs, intents, obs>>
    BY DEF Crash, destination, settings, record
  <1>2. TypeOK /\ ObservationsAreRecorded
    BY DEF ImportInvariant
  <1>3. Nothing \in LiveRecords /\ Nothing.run = 0
    BY ConstantsAssumption DEF Nothing, LiveRecords
  <1>4. TypeOK'
    BY <1>1, <1>2, <1>3, SpendTypes DEF TypeOK
  <1>5. RecordsKept /\ ObservationsAreRecorded'
    BY <1>1, <1>2, UntouchedRecords, ObservationsKept
  <1>6. pc' \notin Early \cup Publishing
    BY <1>1 DEF Early, Publishing
  <1> QED
    BY <1>1, <1>3, <1>4, <1>5, <1>6, OutsideInvariant

\* A recovery that reads the open intents, at a start or when a repository
\* becomes ready, leaves those of the live run alone.
LEMMA ReadPageSteps ==
    ASSUME ImportInvariant, Restart \/ ReconcileReady
    PROVE  ImportInvariant'
  <1>1. /\ ReadPage /\ UNCHANGED <<refs, head, retained, author, source, writes, obs, live>>
        /\ pc' = pc \/ (pc = "down" /\ pc' = "idle")
        /\ UNCHANGED spent \/ Spend("pages")
    BY DEF Restart, ReconcileReady, ReadPage, destination, settings
  <1>2. TypeOK /\ RunIsInOrder /\ ObservationsAreRecorded
    BY DEF ImportInvariant
  <1>3. ASSUME NEW i \in Rows
        PROVE  /\ SameRun(runs[i], runs'[i]) /\ runs'[i].status \in {runs[i].status, "interrupted"}
               /\ SameIntent(intents[i], intents'[i]) /\ intents'[i].status \in {intents[i].status, "invalidated"}
               /\ i = live.run => runs'[i] = runs[i] /\ intents'[i] = intents[i]
    <2>1. runs'[i] = Interrupted(i) /\ intents'[i] = Invalidated(i)
      BY <1>1 DEF ReadPage
    <2>2. runs[i] \in RunRecords /\ intents[i] \in IntentRecords
      BY <1>2, RowTypes
    <2>3. CASE IsActive(i) /\ i # live.run
      <3>1. runs'[i] = [runs[i] EXCEPT !.status = "interrupted"]
        BY <2>1, <2>3 DEF Interrupted
      <3>2. SameRun(runs[i], runs'[i]) /\ runs'[i].status = "interrupted"
        <4>1. runs[i].status \notin {"none", "complete"} /\ "interrupted" \in RunStatuses \ {"none"}
          BY <2>3 DEF IsActive, RunStatuses
        <4>2. SameRun(runs[i], runs'[i])
          BY <2>2, <3>1, <4>1, SameRuns, ZenonT(60)
        <4>3. runs'[i].status = "interrupted"
          BY <2>2, <3>1 DEF RunRecords
        <4> QED
          BY <4>2, <4>3
      <3>3. CASE intents[i].status \in {"planning", "applied"}
        BY <2>1, <2>2, <2>3, <3>2, <3>3, WithStatusSame DEF Invalidated, IntentStatuses
      <3>4. CASE intents[i].status \notin {"planning", "applied"}
        BY <2>1, <2>2, <2>3, <3>2, <3>4, SameIntents DEF Invalidated
      <3> QED
        BY <3>3, <3>4
    <2>4. CASE ~(IsActive(i) /\ i # live.run)
      <3>1. runs'[i] = runs[i] /\ SameRun(runs[i], runs'[i])
        BY <2>1, <2>2, <2>4, SameRuns DEF Interrupted
      <3>2. CASE intents[i].status \in {"planning", "applied"} /\ i # live.run
        BY <2>1, <2>2, <3>1, <3>2, WithStatusSame DEF Invalidated, IntentStatuses
      <3>3. CASE ~(intents[i].status \in {"planning", "applied"} /\ i # live.run)
        <4>1. intents'[i] = intents[i]
          BY <2>1, <3>3 DEF Invalidated
        <4> QED
          BY <2>2, <3>1, <4>1, SameIntents
      <3> QED
        BY <3>2, <3>3
    <2> QED
      BY <2>3, <2>4
  <1>4. RecordsKept
    <2>1. /\ DOMAIN runs' = Rows /\ runs' = [i \in Rows |-> runs'[i]]
          /\ DOMAIN intents' = Rows /\ intents' = [i \in Rows |-> intents'[i]]
      BY <1>1 DEF ReadPage
    <2>2. runs' \in [Rows -> RunRecords] /\ intents' \in [Rows -> IntentRecords]
      BY <1>3, <2>1 DEF SameRun, SameIntent
    <2> QED
      BY <1>3, <2>2 DEF RecordsKept
  <1>5. ObservationsAreRecorded'
    BY <1>1, <1>2, <1>4, ObservationsKept
  <1>6. page' \subseteq Rows /\ \A i \in page' : intents'[i].status # "none"
    BY <1>1, <1>3 DEF ReadPage, IsOpen, Pending, SameIntent
  <1>7. TypeOK'
    BY <1>1, <1>2, <1>4, <1>6, SpendTypes DEF TypeOK, RecordsKept
  <1>8. pc' \in Early \cup Publishing => live.run \in Rows
    BY <1>1, <1>2 DEF RunIsInOrder, Early, Publishing
  <1>9. UNCHANGED <<pc, live>> \/ (pc' = "idle" /\ live'.run = 0)
    BY <1>1, <1>2 DEF RunIsInOrder
  <1> QED
    BY <1>1, <1>3, <1>4, <1>5, <1>6, <1>7, <1>8, <1>9, OutsideInvariant

\* The owner resolves what is unresolved, when nobody refreshes.
LEMMA ResolveUnresolvedStep ==
    ASSUME ImportInvariant, ResolveUnresolved
    PROVE  ImportInvariant'
  <1>1. /\ LockFree /\ \A i \in Rows : ~IsActive(i)
        /\ intents' = [i \in Rows |-> IF intents[i].status = "unresolved"
                                     THEN WithStatus(intents[i], "owner_resolved") ELSE intents[i]]
        /\ UNCHANGED <<refs, head, retained, author, source, writes, runs, obs, pc, live, page, spent>>
    BY DEF ResolveUnresolved, destination, settings
  <1>2. TypeOK /\ RunIsInOrder /\ ObservationsAreRecorded
    BY DEF ImportInvariant
  <1>3. ASSUME NEW i \in Rows
        PROVE  /\ SameIntent(intents[i], intents'[i]) /\ SameRun(runs[i], runs'[i])
               /\ intents'[i].status \in {intents[i].status, "owner_resolved"}
    <2>1. intents[i] \in IntentRecords /\ SameRun(runs[i], runs'[i])
      BY <1>1, <1>2, RowTypes, SameRuns
    <2>2. CASE intents[i].status = "unresolved"
      BY <1>1, <2>1, <2>2, WithStatusSame DEF IntentStatuses
    <2>3. CASE intents[i].status # "unresolved"
      BY <1>1, <2>1, <2>3, SameIntents
    <2> QED
      BY <2>2, <2>3
  <1>4. RecordsKept
    <2>1. intents' \in [Rows -> IntentRecords]
      BY <1>1, <1>3 DEF SameIntent
    <2> QED
      BY <1>1, <1>2, <1>3, <2>1 DEF RecordsKept, TypeOK
  <1>5. ObservationsAreRecorded' /\ TypeOK'
    BY <1>1, <1>2, <1>4, ObservationsKept DEF TypeOK, RecordsKept
  <1>6. \A i \in page' : intents'[i].status # "none"
    BY <1>1, <1>2, <1>3 DEF RunIsInOrder, SameIntent, TypeOK
  <1>7. pc' \notin Early \cup Publishing
    BY <1>1, <1>2 DEF RunIsInOrder
  <1> QED
    BY <1>1, <1>3, <1>4, <1>5, <1>6, <1>7, OutsideInvariant

-----------------------------------------------------------------------------
(* The theorems *)

\* The first import is complete and observed, and no run is under way.
LEMMA InitInvariant == Init => ImportInvariant
  <1> SUFFICES ASSUME Init PROVE ImportInvariant
    OBVIOUS
  <1>c. /\ FirstImport \in Answers /\ FirstImport.refs \in [Refs -> Values] /\ FirstImport.head \in Refs
        /\ 1 \in Rows /\ 0 \in 0..MaxRuns /\ 1 \in 0..MaxRuns /\ "HEAD" \notin Refs
    BY ConstantsAssumption, AnswerTypes DEF Answers, Rows
  <1>1. source \in Sources /\ source.generation = 1
    <2>1. PICK s \in Settings : source = [generation |-> 1, authority |-> 1, signIn |-> 0,
                                          overwrite |-> s.overwrite, follow |-> s.follow]
      BY DEF Init
    <2>2. s \in [overwrite : BOOLEAN, follow : BOOLEAN]
      BY ConstantsAssumption
    <2>3. s.overwrite \in BOOLEAN /\ s.follow \in BOOLEAN /\ 1 \in 1..(MaxChanges + 1)
      BY <2>2, ConstantsAssumption
    <2> QED
      BY <2>1, <2>3 DEF Sources
  <1>2. NoRun \in RunRecords /\ NoRun.status = "none" /\ NoRun.source.generation = 1
    BY <1>1 DEF NoRun, RunRecords, RunStatuses, Init
  <1>3. /\ runs \in [Rows -> RunRecords] /\ runs[1].status = "complete" /\ runs[1].source.generation = 1
        /\ \A i \in Rows : i # 1 => runs[i].status = "none"
    <2>1. [NoRun EXCEPT !.status = "complete"] \in RunRecords
      BY <1>2 DEF RunRecords, RunStatuses
    <2> QED
      BY <1>c, <1>2, <2>1 DEF Init, RunRecords
  <1>4. NoIntent \in IntentRecords /\ NoIntent.status = "none"
    <2>1. NoFacts \in RefFacts /\ None \in Values
      <3>1. NoFacts \in [{} -> Values]
        BY DEF NoFacts
      <3> QED
        BY <3>1, FactsExist DEF Values
    <2> QED
      BY <2>1 DEF NoIntent, IntentRecords, IntentStatuses, HeadFacts
  <1> DEFINE none == [r \in Advertised(FirstImport) |-> None]
             first == [NoIntent EXCEPT !.status = "complete", !.owned = TRUE, !.sourceHead = FirstImport.head,
                         !.desired = Facts(FirstImport), !.observed = Facts(FirstImport),
                         !.expected = none, !.oldHead = FirstHead, !.newHead = FirstHead]
  <1>5. /\ first \in IntentRecords /\ first.status = "complete" /\ first.retained = {}
        /\ DOMAIN first.expected = Advertised(FirstImport) /\ DOMAIN first.desired = Advertised(FirstImport)
        /\ DOMAIN first.observed = Advertised(FirstImport) /\ first.newHead.target \in Refs
        /\ \A r \in Advertised(FirstImport) : first.expected[r] = None
    <2>1. Advertised(FirstImport) \subseteq Refs
      BY DEF Advertised
    <2>2. none \in RefFacts /\ Facts(FirstImport) \in RefFacts
          /\ DOMAIN none = Advertised(FirstImport) /\ DOMAIN Facts(FirstImport) = Advertised(FirstImport)
      <3>1. none \in [Advertised(FirstImport) -> Values] /\ Facts(FirstImport) \in [Advertised(FirstImport) -> Values]
        BY <1>c, <2>1 DEF Facts, Values
      <3> HIDE DEF none
      <3> QED
        BY <2>1, <3>1, FactsExist
    <2>3. FirstHead \in HeadFacts /\ FirstHead.target \in Refs
      BY <1>c DEF FirstHead, HeadFacts
    <2>4. \A r \in Advertised(FirstImport) : none[r] = None
      OBVIOUS
    <2>5. NoIntent.retained = {}
      BY DEF NoIntent
    <2> HIDE DEF none
    <2> QED
      BY <1>c, <1>4, <2>2, <2>3, <2>4, <2>5 DEF IntentRecords, IntentStatuses
  <1>6. /\ intents \in [Rows -> IntentRecords] /\ intents[1] = first
        /\ \A i \in Rows : i # 1 => intents[i].status = "none"
    <2>1. intents = [i \in Rows |-> IF i > 1 THEN NoIntent ELSE first]
      BY DEF Init
    <2> HIDE DEF first
    <2> QED
      BY <1>c, <1>4, <1>5, <2>1 DEF Rows
  <1> HIDE DEF first
  <1>7. /\ obs \in [1..(MaxChanges + 1) -> [Refs \cup {Head} -> 0..MaxRuns]]
        /\ \A g \in 1..(MaxChanges + 1), r \in Refs :
              obs[g][r] # 0 => g = 1 /\ r \in Advertised(FirstImport) /\ obs[g][r] = 1
    BY <1>c DEF Init, Head
  <1>8. pc = "idle" /\ live = Nothing /\ page = {} /\ Nothing \in LiveRecords /\ Nothing.run = 0
    BY ConstantsAssumption DEF Init, Nothing, LiveRecords
  <1>9. TypeOK
    <2>1. author \in [Refs \cup {Head} -> 0..MaxRuns]
      BY <1>c DEF Init
    <2>2. /\ spent \in [writes : Nat, changes : 0..MaxChanges, faults : Nat, crashes : Nat, pages : Nat]
          /\ spent.changes = 0
      BY ConstantsAssumption DEF Init
    <2> QED
      BY <1>c, <1>1, <1>3, <1>6, <1>7, <1>8, <2>1, <2>2 DEF Init, TypeOK
  <1>10. RunIsInOrder
    BY <1>3, <1>5, <1>6, <1>8 DEF RunIsInOrder, Early, Publishing
  <1>11. IntentsKeepTips
    BY <1>5, <1>6 DEF IntentsKeepTips, Changed
  <1>12. OthersAreSettled /\ PublicationIsAuthorised /\ PlanIsObserved
    BY <1>8 DEF OthersAreSettled, PublicationIsAuthorised, PlanIsObserved, Publishing
  <1>13. StoppedRunsWroteNothing
    <2>1. \A x \in Refs \cup {Head} : author[x] = 1
      BY DEF Init
    <2> QED
      BY <1>3, <1>8, <2>1 DEF StoppedRunsWroteNothing, WroteNothing, Early
  <1>14. ObservationsAreRecorded
    BY <1>3, <1>5, <1>6, <1>7 DEF ObservationsAreRecorded
  <1> QED
    BY <1>9, <1>10, <1>11, <1>12, <1>13, <1>14 DEF ImportInvariant

\* Every step keeps the invariant.
LEMMA NextKeepsInvariant == ImportInvariant /\ [Next]_vars => ImportInvariant'
  <1> SUFFICES ASSUME ImportInvariant, [Next]_vars PROVE ImportInvariant'
    OBVIOUS
  <1>1. CASE UNCHANGED vars
    <2>1. UNCHANGED <<refs, head, retained, author, source, writes, runs, intents, obs, pc, live, page, spent>>
      BY <1>1 DEF vars, destination, settings, record
    <2>2. RecordsKept /\ ObservationsAreRecorded'
      BY <2>1, UntouchedRecords, ObservationsKept DEF ImportInvariant
    <2>3. TypeOK'
      BY <2>1 DEF ImportInvariant, TypeOK
    <2>4. \A i \in page' : intents'[i].status # "none"
      BY <2>1 DEF ImportInvariant, RunIsInOrder
    <2> QED
      BY <2>1, <2>2, <2>3, <2>4, OutsideInvariant
  <1>2. CASE \E i \in Rows : BeginRun(i)
    BY <1>2, BeginRunStep
  <1>3. CASE RunStep
    BY <1>3, EarlySteps, ReconcileOlderStep, RecordIntentStep, PlannedSteps, Transactions,
       RecordingSteps, SettleSteps, FinishRunStep DEF RunStep
  <1>4. CASE LocalWrite \/ Cancel \/ Configure \/ ChangeRefWrites
    BY <1>4, LocalWriteStep, OwnerSteps
  <1>5. CASE Crash \/ Restart \/ ReconcileReady \/ ReconcilePage \/ ResolveUnresolved
    BY <1>5, CrashStep, ReadPageSteps, ReconcilePageStep, ResolveUnresolvedStep
  <1> QED
    BY <1>1, <1>2, <1>3, <1>4, <1>5 DEF Next

\* What a publishing run has found and planned under the lock still holds of
\* the records and of the authors of the repository's refs (ImportInvariant).
THEOREM InvariantHolds == Spec => []ImportInvariant
  BY InitInvariant, NextKeepsInvariant, PTL DEF Spec

\* One publication at a time (publishRepositoryLocked): while a run writes, no
\* other intent is planned, applied or of unknown outcome.
THEOREM OnePublication == Spec => []PublicationsDoNotOverlap
  <1>1. ImportInvariant => PublicationsDoNotOverlap
    BY DEF ImportInvariant, OthersAreSettled, PublicationsDoNotOverlap
  <1> QED
    BY <1>1, InvariantHolds, PTL

\* A run reported as cancelled or superseded has written nothing that is still
\* there (authorityCurrent, authorityUnchanged).
THEOREM StoppedLeaveNothing == Spec => []StoppedRunsLeaveNothing
  <1>1. ImportInvariant => StoppedRunsLeaveNothing
    BY DEF ImportInvariant, StoppedRunsWroteNothing, StoppedRunsLeaveNothing
  <1> QED
    BY <1>1, InvariantHolds, PTL

\* With kept history, a complete publication has kept the tips that it retired
\* (addRetention, observeIntent).
THEOREM TipsAreKept == Spec => []RetiredTipsAreKept
  <1>1. ImportInvariant => RetiredTipsAreKept
    BY DEF ImportInvariant, IntentsKeepTips, RetiredTipsAreKept
  <1> QED
    BY <1>1, InvariantHolds, PTL

\* What the transactions of a publication, and nothing else of an import, write:
\* a change of the plan, to a branch that still held what the plan expected and
\* that is either unguarded or not the branch HEAD names.
LEMMA WhatIsWritten ==
    ASSUME ImportInvariant, [Next]_vars, ByImport, NEW r \in Refs, refs'[r] # refs[r]
    PROVE  /\ pc \in Publishing /\ live.run \in Rows /\ r \in Changed(Intent)
           /\ refs[r] = Intent.expected[r] /\ refs'[r] = Intent.desired[r]
           /\ r = head => r \notin Guarded(live.run)
  <1>1. FirstTransaction \/ SecondTransaction \/ TransactionFails
    <2>1. ~LocalWrite
      <3>1. spent.writes \in Nat /\ spent.writes + 1 # spent.writes /\ DOMAIN spent = DOMAIN [spent EXCEPT !.writes = 0]
        BY DEF ImportInvariant, TypeOK
      <3>2. Spend("writes") => spent'.writes = spent.writes + 1
        BY DEF Spend, ImportInvariant, TypeOK
      <3> QED
        BY <3>1, <3>2 DEF LocalWrite, ByImport
    <2>2. refs' # refs
      OBVIOUS
    <2>3. ~(\/ \E a \in Advertisements : Fetch(a)
            \/ LockRepository \/ EndEarly \/ ReconcileOlder \/ RecordIntent \/ SkipTransaction
            \/ RefuseTransaction \/ RecordApplied \/ WriteHead \/ RecordHead
            \/ Settle \/ SettleFails \/ FinishRun)
      BY <2>2 DEF Fetch, LockRepository, EndEarly, ReconcileOlder, RecordIntent, SkipTransaction,
         RefuseTransaction, RecordApplied, WriteHead, RecordHead, Settle, SettleFails, FinishRun, destination
    <2>4. ~(\/ \E i \in Rows : BeginRun(i)
            \/ Cancel \/ Configure \/ ChangeRefWrites \/ Crash \/ Restart
            \/ ReconcileReady \/ ReconcilePage \/ ResolveUnresolved \/ UNCHANGED vars)
      BY <2>2 DEF BeginRun, Cancel, Configure, ChangeRefWrites, Crash, Restart, ReconcileReady, ReadPage,
         ReconcilePage, ResolveUnresolved, vars, destination
    <2> QED
      BY <2>1, <2>3, <2>4 DEF Next, RunStep
  <1>2. /\ pc \in {"planned", "second"} /\ pc \in Publishing /\ live.run \in Rows
        /\ pc = "second" => live.todo \subseteq Changed(Intent) \ Guarded(live.run)
    <2>1. pc \in {"planned", "second"} /\ pc \in Publishing
      BY <1>1 DEF FirstTransaction, SecondTransaction, TransactionFails, Publishing
    <2> QED
      BY <2>1, LiveRun DEF ImportInvariant, PublicationIsAuthorised
  <1>3. PICK set : /\ Write(set) /\ AreExpected(set)
                   /\ \/ pc = "planned" /\ GuardsHold(live.run) /\ set \subseteq FirstWrites(live.run)
                      \/ pc = "second" /\ set \subseteq live.todo
    <2>1. CASE FirstTransaction
      BY <2>1 DEF FirstTransaction, MayCommit
    <2>2. CASE SecondTransaction
      BY <2>2 DEF SecondTransaction
    <2>3. CASE TransactionFails
      <3>1. PICK done \in SUBSET (IF pc = "planned" THEN FirstWrites(live.run) ELSE live.todo) : Write(done)
        BY <2>3 DEF TransactionFails
      <3> QED
        BY <2>3, <3>1 DEF TransactionFails, MayCommit, AreExpected
    <2> QED
      BY <1>1, <2>1, <2>2, <2>3
  <1>4. set \subseteq Changed(Intent) /\ (head \in set => head \notin Guarded(live.run))
    BY <1>2, <1>3, RestIsUnguarded DEF Intent, GuardsHold
  <1>5. r \in set /\ refs'[r] = Intent.desired[r]
    BY <1>2, <1>3, <1>4, WriteTypes
  <1> QED
    BY <1>2, <1>3, <1>4, <1>5 DEF AreExpected

\* An import replaces or deletes local work only where the owner chose so
\* (mayReplaceLocal, planPublication).
THEOREM LocalWorkKept == Spec => LocalWorkIsKept
  <1>1. ASSUME ImportInvariant, [Next]_vars, ByImport, NEW r \in Refs, refs'[r] # refs[r], refs[r] # None
        PROVE  \E i \in Rows : MayChange(i, r, refs[r], refs'[r])
    BY <1>1, WhatIsWritten DEF ImportInvariant, PlanIsObserved
  <1>2. ImportInvariant /\ [Next]_vars =>
          [ByImport => \A r \in Refs : refs'[r] # refs[r] =>
             \/ refs[r] = None
             \/ \E i \in Rows : MayChange(i, r, refs[r], refs'[r])]_vars
    BY <1>1
  <1> QED
    BY <1>2, InvariantHolds, PTL DEF Spec, LocalWorkIsKept

\* The branch HEAD names is never deleted by an import and, protected, only
\* fast-forwarded (lockHEADChain, validatePreparedHEADGuards).
THEOREM DefaultBranchSafe == Spec => DefaultBranchIsSafe
  <1>1. ASSUME ImportInvariant, [Next]_vars, ByImport, refs[head] # None, refs'[head] # refs[head]
        PROVE  /\ refs'[head] # None
               /\ runs[live.run].writes.protect => IsAncestor(refs[head], refs'[head])
    <2>1. head \in Refs
      BY <1>1 DEF ImportInvariant, TypeOK
    <2>2. /\ head \in Changed(Intent) /\ head \notin Guarded(live.run)
          /\ refs[head] = Intent.expected[head] /\ refs'[head] = Intent.desired[head]
      BY <1>1, <2>1, WhatIsWritten
    <2> QED
      BY <1>1, <2>2 DEF Guarded, Intent
  <1>2. ImportInvariant /\ [Next]_vars =>
          [ByImport /\ refs[head] # None /\ refs'[head] # refs[head] =>
             /\ refs'[head] # None
             /\ runs[live.run].writes.protect => IsAncestor(refs[head], refs'[head])]_vars
    BY <1>1
  <1> QED
    BY <1>2, InvariantHolds, PTL DEF Spec, DefaultBranchIsSafe
=============================================================================
