------------------------- MODULE WorkflowRunsProofs -------------------------
(***************************************************************************)
(* Proofs about WorkflowRuns: what its transactions promise holds for any  *)
(* workflow files, runs, groups, limits and faults.  Settling is a         *)
(* function that follows a step to where it changes nothing: it exists and *)
(* ends because every change lowers what is left to settle (Left), and it  *)
(* stays in any set that no step of settling leads out of (SettledFacts).  *)
(* So the invariant of the rows (Sound) is shown once for the steps of     *)
(* settling, and for what each transaction does before them.               *)
(***************************************************************************)
EXTENDS WorkflowRuns, FiniteSetTheorems, WellFoundedInduction, TLAPS

-----------------------------------------------------------------------------
(* Repeating a step until it changes nothing *)

\* A nonempty set of natural numbers has a least member.
LEMMA LeastNatural ==
    ASSUME NEW T \in SUBSET Nat, T # {}
    PROVE  \E m \in T : \A k \in T : m <= k
<1> DEFINE R == {pair \in Nat \X Nat : pair[1] < pair[2]}
<1>1. IsWellFoundedOn(R, Nat)
  BY NatLessThanWellFounded DEF OpToRel
<1> HIDE DEF R
<1>2. PICK m \in T : \A k \in T : <<k, m>> \notin R
  BY <1>1, WFMin
<1>3. ASSUME NEW k \in T
      PROVE  m <= k
  <2>1. k < m => <<k, m>> \in R
    <3>1. <<k, m>> \in Nat \X Nat /\ <<k, m>>[1] = k /\ <<k, m>>[2] = m
      OBVIOUS
    <3>2. QED
      BY <3>1 DEF R
  <2>2. ~(k < m)
    BY <1>2, <2>1
  <2>3. QED
    BY <2>2
<1>4. QED
  BY <1>3

\* Of the members of a set with a measure, one has the least.
LEMMA LeastMeasure ==
    ASSUME NEW C, C # {}, NEW m, \A t \in C : m[t] \in Nat
    PROVE  \E t \in C : \A u \in C : m[t] <= m[u]
<1> DEFINE T == {m[t] : t \in C}
<1>1. PICK n \in T : \A k \in T : n <= k
  <2>1. T \in SUBSET Nat /\ T # {}
    OBVIOUS
  <2> HIDE DEF T
  <2>2. QED
    BY <2>1, LeastNatural
<1>2. PICK t \in C : n = m[t]
  OBVIOUS
<1>3. QED
  BY <1>1, <1>2

\* The function that follows F to where it changes nothing exists: it takes t to
\* a fixed point in every set that F does not lead out of and that holds t.
LEMMA RestExists ==
    ASSUME NEW D, NEW F \in [D -> D]
    PROVE  \E g : g = [t \in D |-> IF F[t] = t THEN t ELSE g[F[t]]]
<1> DEFINE Closed == {I \in SUBSET D : \A t \in I : F[t] \in I}
           Ends(t) == {u \in D : F[u] = u /\ \A I \in Closed : t \in I => u \in I}
           g == [t \in D |-> CHOOSE u : u \in Ends(t)]
<1>1. ASSUME NEW t \in D, F[t] = t
      PROVE  g[t] = t
  <2>1. {t} \in Closed
    BY <1>1
  <2>2. Ends(t) = {t}
    BY <1>1, <2>1
  <2> HIDE DEF Ends
  <2>3. QED
    BY <2>2
<1>2. ASSUME NEW t \in D, F[t] # t
      PROVE  g[t] = g[F[t]]
  <2>1. ASSUME NEW u \in Ends(F[t])
        PROVE  u \in Ends(t)
    OBVIOUS
  <2>2. ASSUME NEW u \in Ends(t), NEW I \in Closed, F[t] \in I
        PROVE  u \in I
    <3>1. I \cup {t} \in Closed
      BY <2>2
    <3>2. u \in I \cup {t} /\ u # t
      BY <1>2, <3>1
    <3>3. QED
      BY <3>2
  <2>3. Ends(t) = Ends(F[t])
    BY <2>1, <2>2
  <2> HIDE DEF Ends
  <2>4. QED
    BY <2>3
<1>3. g = [t \in D |-> IF F[t] = t THEN t ELSE g[F[t]]]
  <2> HIDE DEF Ends
  <2>1. \A t \in D : g[t] = IF F[t] = t THEN t ELSE g[F[t]]
    <3> HIDE DEF g
    <3>1. QED
      BY <1>1, <1>2
  <2>2. g = [t \in D |-> g[t]]
    OBVIOUS
  <2> HIDE DEF g
  <2>3. QED
    BY <2>1, <2>2
<1>4. QED
  BY <1>3

\* If every change lowers a measure, it does end, at a fixed point that lies in
\* every set that F does not lead out of.
LEMMA RestIsReached ==
    ASSUME NEW D, NEW F \in [D -> D], NEW g, g = [t \in D |-> IF F[t] = t THEN t ELSE g[F[t]]],
           NEW m, \A t \in D : m[t] \in Nat, \A t \in D : F[t] # t => m[F[t]] < m[t],
           NEW s \in D
    PROVE  /\ g[s] \in D /\ F[g[s]] = g[s]
           /\ \A I \in SUBSET D : s \in I /\ (\A t \in I : F[t] \in I) => g[s] \in I
<1> DEFINE Good(t) == /\ g[t] \in D /\ F[g[t]] = g[t]
                      /\ \A I \in SUBSET D : t \in I /\ (\A u \in I : F[u] \in I) => g[t] \in I
           C == {t \in D : ~Good(t)}
<1>1. SUFFICES ASSUME C # {} PROVE FALSE
  OBVIOUS
<1>2. PICK t \in C : \A u \in C : m[t] <= m[u]
  <2> HIDE DEF Good
  <2>1. QED
    BY <1>1, LeastMeasure
<1>3. t \in D /\ ~Good(t)
  OBVIOUS
<1>4. CASE F[t] = t
  <2>1. g[t] = t
    BY <1>3, <1>4
  <2>2. QED
    BY <1>3, <1>4, <2>1
<1>5. CASE F[t] # t
  <2>1. g[t] = g[F[t]] /\ F[t] \in D
    BY <1>3, <1>5
  <2>2. m[F[t]] < m[t] /\ m[F[t]] \in Nat /\ m[t] \in Nat
    BY <1>3, <1>5
  <2>3. F[t] \notin C
    BY <1>2, <2>2
  <2>4. Good(F[t])
    BY <2>1, <2>3
  <2>5. QED
    BY <1>3, <2>1, <2>4
<1>6. QED
  BY <1>4, <1>5
-----------------------------------------------------------------------------
(* The updates of a job *)

\* A cancellation ends what did not start and marks what did, and does so once.
LEMMA CancelledJob ==
    ASSUME NEW job \in JobRecords
    PROVE  /\ Cancelled(job) \in JobRecords
           /\ Cancelled(Cancelled(job)) = Cancelled(job)
           /\ Cancelled(job).credential = job.credential
           /\ Cancelled(job).status =
                  IF job.status \in Queued \cup {"claimed"} THEN "cancelled" ELSE job.status
           /\ job.status \notin Unfinished \cup {"ambiguous"} => Cancelled(job) = job
<1>1. ASSUME job.status \in Queued \cup {"claimed"}
      PROVE  /\ Cancelled(job) \in JobRecords /\ Cancelled(job).credential = job.credential
             /\ Cancelled(job).status = "cancelled"
             /\ job.status \in Unfinished
  <2>1. Cancelled(job) = [job EXCEPT !.status = "cancelled", !.late = FALSE, !.cancel = TRUE, !.finished = TRUE]
    BY <1>1 DEF Cancelled
  <2>2. "cancelled" \in Statuses
    BY DEF Statuses, Results
  <2>3. job.status \in Unfinished
    BY <1>1 DEF Unfinished, Active
  <2>4. QED
    BY <2>1, <2>2, <2>3 DEF JobRecords
<1>2. ASSUME job.status \in {"started", "ambiguous"}
      PROVE  /\ Cancelled(job) \in JobRecords /\ Cancelled(job).credential = job.credential
             /\ Cancelled(job).status = job.status /\ Cancelled(job).cancel = TRUE
             /\ Cancelled(Cancelled(job)) = Cancelled(job)
             /\ job.status \in Unfinished \cup {"ambiguous"}
  <2>1. \A other \in JobRecords : other.status = job.status => Cancelled(other) = [other EXCEPT !.cancel = TRUE]
    BY <1>2 DEF Cancelled, Queued
  <2>2. [job EXCEPT !.cancel = TRUE] \in JobRecords /\ [job EXCEPT !.cancel = TRUE].status = job.status
    BY DEF JobRecords
  <2>3. [[job EXCEPT !.cancel = TRUE] EXCEPT !.cancel = TRUE] = [job EXCEPT !.cancel = TRUE]
    BY DEF JobRecords
  <2>4. job.status \in Unfinished \cup {"ambiguous"}
    BY <1>2 DEF Unfinished, Active
  <2>5. QED
    BY <2>1, <2>2, <2>3, <2>4 DEF JobRecords
<1>3. ASSUME NEW other \in JobRecords, other.status \notin Queued \cup {"claimed", "started", "ambiguous"}
      PROVE  Cancelled(other) = other
  BY <1>3 DEF Cancelled
<1>4. \A status : status \notin Unfinished \cup {"ambiguous"} => status \notin Queued \cup {"claimed", "started", "ambiguous"}
  BY DEF Unfinished, Active
<1>5. "cancelled" \notin Queued \cup {"claimed", "started", "ambiguous"} /\ {"started", "ambiguous"} \cap Queued = {}
  BY DEF Queued
<1>6. CASE job.status \in Queued \cup {"claimed"}
  BY <1>1, <1>3, <1>5, <1>6
<1>7. CASE job.status \in {"started", "ambiguous"}
  BY <1>2, <1>5, <1>7
<1>8. CASE job.status \notin Queued \cup {"claimed", "started", "ambiguous"}
  BY <1>3, <1>8
<1>9. QED
  BY <1>6, <1>7, <1>8

\* A job that ends without a start gets a status and keeps its claim and its cancellation.
LEMMA UnstartedJob ==
    ASSUME NEW job \in JobRecords, NEW status \in Statuses
    PROVE  /\ EndedUnstarted(job, status) \in JobRecords
           /\ EndedUnstarted(job, status).status = status
           /\ EndedUnstarted(job, status).credential = job.credential
           /\ EndedUnstarted(job, status).cancel = job.cancel
  BY DEF EndedUnstarted, JobRecords

\* A release changes the status alone.
LEMMA ReleasedJob ==
    ASSUME NEW job \in JobRecords
    PROVE  /\ [job EXCEPT !.status = "pending"] \in JobRecords
           /\ [job EXCEPT !.status = "pending"].status = "pending"
           /\ [job EXCEPT !.status = "pending"].credential = job.credential
  BY DEF JobRecords, Statuses, Unfinished, Queued

\* Rows with other jobs are rows again.
LEMMA RowsWithJobs ==
    ASSUME NEW s \in Store, NEW f \in [Ids -> JobRecords]
    PROVE  /\ [s EXCEPT !.jobs = f] \in Store
           /\ [s EXCEPT !.jobs = f].jobs = f
           /\ [s EXCEPT !.jobs = f].runs = s.runs
  BY DEF Store

\* So are rows with another job in one place, and the others are as before.
LEMMA RowsWithOneJob ==
    ASSUME NEW s \in Store, NEW j \in Ids, NEW job \in JobRecords
    PROVE  /\ [s EXCEPT !.jobs[j] = job] \in Store
           /\ [s EXCEPT !.jobs[j] = job].runs = s.runs
           /\ [s EXCEPT !.jobs[j] = job].jobs[j] = job
           /\ \A k \in Ids : k # j => [s EXCEPT !.jobs[j] = job].jobs[k] = s.jobs[k]
  BY DEF Store

\* Two rows that agree in their runs and in their jobs are the same.
LEMMA StoreIsRecord ==
    ASSUME NEW s \in Store, NEW t \in Store, s.runs = t.runs, s.jobs = t.jobs
    PROVE  s = t
  BY DEF Store

-----------------------------------------------------------------------------
(* What the steps of settling do *)

\* t is s after the cancellation of some jobs and of some runs with their jobs.
Cancels(s, t) ==
    /\ t \in Store
    /\ \A k \in Ids : t.jobs[k] \in {s.jobs[k], Cancelled(s.jobs[k])}
    /\ \A r \in Runs :
         \/ t.runs[r] = s.runs[r]
         \/ /\ t.runs[r] = [s.runs[r] EXCEPT !.cancel = TRUE] /\ RowsOf(s, r) # {}
            /\ \A k \in Ids : k[1] = r => t.jobs[k] = Cancelled(s.jobs[k])

\* Two cancellations one after the other are one.
LEMMA CancelsTransitive ==
    ASSUME NEW s \in Store, NEW t, NEW u, Cancels(s, t), Cancels(t, u)
    PROVE  Cancels(s, u)
<1>1. u \in Store /\ t \in Store
  BY DEF Cancels
<1>2. ASSUME NEW k \in Ids
      PROVE  /\ u.jobs[k] \in {s.jobs[k], Cancelled(s.jobs[k])}
             /\ t.jobs[k] = Cancelled(s.jobs[k]) => u.jobs[k] = Cancelled(s.jobs[k])
             /\ u.jobs[k] = Cancelled(t.jobs[k]) => u.jobs[k] = Cancelled(s.jobs[k])
             /\ t.jobs[k].status = "absent" <=> s.jobs[k].status = "absent"
  <2>1. s.jobs[k] \in JobRecords
    BY DEF Store
  <2>2. Cancelled(Cancelled(s.jobs[k])) = Cancelled(s.jobs[k])
    BY <2>1, CancelledJob
  <2>3. t.jobs[k] \in {s.jobs[k], Cancelled(s.jobs[k])} /\ u.jobs[k] \in {t.jobs[k], Cancelled(t.jobs[k])}
    BY DEF Cancels
  <2>4. Cancelled(s.jobs[k]).status = "absent" <=> s.jobs[k].status = "absent"
    BY <2>1, CancelledJob DEF Queued
  <2>5. QED
    BY <2>2, <2>3, <2>4
<1>3. ASSUME NEW r \in Runs
      PROVE  \/ u.runs[r] = s.runs[r]
             \/ /\ u.runs[r] = [s.runs[r] EXCEPT !.cancel = TRUE] /\ RowsOf(s, r) # {}
                /\ \A k \in Ids : k[1] = r => u.jobs[k] = Cancelled(s.jobs[k])
  <2>1. s.runs[r] \in RunRecords
    BY DEF Store
  <2>2. [[s.runs[r] EXCEPT !.cancel = TRUE] EXCEPT !.cancel = TRUE] = [s.runs[r] EXCEPT !.cancel = TRUE]
    BY <2>1 DEF RunRecords
  <2>3. \/ t.runs[r] = s.runs[r]
        \/ /\ t.runs[r] = [s.runs[r] EXCEPT !.cancel = TRUE] /\ RowsOf(s, r) # {}
           /\ \A k \in Ids : k[1] = r => t.jobs[k] = Cancelled(s.jobs[k])
    BY DEF Cancels
  <2>4. \/ u.runs[r] = t.runs[r]
        \/ /\ u.runs[r] = [t.runs[r] EXCEPT !.cancel = TRUE] /\ RowsOf(t, r) # {}
           /\ \A k \in Ids : k[1] = r => u.jobs[k] = Cancelled(t.jobs[k])
    BY DEF Cancels
  <2>5. CASE u.runs[r] = t.runs[r]
    BY <1>2, <2>3, <2>5
  <2>6. CASE /\ u.runs[r] = [t.runs[r] EXCEPT !.cancel = TRUE] /\ RowsOf(t, r) # {}
             /\ \A k \in Ids : k[1] = r => u.jobs[k] = Cancelled(t.jobs[k])
    <3>1. \A k \in Ids : k[1] = r => u.jobs[k] = Cancelled(s.jobs[k])
      BY <1>2, <2>6
    <3>2. u.runs[r] = [s.runs[r] EXCEPT !.cancel = TRUE]
      BY <2>2, <2>3, <2>6
    <3>3. RowsOf(s, r) # {}
      BY <1>2, <2>6 DEF RowsOf, Rows
    <3>4. QED
      BY <3>1, <3>2, <3>3
  <2>7. QED
    BY <2>4, <2>5, <2>6
<1>4. QED
  BY <1>1, <1>2, <1>3 DEF Cancels

\* Cancelling a set of jobs cancels those and no run.
LEMMA WithCancelledCancels ==
    ASSUME NEW s \in Store, NEW ids
    PROVE  /\ Cancels(s, WithCancelled(s, ids))
           /\ WithCancelled(s, ids).runs = s.runs
           /\ \A k \in Ids : WithCancelled(s, ids).jobs[k] =
                                 IF k \in ids THEN Cancelled(s.jobs[k]) ELSE s.jobs[k]
<1> DEFINE f == [j \in Ids |-> IF j \in ids THEN Cancelled(s.jobs[j]) ELSE s.jobs[j]]
<1>1. \A j \in Ids : s.jobs[j] \in JobRecords /\ Cancelled(s.jobs[j]) \in JobRecords
  BY CancelledJob DEF Store
<1>2. f \in [Ids -> JobRecords]
  BY <1>1
<1>3. CASE ids = {}
  <2>1. WithCancelled(s, ids) = s
    BY <1>3 DEF WithCancelled, WithJobs
  <2>2. QED
    BY <1>3, <2>1 DEF Cancels
<1>4. CASE ids # {}
  <2>1. WithCancelled(s, ids) = [s EXCEPT !.jobs = f]
    BY <1>4 DEF WithCancelled, WithJobs
  <2>2. \A j \in Ids : f[j] = IF j \in ids THEN Cancelled(s.jobs[j]) ELSE s.jobs[j]
    OBVIOUS
  <2> HIDE DEF f
  <2>3. /\ WithCancelled(s, ids) \in Store
        /\ WithCancelled(s, ids).jobs = f
        /\ WithCancelled(s, ids).runs = s.runs
    BY <1>2, <2>1, RowsWithJobs
  <2>4. QED
    BY <2>2, <2>3 DEF Cancels
<1>5. QED
  BY <1>3, <1>4

\* Cancelling runs cancels those that are not over, with all their jobs.
LEMMA WithCancelledRunsCancels ==
    ASSUME NEW s \in Store, NEW rs
    PROVE  Cancels(s, WithCancelledRuns(s, rs))
<1> DEFINE open == {r \in rs : \E j \in RowsOf(s, r) : ~IsHistory(s.jobs[j])}
           stopped == [r \in Runs |-> IF r \in open THEN [s.runs[r] EXCEPT !.cancel = TRUE] ELSE s.runs[r]]
           ids == {j \in Rows(s) : j[1] \in open}
           t == [s EXCEPT !.runs = stopped]
           u == WithCancelled(t, ids)
<1>1. WithCancelledRuns(s, rs) = u
  BY DEF WithCancelledRuns
<1> HIDE DEF open
<1>2. stopped \in [Runs -> RunRecords]
  <2>1. ASSUME NEW r \in Runs
        PROVE  s.runs[r] \in RunRecords /\ [s.runs[r] EXCEPT !.cancel = TRUE] \in RunRecords
    BY DEF Store, RunRecords
  <2>2. QED
    BY <2>1
<1>3. t \in Store /\ t.jobs = s.jobs /\ t.runs = stopped
  BY <1>2 DEF Store
<1>4. /\ u \in Store /\ u.runs = stopped
      /\ \A k \in Ids : u.jobs[k] = IF k \in ids THEN Cancelled(s.jobs[k]) ELSE s.jobs[k]
  <2> HIDE DEF t, ids, stopped
  <2>1. QED
    BY <1>3, WithCancelledCancels DEF Cancels, u
<1>5. ASSUME NEW r \in Runs, u.runs[r] # s.runs[r]
      PROVE  /\ u.runs[r] = [s.runs[r] EXCEPT !.cancel = TRUE] /\ RowsOf(s, r) # {}
             /\ \A k \in Ids : k[1] = r => u.jobs[k] = Cancelled(s.jobs[k])
  <2>1. r \in open /\ u.runs[r] = [s.runs[r] EXCEPT !.cancel = TRUE]
    <3> HIDE DEF u
    <3>1. QED
      BY <1>4, <1>5
  <2>2. ASSUME NEW k \in Ids, k[1] = r
        PROVE  u.jobs[k] = Cancelled(s.jobs[k])
    <3>1. CASE s.jobs[k].status = "absent"
      <4>1. s.jobs[k] \in JobRecords
        BY DEF Store
      <4>2. Cancelled(s.jobs[k]) = s.jobs[k]
        BY <3>1, <4>1, CancelledJob DEF Unfinished, Queued, Active
      <4> HIDE DEF u
      <4>3. QED
        BY <1>4, <4>2
    <3>2. CASE s.jobs[k].status # "absent"
      <4>1. k \in ids
        BY <2>1, <2>2, <3>2 DEF Rows
      <4> HIDE DEF u, ids
      <4>2. QED
        BY <1>4, <4>1
    <3>3. QED
      BY <3>1, <3>2
  <2>3. RowsOf(s, r) # {}
    BY <2>1 DEF open
  <2>4. QED
    BY <2>1, <2>2, <2>3
<1>6. \A k \in Ids : u.jobs[k] \in {s.jobs[k], Cancelled(s.jobs[k])}
  <2> HIDE DEF u, ids
  <2>1. QED
    BY <1>4
<1> HIDE DEF u
<1>7. QED
  BY <1>1, <1>4, <1>5, <1>6 DEF Cancels

\* Whatever gives way in a group, is cancelled in it or finds it full: nothing
\* else happens when a run is admitted to it or a job released into it.
LEMMA InGroupCancels ==
    ASSUME NEW s \in Store, NEW r, NEW j, NEW c
    PROVE  Cancels(s, InGroup(s, r, j, c))
<1>1. Cancels(s, s)
  BY DEF Cancels
<1>2. ASSUME NEW rs, NEW ids
      PROVE  Cancels(s, WithCancelled(WithCancelledRuns(s, rs), ids))
  <2>1. Cancels(s, WithCancelledRuns(s, rs)) /\ WithCancelledRuns(s, rs) \in Store
    BY WithCancelledRunsCancels DEF Cancels
  <2>2. QED
    BY <2>1, WithCancelledCancels, CancelsTransitive
<1>3. ASSUME NEW t, Cancels(s, t), NEW ids
      PROVE  Cancels(s, WithCancelled(t, ids)) /\ Cancels(s, WithCancelledRuns(t, ids))
  <2>1. t \in Store
    BY <1>3 DEF Cancels
  <2>2. QED
    BY <1>3, <2>1, WithCancelledCancels, WithCancelledRunsCancels, CancelsTransitive
<1>4. QED
  BY <1>1, <1>2, <1>3 DEF InGroup

-----------------------------------------------------------------------------
\* A job that waits in a run that goes on.
Waits(s, j) == s.jobs[j].status = "waiting" /\ ~s.runs[j[1]].cancel
NeedsAreHistory(s, j) == \A k \in NeededBy(s, j) : IsHistory(s.jobs[k])
Unstarted(s, j, status) == [s EXCEPT !.jobs[j] = EndedUnstarted(s.jobs[j], status)]
Released(s, j) == [s EXCEPT !.jobs[j] = [s.jobs[j] EXCEPT !.status = "pending"]]

\* No step of settling leads out of P: no cancellation, no waiting job that is
\* skipped or cannot be planned, and no release of a job that has its needs.
SettlesInside(P) ==
    /\ \A t \in P : \A u \in Store : Cancels(t, u) => u \in P
    /\ \A t \in P : \A j \in Ids : Waits(t, j) =>
           /\ \A status \in {"skipped", "error"} : Unstarted(t, j, status) \in P
           /\ NeedsAreHistory(t, j) => Released(t, j) \in P

\* What a job needs itself is among what it depends on.
LEMMA NeedsAreAncestors ==
    ASSUME NEW s, NEW j
    PROVE  NeededBy(s, j) \subseteq AncestorsOf(s, j)
  BY DEF AncestorsOf, NeededBy

\* What is ready and not in doubt has its needs.
LEMMA ReadyNeeds ==
    ASSUME NEW s \in Store, NEW j \in Ids, IsReady(s, j), ~IsUncertain(s, j)
    PROVE  NeedsAreHistory(s, j)
<1>1. ASSUME NEW k \in NeededBy(s, j)
      PROVE  s.jobs[k].status \notin {"absent", "ambiguous"} \cup Unfinished
  <2>1. s.jobs[k].status \notin Unfinished
    BY DEF IsReady
  <2>2. s.jobs[k].status # "ambiguous"
    BY NeedsAreAncestors DEF IsUncertain
  <2>3. s.jobs[k].status # "absent"
    BY DEF NeededBy, RowsOf, Rows
  <2>4. QED
    BY <2>1, <2>2, <2>3
<1>2. QED
  BY <1>1 DEF NeedsAreHistory, IsHistory, IsTerminal

\* To resolve a ready job is to skip it, to refuse its plan, or to release it and
\* then to cancel what gives way to it.
LEMMA ResolvedInside ==
    ASSUME NEW P \in SUBSET Store, SettlesInside(P), NEW s \in P, NEW j \in Ids,
           Waits(s, j), IsReady(s, j)
    PROVE  Resolved(s, j) \in P
<1>1. CASE IsUncertain(s, j) \/ ~Holds(s, j)
  <2>1. Resolved(s, j) = Unstarted(s, j, "skipped")
    BY <1>1 DEF Resolved, Unstarted
  <2>2. QED
    BY <2>1 DEF SettlesInside
<1>2. CASE ~IsUncertain(s, j) /\ Holds(s, j) /\ Planned(s, j).broken
  <2>1. Resolved(s, j) = Unstarted(s, j, "error")
    BY <1>2 DEF Resolved, Unstarted
  <2>2. QED
    BY <2>1 DEF SettlesInside
<1>3. CASE ~IsUncertain(s, j) /\ Holds(s, j) /\ ~Planned(s, j).broken
  <2>1. Resolved(s, j) = InGroup(Released(s, j), j[1], j, Planned(s, j))
    BY <1>3 DEF Resolved, Released
  <2>2. Released(s, j) \in P
    BY <1>3, ReadyNeeds DEF SettlesInside
  <2>3. Cancels(Released(s, j), Resolved(s, j))
    BY <2>1, <2>2, InGroupCancels
  <2>4. QED
    BY <2>2, <2>3 DEF SettlesInside, Cancels
<1>4. QED
  BY <1>1, <1>2, <1>3

\* A nonempty set of jobs of one run has a first.
LEMMA FirstJob ==
    ASSUME NEW S \in SUBSET Ids, S # {}
    PROVE  (CHOOSE j \in S : \A k \in S : j[2] <= k[2]) \in S
<1> DEFINE m == [j \in S |-> j[2]]
<1>1. \A j \in S : m[j] \in Nat
  BY ConstantsAssumption DEF Ids, Slots
<1>2. \E j \in S : \A k \in S : m[j] <= m[k]
  <2> HIDE DEF m
  <2>1. QED
    BY <1>1, LeastMeasure
<1>3. \E j \in S : \A k \in S : j[2] <= k[2]
  BY <1>2
<1>4. QED
  BY <1>3

\* A turn of settling is a step of settling, or none.
LEMMA StepInside ==
    ASSUME NEW P \in SUBSET Store, SettlesInside(P), NEW s \in P, NEW r \in Runs
    PROVE  SettlingStep(s, r) \in P
<1> DEFINE t == FailFast(s, r)
           ready == {j \in RowsOf(t, r) : t.jobs[j].status = "waiting" /\ IsReady(t, j)}
           first == CHOOSE j \in ready : \A k \in ready : j[2] <= k[2]
<1>1. t \in P /\ t.runs = s.runs
  <2>1. Cancels(s, t) /\ t.runs = s.runs
    BY WithCancelledCancels DEF FailFast
  <2>2. QED
    BY <2>1 DEF SettlesInside, Cancels
<1>2. CASE s.runs[r].cancel
  <2>1. SettlingStep(s, r) = WithCancelled(s, RowsOf(s, r))
    BY <1>2 DEF SettlingStep
  <2>2. QED
    BY <2>1, WithCancelledCancels DEF SettlesInside, Cancels
<1>3. CASE ~s.runs[r].cancel /\ ready = {}
  <2>1. SettlingStep(s, r) = t
    BY <1>3 DEF SettlingStep
  <2>2. QED
    BY <1>1, <2>1
<1>4. CASE ~s.runs[r].cancel /\ ready # {}
  <2>1. SettlingStep(s, r) = Resolved(t, first)
    BY <1>4 DEF SettlingStep
  <2>2. first \in ready
    <3>1. ready \in SUBSET Ids
      BY DEF RowsOf, Rows
    <3> HIDE DEF ready
    <3>2. QED
      BY <1>4, <3>1, FirstJob
  <2>3. first \in Ids /\ Waits(t, first) /\ IsReady(t, first)
    <3> HIDE DEF first
    <3>1. QED
      BY <1>1, <1>4, <2>2 DEF Waits, RowsOf, Rows
  <2> HIDE DEF t, first
  <2>4. QED
    BY <1>1, <2>1, <2>3, ResolvedInside
<1>5. QED
  BY <1>2, <1>3, <1>4

-----------------------------------------------------------------------------
(* Settling ends *)

WaitingJobs(s) == {j \in Ids : s.jobs[j].status = "waiting"}
CancellableJobs(s) == {j \in Ids : Cancelled(s.jobs[j]) # s.jobs[j]}
OpenRuns(s) == {r \in Runs : ~s.runs[r].cancel}
\* What is left to settle.
Left(s) == Cardinality(WaitingJobs(s)) + Cardinality(CancellableJobs(s)) + Cardinality(OpenRuns(s))

\* There are finitely many runs and jobs.
LEMMA IdsAreFinite == IsFiniteSet(Runs) /\ IsFiniteSet(Slots) /\ IsFiniteSet(Ids)
<1>1. IsFiniteSet(Runs) /\ IsFiniteSet(Slots)
  BY ConstantsAssumption, FS_Interval DEF Runs, Slots
<1>2. QED
  BY <1>1, FS_Product DEF Ids

\* What is left to settle is counted by a natural number.
LEMMA LeftIsNatural ==
    ASSUME NEW s
    PROVE  /\ Left(s) \in Nat
           /\ IsFiniteSet(WaitingJobs(s)) /\ IsFiniteSet(CancellableJobs(s)) /\ IsFiniteSet(OpenRuns(s))
<1>1. WaitingJobs(s) \subseteq Ids /\ CancellableJobs(s) \subseteq Ids /\ OpenRuns(s) \subseteq Runs
  BY DEF WaitingJobs, CancellableJobs, OpenRuns
<1>2. IsFiniteSet(WaitingJobs(s)) /\ IsFiniteSet(CancellableJobs(s)) /\ IsFiniteSet(OpenRuns(s))
  BY <1>1, IdsAreFinite, FS_Subset
<1>3. QED
  BY <1>2, FS_CardinalityType DEF Left

\* Where none of the three counted sets grows and one shrinks, less is left.
LEMMA LessIsLeft ==
    ASSUME NEW s, NEW t,
           WaitingJobs(t) \subseteq WaitingJobs(s), CancellableJobs(t) \subseteq CancellableJobs(s),
           OpenRuns(t) \subseteq OpenRuns(s),
           \/ WaitingJobs(t) # WaitingJobs(s) \/ CancellableJobs(t) # CancellableJobs(s)
           \/ OpenRuns(t) # OpenRuns(s)
    PROVE  Left(t) < Left(s)
<1>1. ASSUME NEW B, IsFiniteSet(B), NEW A, A \subseteq B
      PROVE  /\ Cardinality(A) \in Nat /\ Cardinality(B) \in Nat
             /\ Cardinality(A) <= Cardinality(B)
             /\ A # B => Cardinality(A) < Cardinality(B)
  BY <1>1, FS_Subset, FS_CardinalityType
<1> DEFINE w(x) == Cardinality(WaitingJobs(x))
           c(x) == Cardinality(CancellableJobs(x))
           o(x) == Cardinality(OpenRuns(x))
<1>2. /\ w(t) \in Nat /\ w(s) \in Nat /\ w(t) <= w(s)
      /\ WaitingJobs(t) # WaitingJobs(s) => w(t) < w(s)
  BY <1>1, LeftIsNatural
<1>3. /\ c(t) \in Nat /\ c(s) \in Nat /\ c(t) <= c(s)
      /\ CancellableJobs(t) # CancellableJobs(s) => c(t) < c(s)
  BY <1>1, LeftIsNatural
<1>4. /\ o(t) \in Nat /\ o(s) \in Nat /\ o(t) <= o(s)
      /\ OpenRuns(t) # OpenRuns(s) => o(t) < o(s)
  BY <1>1, LeftIsNatural
<1>5. Left(s) = w(s) + c(s) + o(s) /\ Left(t) = w(t) + c(t) + o(t)
  BY DEF Left
<1> HIDE DEF w, c, o
<1>6. QED
  BY <1>2, <1>3, <1>4, <1>5

\* A cancellation that changes something leaves less to settle.
LEMMA CancellingLowers ==
    ASSUME NEW s \in Store, NEW t \in Store, Cancels(s, t), t # s
    PROVE  Left(t) < Left(s)
<1>1. ASSUME NEW k \in Ids
      PROVE  /\ s.jobs[k] \in JobRecords /\ t.jobs[k] \in {s.jobs[k], Cancelled(s.jobs[k])}
             /\ Cancelled(Cancelled(s.jobs[k])) = Cancelled(s.jobs[k])
             /\ t.jobs[k].status = "waiting" => s.jobs[k].status = "waiting"
  <2>1. s.jobs[k] \in JobRecords
    BY DEF Store
  <2>2. QED
    BY <2>1, CancelledJob DEF Cancels
<1>2. WaitingJobs(t) \subseteq WaitingJobs(s)
  BY <1>1 DEF WaitingJobs
<1>3. CancellableJobs(t) \subseteq CancellableJobs(s)
  BY <1>1 DEF CancellableJobs
<1>4. ASSUME NEW r \in Runs
      PROVE  /\ t.runs[r].cancel = s.runs[r].cancel \/ t.runs[r].cancel
             /\ t.runs[r] # s.runs[r] => t.runs[r].cancel /\ ~s.runs[r].cancel
  <2>1. s.runs[r] \in RunRecords
    BY DEF Store
  <2>2. t.runs[r] \in {s.runs[r], [s.runs[r] EXCEPT !.cancel = TRUE]}
    BY DEF Cancels
  <2>3. s.runs[r].cancel => [s.runs[r] EXCEPT !.cancel = TRUE] = s.runs[r]
    BY <2>1 DEF RunRecords
  <2>4. [s.runs[r] EXCEPT !.cancel = TRUE].cancel = TRUE
    BY <2>1 DEF RunRecords
  <2>5. QED
    BY <2>2, <2>3, <2>4
<1>5. OpenRuns(t) \subseteq OpenRuns(s)
  BY <1>4 DEF OpenRuns
<1>6. CASE t.runs # s.runs
  <2>1. PICK r \in Runs : t.runs[r] # s.runs[r]
    BY <1>6 DEF Store
  <2>2. r \in OpenRuns(s) /\ r \notin OpenRuns(t)
    BY <1>4, <2>1 DEF OpenRuns
  <2>3. QED
    BY <1>2, <1>3, <1>5, <2>2, LessIsLeft
<1>7. CASE t.runs = s.runs
  <2>1. PICK k \in Ids : t.jobs[k] # s.jobs[k]
    BY <1>7, StoreIsRecord DEF Store
  <2>2. k \in CancellableJobs(s) /\ k \notin CancellableJobs(t)
    BY <1>1, <2>1 DEF CancellableJobs
  <2>3. QED
    BY <1>2, <1>3, <1>5, <2>2, LessIsLeft
<1>8. QED
  BY <1>6, <1>7

\* One job that stops waiting is less to settle.
LEMMA EndingAWaitLowers ==
    ASSUME NEW s \in Store, NEW j \in Ids, s.jobs[j].status = "waiting",
           NEW job \in JobRecords, job.status # "waiting"
    PROVE  Left([s EXCEPT !.jobs[j] = job]) < Left(s)
<1> DEFINE t == [s EXCEPT !.jobs[j] = job]
<1>1. t.runs = s.runs /\ t.jobs[j] = job /\ \A k \in Ids : k # j => t.jobs[k] = s.jobs[k]
  BY RowsWithOneJob
<1> HIDE DEF t
<1>2. WaitingJobs(t) \subseteq WaitingJobs(s) /\ j \in WaitingJobs(s) /\ j \notin WaitingJobs(t)
  BY <1>1 DEF WaitingJobs
<1>3. Cancelled(s.jobs[j]) # s.jobs[j]
  <2>1. s.jobs[j] \in JobRecords
    BY DEF Store
  <2>2. Cancelled(s.jobs[j]).status = "cancelled"
    BY <2>1, CancelledJob DEF Queued
  <2>3. QED
    BY <2>2
<1>4. CancellableJobs(t) \subseteq CancellableJobs(s)
  BY <1>1, <1>3 DEF CancellableJobs
<1>5. OpenRuns(t) \subseteq OpenRuns(s)
  BY <1>1 DEF OpenRuns
<1>6. Left(t) < Left(s)
  BY <1>2, <1>4, <1>5, LessIsLeft
<1>7. QED
  BY <1>6 DEF t

\* What has at most n left to settle, and what s itself or less is left of.
AtMost(s) == {t \in Store : t = s \/ Left(t) < Left(s)}
Below(s) == {t \in Store : Left(t) < Left(s)}

\* No step of settling leads out of either: each that changes something lowers
\* what is left.
LEMMA SettlingLowers ==
    ASSUME NEW s \in Store
    PROVE  /\ AtMost(s) \in SUBSET Store /\ SettlesInside(AtMost(s)) /\ s \in AtMost(s)
           /\ Below(s) \in SUBSET Store /\ SettlesInside(Below(s)) /\ s \notin Below(s)
<1>1. ASSUME NEW t \in Store, NEW u \in Store, Cancels(t, u)
      PROVE  u = t \/ Left(u) < Left(t)
  BY <1>1, CancellingLowers
<1>2. ASSUME NEW t \in Store, NEW j \in Ids, Waits(t, j)
      PROVE  /\ \A status \in {"skipped", "error"} :
                    Unstarted(t, j, status) \in Store /\ Left(Unstarted(t, j, status)) < Left(t)
             /\ Released(t, j) \in Store /\ Left(Released(t, j)) < Left(t)
  <2>1. t.jobs[j] \in JobRecords /\ t.jobs[j].status = "waiting"
    BY <1>2 DEF Store, Waits
  <2>2. ASSUME NEW status \in {"skipped", "error"}
        PROVE  Unstarted(t, j, status) \in Store /\ Left(Unstarted(t, j, status)) < Left(t)
    <3>1. status \in Statuses
      BY DEF Statuses, Results
    <3>2. EndedUnstarted(t.jobs[j], status) \in JobRecords /\ EndedUnstarted(t.jobs[j], status).status # "waiting"
      BY <2>1, <3>1, UnstartedJob
    <3>3. QED
      BY <2>1, <3>2, RowsWithOneJob, EndingAWaitLowers DEF Unstarted
  <2>3. Released(t, j) \in Store /\ Left(Released(t, j)) < Left(t)
    BY <2>1, ReleasedJob, RowsWithOneJob, EndingAWaitLowers DEF Released
  <2>4. QED
    BY <2>2, <2>3
<1>3. \A t \in Store : Left(t) \in Nat
  BY LeftIsNatural
<1>4. SettlesInside(AtMost(s))
  BY <1>1, <1>2, <1>3 DEF SettlesInside, AtMost
<1>5. SettlesInside(Below(s))
  BY <1>1, <1>2, <1>3 DEF SettlesInside, Below
<1>6. QED
  BY <1>3, <1>4, <1>5 DEF AtMost, Below

-----------------------------------------------------------------------------
(* What settling yields *)

\* A turn leaves rows, and less to settle if it changes them.
LEMMA StepInStore ==
    ASSUME NEW s \in Store, NEW r \in Runs
    PROVE  /\ SettlingStep(s, r) \in Store
           /\ SettlingStep(s, r) # s => Left(SettlingStep(s, r)) < Left(s)
<1>1. SettlingStep(s, r) \in AtMost(s)
  BY SettlingLowers, StepInside
<1>2. QED
  BY <1>1 DEF AtMost

\* Settling a run ends where a turn of its loop changes nothing, and inside
\* every set that no step of settling leads out of.
LEMMA SettledRunFacts ==
    ASSUME NEW s \in Store, NEW r \in Runs
    PROVE  /\ SettledRun(s, r) \in Store
           /\ \A P \in SUBSET Store : SettlesInside(P) /\ s \in P => SettledRun(s, r) \in P
           /\ SettlingStep(s, r) = s => SettledRun(s, r) = s
           /\ SettlingStep(s, r) # s => Left(SettledRun(s, r)) < Left(s)
<1> DEFINE F == [t \in Store |-> SettlingStep(t, r)]
           g == CHOOSE g : g = [t \in Store |-> LET u == SettlingStep(t, r) IN IF u = t THEN t ELSE g[u]]
           m == [t \in Store |-> Left(t)]
<1>1. \A t \in Store : F[t] = SettlingStep(t, r) /\ m[t] = Left(t)
  OBVIOUS
<1>2. F \in [Store -> Store]
  BY StepInStore
<1>3. SettledRun(s, r) = g[s]
  BY DEF SettledRun, UntilUnchanged
<1>4. g = [t \in Store |-> IF SettlingStep(t, r) = t THEN t ELSE g[SettlingStep(t, r)]]
  <2>1. PICK h : h = [t \in Store |-> IF F[t] = t THEN t ELSE h[F[t]]]
    <3> HIDE DEF F
    <3>1. QED
      BY <1>2, RestExists
  <2>2. h = [t \in Store |-> LET u == SettlingStep(t, r) IN IF u = t THEN t ELSE h[u]]
    BY <2>1
  <2>3. QED
    BY <2>2
<1> HIDE DEF g
<1>5. g = [t \in Store |-> IF F[t] = t THEN t ELSE g[F[t]]]
  BY <1>4
<1>6. \A t \in Store : m[t] \in Nat /\ (F[t] # t => m[F[t]] < m[t])
  BY <1>1, <1>2, StepInStore, LeftIsNatural
<1> HIDE DEF F, m
<1>7. ASSUME NEW t \in Store
      PROVE  /\ g[t] \in Store
             /\ \A I \in SUBSET Store : t \in I /\ (\A u \in I : F[u] \in I) => g[t] \in I
  BY <1>2, <1>5, <1>6, RestIsReached
<1>8. ASSUME NEW P \in SUBSET Store, SettlesInside(P), NEW t \in P
      PROVE  g[t] \in P
  <2>1. \A u \in P : F[u] \in P
    BY <1>1, <1>8, StepInside
  <2>2. QED
    BY <1>7, <2>1
<1>9. SettlingStep(s, r) = s => g[s] = s
  BY <1>4
<1>10. ASSUME SettlingStep(s, r) # s
       PROVE  Left(g[s]) < Left(s)
  <2>1. g[s] = g[SettlingStep(s, r)]
    BY <1>4, <1>10
  <2>2. SettlingStep(s, r) \in Below(s)
    BY <1>10, StepInStore DEF Below
  <2>3. g[s] \in Below(s)
    BY <1>8, <2>1, <2>2, SettlingLowers
  <2>4. QED
    BY <2>3 DEF Below
<1>11. QED
  BY <1>3, <1>7, <1>8, <1>9, <1>10

\* A property of 0 that passes from each number to the next holds up to N.
LEMMA Upwards ==
    ASSUME NEW N \in Nat, NEW T, 0 \in T, \A r \in 1..N : r - 1 \in T => r \in T
    PROVE  0..N \subseteq T
<1>1. SUFFICES ASSUME (0..N) \ T # {} PROVE FALSE
  OBVIOUS
<1>2. PICK n \in (0..N) \ T : \A k \in (0..N) \ T : n <= k
  <2>1. (0..N) \ T \in SUBSET Nat
    OBVIOUS
  <2>2. QED
    BY <1>1, <2>1, LeastNatural
<1>3. n \in 1..N /\ n - 1 \in 0..N /\ ~(n <= n - 1)
  BY <1>2
<1>4. n - 1 \in T
  BY <1>2, <1>3
<1>5. QED
  BY <1>2, <1>3, <1>4

\* One pass over the runs: each is settled in what the one before it left.
LEMMA SettledUpToFacts ==
    ASSUME NEW s \in Store
    PROVE  /\ SettledUpTo(s)[0] = s
           /\ \A r \in Runs : SettledUpTo(s)[r] = SettledRun(SettledUpTo(s)[r - 1], r)
<1> DEFINE Pass(n, u) == u = [r \in 0..n |-> IF r = 0 THEN s ELSE SettledRun(u[r - 1], r)]
           T == {n \in 0..MaxRuns : \E u : Pass(n, u)}
           up == CHOOSE u : Pass(MaxRuns, u)
<1>1. MaxRuns \in Nat
  BY ConstantsAssumption
<1>2. 0 \in T
  <2> DEFINE u == [r \in 0..0 |-> s]
  <2>1. u = [r \in 0..0 |-> IF r = 0 THEN s ELSE SettledRun(u[r - 1], r)]
    OBVIOUS
  <2> HIDE DEF u
  <2>2. QED
    BY <1>1, <2>1
<1>3. ASSUME NEW n \in 1..MaxRuns, n - 1 \in T
      PROVE  n \in T
  <2>1. PICK u : u = [r \in 0..(n - 1) |-> IF r = 0 THEN s ELSE SettledRun(u[r - 1], r)]
    BY <1>3
  <2> DEFINE v == [r \in 0..n |-> IF r = n THEN SettledRun(u[n - 1], n) ELSE u[r]]
  <2>2. \A r \in 0..(n - 1) : u[r] = IF r = 0 THEN s ELSE SettledRun(u[r - 1], r)
    BY <2>1
  <2>3. \A r \in 0..n : v[r] = IF r = 0 THEN s ELSE SettledRun(v[r - 1], r)
    <3> SUFFICES ASSUME NEW r \in 0..n PROVE v[r] = IF r = 0 THEN s ELSE SettledRun(v[r - 1], r)
      OBVIOUS
    <3>1. CASE r = 0
      BY <1>1, <2>2, <3>1
    <3>2. CASE r # 0 /\ r # n
      <4>1. r - 1 \in 0..n /\ r - 1 # n /\ r \in 0..(n - 1)
        BY <1>1, <3>2
      <4>2. v[r - 1] = u[r - 1] /\ v[r] = u[r]
        BY <3>2, <4>1
      <4>3. QED
        BY <2>2, <3>2, <4>1, <4>2
    <3>3. CASE r = n
      <4>1. n # 0 /\ n - 1 \in 0..n /\ n - 1 # n
        BY <1>1
      <4>2. v[n - 1] = u[n - 1] /\ v[n] = SettledRun(u[n - 1], n)
        BY <4>1
      <4>3. QED
        BY <3>3, <4>1, <4>2
    <3>4. QED
      BY <3>1, <3>2, <3>3
  <2>4. v = [r \in 0..n |-> v[r]]
    OBVIOUS
  <2> HIDE DEF v
  <2>5. v = [r \in 0..n |-> IF r = 0 THEN s ELSE SettledRun(v[r - 1], r)]
    BY <2>3, <2>4
  <2>6. QED
    BY <2>5
<1>4. MaxRuns \in T
  <2> HIDE DEF T
  <2>1. QED
    BY <1>1, <1>2, <1>3, Upwards
<1>5. Pass(MaxRuns, up)
  <2>1. \E u : Pass(MaxRuns, u)
    BY <1>4
  <2> HIDE DEF Pass
  <2>2. QED
    BY <2>1
<1>6. SettledUpTo(s) = up
  BY DEF SettledUpTo
<1> HIDE DEF up
<1>7. \A r \in 0..MaxRuns : up[r] = IF r = 0 THEN s ELSE SettledRun(up[r - 1], r)
  BY <1>5
<1>8. QED
  BY <1>1, <1>6, <1>7 DEF Runs

\* A pass changes nothing exactly when no turn would, and lowers what is left
\* otherwise: what one run's turns changed, those of later runs do not undo.
LEMMA SettledOnceFacts ==
    ASSUME NEW s \in Store
    PROVE  /\ SettledOnce(s) \in Store
           /\ \A P \in SUBSET Store : SettlesInside(P) /\ s \in P => SettledOnce(s) \in P
           /\ SettledOnce(s) # s => Left(SettledOnce(s)) < Left(s)
           /\ SettledOnce(s) = s <=> \A r \in Runs : SettlingStep(s, r) = s
<1> DEFINE up == SettledUpTo(s)
<1>1. MaxRuns \in Nat /\ MaxRuns \in 0..MaxRuns
  BY ConstantsAssumption
<1>2. up[0] = s /\ \A r \in 1..MaxRuns : up[r] = SettledRun(up[r - 1], r)
  BY SettledUpToFacts DEF Runs
<1>3. SettledOnce(s) = up[MaxRuns]
  BY DEF SettledOnce
<1> HIDE DEF up
<1>4. ASSUME NEW P \in SUBSET Store, SettlesInside(P), s \in P
      PROVE  \A r \in 0..MaxRuns : up[r] \in P
  <2> DEFINE T == {r \in 0..MaxRuns : up[r] \in P}
  <2>1. 0 \in T
    BY <1>1, <1>2, <1>4
  <2>2. ASSUME NEW r \in 1..MaxRuns, r - 1 \in T
        PROVE  r \in T
    BY <1>1, <1>2, <1>4, <2>2, SettledRunFacts DEF Runs
  <2> HIDE DEF T
  <2>3. 0..MaxRuns \subseteq T
    BY <1>1, <2>1, <2>2, Upwards
  <2>4. QED
    BY <2>3 DEF T
<1>5. \A r \in 0..MaxRuns : up[r] \in AtMost(s)
  BY <1>4, SettlingLowers
<1>6. SettledOnce(s) \in AtMost(s)
  BY <1>1, <1>3, <1>5
<1>7. ASSUME \A r \in Runs : SettlingStep(s, r) = s
      PROVE  SettledOnce(s) = s
  <2> DEFINE T == {r \in 0..MaxRuns : up[r] = s}
  <2>1. 0 \in T
    BY <1>1, <1>2
  <2>2. ASSUME NEW r \in 1..MaxRuns, r - 1 \in T
        PROVE  r \in T
    BY <1>1, <1>2, <1>7, <2>2, SettledRunFacts DEF Runs
  <2> HIDE DEF T
  <2>3. 0..MaxRuns \subseteq T
    BY <1>1, <2>1, <2>2, Upwards
  <2>4. QED
    BY <1>1, <1>3, <2>3 DEF T
\* Once something has changed, less is left, and it stays so to the end.
<1>8. ASSUME NEW r \in Runs, SettlingStep(s, r) # s, SettledOnce(s) = s
      PROVE  FALSE
  <2> DEFINE T == {q \in 0..MaxRuns : q >= r => up[q] \in Below(s)}
  <2>1. r \in 1..MaxRuns /\ r \in Nat /\ 0 \in T
    BY <1>1 DEF Runs
  <2>2. up[r] \in Below(s)
    <3>1. up[r - 1] \in AtMost(s) /\ up[r] = SettledRun(up[r - 1], r)
      BY <1>1, <1>2, <1>5, <2>1
    <3>2. CASE up[r - 1] = s
      BY <1>8, <3>1, <3>2, SettledRunFacts DEF Below
    <3>3. CASE up[r - 1] # s
      <4>1. up[r - 1] \in Below(s)
        BY <3>1, <3>3 DEF AtMost, Below
      <4>2. QED
        BY <3>1, <4>1, SettledRunFacts, SettlingLowers
    <3>4. QED
      BY <3>2, <3>3
  <2>3. ASSUME NEW q \in 1..MaxRuns, q - 1 \in T
        PROVE  q \in T
    <3>1. CASE q <= r
      BY <2>1, <2>2, <3>1
    <3>2. CASE q > r
      <4>1. up[q - 1] \in Below(s)
        BY <2>1, <2>3, <3>2
      <4>2. up[q] \in Below(s)
        BY <1>2, <4>1, SettledRunFacts, SettlingLowers DEF Runs
      <4>3. QED
        BY <4>2
    <3>3. QED
      BY <2>1, <3>1, <3>2
  <2> HIDE DEF T
  <2>4. MaxRuns \in T
    BY <1>1, <2>1, <2>3, Upwards
  <2>5. up[MaxRuns] \in Below(s)
    BY <1>1, <2>1, <2>4 DEF T
  <2>6. QED
    BY <1>3, <1>8, <2>5, SettlingLowers
<1>9. QED
  BY <1>1, <1>3, <1>4, <1>6, <1>7, <1>8 DEF AtMost

\* Settling ends, inside every set that no step of settling leads out of, with
\* nothing left to do for any run.
LEMMA SettledFacts ==
    ASSUME NEW s \in Store
    PROVE  /\ Settled(s) \in Store
           /\ \A P \in SUBSET Store : SettlesInside(P) /\ s \in P => Settled(s) \in P
           /\ \A r \in Runs : SettlingStep(Settled(s), r) = Settled(s)
           /\ Settled(s) = s <=> \A r \in Runs : SettlingStep(s, r) = s
<1> DEFINE F == [t \in Store |-> SettledOnce(t)]
           g == CHOOSE g : g = [t \in Store |-> LET u == SettledOnce(t) IN IF u = t THEN t ELSE g[u]]
           m == [t \in Store |-> Left(t)]
<1>1. \A t \in Store : F[t] = SettledOnce(t) /\ m[t] = Left(t)
  OBVIOUS
<1>2. F \in [Store -> Store]
  BY SettledOnceFacts
<1>3. Settled(s) = g[s]
  BY DEF Settled, UntilUnchanged
<1>4. g = [t \in Store |-> IF SettledOnce(t) = t THEN t ELSE g[SettledOnce(t)]]
  <2>1. PICK h : h = [t \in Store |-> IF F[t] = t THEN t ELSE h[F[t]]]
    <3> HIDE DEF F
    <3>1. QED
      BY <1>2, RestExists
  <2>2. h = [t \in Store |-> LET u == SettledOnce(t) IN IF u = t THEN t ELSE h[u]]
    BY <2>1
  <2>3. QED
    BY <2>2
<1> HIDE DEF g
<1>5. g = [t \in Store |-> IF F[t] = t THEN t ELSE g[F[t]]]
  BY <1>4
<1>6. \A t \in Store : m[t] \in Nat /\ (F[t] # t => m[F[t]] < m[t])
  BY <1>1, <1>2, SettledOnceFacts, LeftIsNatural
<1> HIDE DEF F, m
<1>7. /\ g[s] \in Store /\ F[g[s]] = g[s]
      /\ \A I \in SUBSET Store : s \in I /\ (\A u \in I : F[u] \in I) => g[s] \in I
  BY <1>2, <1>5, <1>6, RestIsReached
<1>8. ASSUME NEW P \in SUBSET Store, SettlesInside(P), s \in P
      PROVE  g[s] \in P
  <2>1. \A u \in P : F[u] \in P
    BY <1>1, <1>8, SettledOnceFacts
  <2>2. QED
    BY <1>7, <1>8, <2>1
<1>9. \A r \in Runs : SettlingStep(g[s], r) = g[s]
  BY <1>1, <1>7, SettledOnceFacts
<1>10. g[s] = s <=> \A r \in Runs : SettlingStep(s, r) = s
  <2>1. SettledOnce(s) = s => g[s] = s
    BY <1>4
  <2>2. QED
    BY <1>9, <2>1, SettledOnceFacts
<1>11. QED
  BY <1>3, <1>7, <1>8, <1>9, <1>10

-----------------------------------------------------------------------------
(* The inductive invariant *)

RowsArePlanned(s) ==
    \A j \in Rows(s) :
        /\ s.runs[j[1]].outcome = "admitted" /\ s.runs[j[1]].plan \in DOMAIN Plans
        /\ j[2] \in DOMAIN Plans[s.runs[j[1]].plan].jobs
RunsArePlanned(s) == \A r \in Runs : s.runs[r] = NoRun \/ s.runs[r].plan \in DOMAIN Plans
ClaimsFit(s) ==
    \A j \in Ids :
        /\ s.jobs[j].status \in Active => HasClaim(s.jobs[j])
        /\ s.jobs[j].status \in {"absent", "waiting", "pending"} => ~HasClaim(s.jobs[j])
\* Nothing of a cancelled run is left to cancel.
CancelledRunsAreStopped(s) == \A j \in Ids : s.runs[j[1]].cancel => Cancelled(s.jobs[j]) = s.jobs[j]
\* What a claim has made sure of for its groups: it stays so until the job ends.
GroupGuard(s, j) ==
    LET r == j[1]
        g == GroupOf(s, r)
        h == Planned(s, j).group
    IN  /\ g # NoGroup =>
             /\ \A q \in RunsIn(s, g, r) : ~IsHeld(s, q)
             /\ \A k \in JobsIn(s, g) : k[1] # r => s.jobs[k].status = "pending"
        /\ h # NoGroup =>
             /\ \A k \in JobsIn(s, h) \ {j} : s.jobs[k].status = "pending"
             /\ \A q \in RunsIn(s, h, r) : ~IsHeld(s, q)
GroupsAreHeld(s) == \A j \in InStatus(s, Active) : GroupGuard(s, j) /\ ParallelClaimGuard(s, j)
HadNeeds(s) ==
    \A j \in Rows(s) : s.jobs[j].status = "pending" \/ HasClaim(s.jobs[j]) => NeedsAreHistory(s, j)
QueueIsBounded(s) ==
    UnfinishedJobs(s) <= QueueLimit /\ Cardinality(InStatus(s, Active)) <= MaxActiveJobs

\* What holds inside a transaction, and so whenever a run is settled.
Sound(s) ==
    /\ RowsArePlanned(s) /\ RunsArePlanned(s) /\ ClaimsFit(s) /\ CancelledRunsAreStopped(s)
    /\ GroupsAreHeld(s) /\ HadNeeds(s) /\ QueueIsBounded(s)
Quiet(s) == \A r \in Runs : SettlingStep(s, r) = s

IInv ==
    /\ Now \in Store /\ consented \in BOOLEAN /\ faults \in 0..MaxFaults
    /\ Sound(Now) /\ Quiet(Now)

\* A row is planned by a job of its run's file.
LEMMA PlannedJob ==
    ASSUME NEW s \in Store, RowsArePlanned(s), NEW j \in Rows(s)
    PROVE  Planned(s, j) \in JobPlans
<1>1. /\ s.runs[j[1]].plan \in DOMAIN Plans
      /\ j[2] \in DOMAIN Plans[s.runs[j[1]].plan].jobs
  BY DEF RowsArePlanned
<1>2. \A p \in DOMAIN Plans : Plans[p] \in Files
  BY ConstantsAssumption
<1>3. Plans[s.runs[j[1]].plan].jobs \in Seq(JobPlans)
  BY <1>1, <1>2 DEF Files
<1>4. QED
  BY <1>1, <1>3 DEF Planned

-----------------------------------------------------------------------------
(* Changes that start nothing *)

\* The same rows, planned alike.
SamePlans(s, t) ==
    /\ \A r \in Runs : t.runs[r].plan = s.runs[r].plan /\ t.runs[r].outcome = s.runs[r].outcome
    /\ \A k \in Ids : t.jobs[k].status = "absent" <=> s.jobs[k].status = "absent"

\* What is planned alike is needed, grouped and multiplied alike.
LEMMA SamePlansFacts ==
    ASSUME NEW s, NEW t, SamePlans(s, t)
    PROVE  /\ Rows(t) = Rows(s)
           /\ \A r : RowsOf(t, r) = RowsOf(s, r)
           /\ \A j \in Ids : Planned(t, j) = Planned(s, j)
           /\ \A r \in Runs : GroupOf(t, r) = GroupOf(s, r)
           /\ \A j \in Ids : NeededBy(t, j) = NeededBy(s, j) /\ Matrix(t, j) = Matrix(s, j)
<1>1. Rows(t) = Rows(s)
  BY DEF SamePlans, Rows
<1>2. \A r : RowsOf(t, r) = RowsOf(s, r)
  BY <1>1 DEF RowsOf
<1>3. \A j \in Ids : Planned(t, j) = Planned(s, j)
  BY DEF SamePlans, Planned, Ids
<1>4. \A r \in Runs : GroupOf(t, r) = GroupOf(s, r)
  BY DEF SamePlans, GroupOf
<1>5. ASSUME NEW j \in Ids
      PROVE  NeededBy(t, j) = NeededBy(s, j) /\ Matrix(t, j) = Matrix(s, j)
  <2>1. \A k \in RowsOf(s, j[1]) : Planned(t, k) = Planned(s, k)
    BY <1>3 DEF RowsOf, Rows
  <2>2. QED
    BY <1>2, <1>3, <2>1 DEF NeededBy, Matrix
<1>6. QED
  BY <1>1, <1>2, <1>3, <1>4, <1>5

\* Jobs keep their claims, what waits may be released, and what did not end may.
Follows(s, t) ==
    /\ t \in Store
    /\ \A r \in Runs : t.runs[r].plan = s.runs[r].plan /\ t.runs[r].outcome = s.runs[r].outcome
    /\ \A k \in Ids :
         /\ t.jobs[k].credential = s.jobs[k].credential
         /\ \/ t.jobs[k].status = s.jobs[k].status
            \/ s.jobs[k].status = "waiting" /\ t.jobs[k].status = "pending"
            \/ s.jobs[k].status \in Unfinished \cup {"ambiguous"} /\ IsTerminal(t.jobs[k])

\* No group gains an unfinished run by such a change, and no job that is active
\* is new.
LEMMA FollowsFacts ==
    ASSUME NEW s \in Store, NEW t, Follows(s, t)
    PROVE  /\ SamePlans(s, t)
           /\ \A k \in Ids : HasClaim(t.jobs[k]) <=> HasClaim(s.jobs[k])
           /\ \A r : IsHeld(t, r) <=> IsHeld(s, r)
           /\ \A g : \A r \in Runs : RunsIn(t, g, r) \subseteq RunsIn(s, g, r)
           /\ \A g : \A k \in JobsIn(t, g) :
                 t.jobs[k].status = "pending" \/ (k \in JobsIn(s, g) /\ t.jobs[k].status = s.jobs[k].status)
           /\ InStatus(t, Active) \subseteq InStatus(s, Active)
           /\ InStatus(t, Unfinished) \subseteq InStatus(s, Unfinished)
           /\ \A k \in Ids : IsHistory(s.jobs[k]) => IsHistory(t.jobs[k])
<1>1. SamePlans(s, t)
  BY DEF Follows, SamePlans, IsTerminal, Unfinished, Queued, Active
<1>2. \A k \in Ids : HasClaim(t.jobs[k]) <=> HasClaim(s.jobs[k])
  BY DEF Follows, HasClaim
<1>3. \A r : IsHeld(t, r) <=> IsHeld(s, r)
  BY <1>1, <1>2, SamePlansFacts DEF IsHeld, RowsOf, Rows
<1>4. ASSUME NEW k \in Ids
      PROVE  /\ t.jobs[k].status \in Active => s.jobs[k].status \in Active
             /\ t.jobs[k].status \in Unfinished => s.jobs[k].status \in Unfinished
             /\ t.jobs[k].status \in Active => t.jobs[k].status = s.jobs[k].status
             /\ IsHistory(s.jobs[k]) => IsHistory(t.jobs[k])
  BY DEF Follows, IsHistory, IsTerminal, Unfinished, Queued, Active
<1>5. ASSUME NEW g, NEW r \in Runs
      PROVE  RunsIn(t, g, r) \subseteq RunsIn(s, g, r)
  <2>1. \A q \in Runs : IsUnfinished(t, q) => IsUnfinished(s, q)
    BY <1>1, <1>4, SamePlansFacts DEF IsUnfinished, RowsOf, Rows
  <2>2. QED
    BY <1>1, <2>1, SamePlansFacts DEF RunsIn
<1>6. ASSUME NEW g, NEW k \in JobsIn(t, g)
      PROVE  t.jobs[k].status = "pending" \/ (k \in JobsIn(s, g) /\ t.jobs[k].status = s.jobs[k].status)
  <2>1. SUFFICES ASSUME t.jobs[k].status # "pending"
                 PROVE  k \in JobsIn(s, g) /\ t.jobs[k].status = s.jobs[k].status
    OBVIOUS
  <2>2. k \in Ids /\ k \in Rows(s) /\ t.jobs[k].status \in Active /\ Planned(s, k).group = g
    BY <1>1, <2>1, SamePlansFacts DEF JobsIn, InStatus, Rows
  <2>3. QED
    BY <1>4, <2>2 DEF JobsIn, InStatus
<1>7. InStatus(t, Active) \subseteq InStatus(s, Active) /\ InStatus(t, Unfinished) \subseteq InStatus(s, Unfinished)
  BY <1>1, <1>4, SamePlansFacts DEF InStatus, Rows
<1>8. QED
  BY <1>1, <1>2, <1>3, <1>4, <1>5, <1>6, <1>7

\* The rows and all selections of them are finite sets.
LEMMA RowsAreFinite ==
    ASSUME NEW s
    PROVE  /\ Rows(s) \subseteq Ids /\ IsFiniteSet(Rows(s))
           /\ \A statuses : IsFiniteSet(InStatus(s, statuses))
           /\ \A j : Matrix(s, j) \subseteq Rows(s)
<1>1. Rows(s) \subseteq Ids /\ \A j : Matrix(s, j) \subseteq Rows(s)
  BY DEF Rows, Matrix, RowsOf
<1>2. IsFiniteSet(Rows(s))
  BY <1>1, IdsAreFinite, FS_Subset
<1>3. \A statuses : InStatus(s, statuses) \subseteq Rows(s)
  BY DEF InStatus
<1>4. \A statuses : IsFiniteSet(InStatus(s, statuses))
  BY <1>2, <1>3, FS_Subset
<1>5. QED
  BY <1>1, <1>2, <1>4

\* A change that starts nothing, releases only what has its needs and leaves
\* cancelled runs stopped keeps the invariant.
LEMMA FollowsIsSound ==
    ASSUME NEW s \in Store, Sound(s), NEW t, Follows(s, t), RunsArePlanned(t), CancelledRunsAreStopped(t),
           \A k \in Ids : s.jobs[k].status = "waiting" /\ t.jobs[k].status = "pending" => NeedsAreHistory(s, k)
    PROVE  Sound(t)
<1>1. SamePlans(s, t)
  BY FollowsFacts
<1>2. RowsArePlanned(t)
  <2>1. \A j \in Rows(s) : j[1] \in Runs
    BY DEF Rows, Ids
  <2>2. QED
    BY <1>1, <2>1, SamePlansFacts DEF Sound, RowsArePlanned, Follows
<1>3. ClaimsFit(t)
  <2>1. ASSUME NEW j \in Ids
        PROVE  /\ t.jobs[j].status \in Active => HasClaim(t.jobs[j])
               /\ t.jobs[j].status \in {"absent", "waiting", "pending"} => ~HasClaim(t.jobs[j])
    <3>1. /\ s.jobs[j].status \in Active => HasClaim(s.jobs[j])
          /\ s.jobs[j].status \in {"absent", "waiting", "pending"} => ~HasClaim(s.jobs[j])
          /\ HasClaim(t.jobs[j]) <=> HasClaim(s.jobs[j])
      BY FollowsFacts DEF Sound, ClaimsFit
    <3>2. \/ t.jobs[j].status = s.jobs[j].status
          \/ s.jobs[j].status = "waiting" /\ t.jobs[j].status = "pending"
          \/ t.jobs[j].status \notin {"absent"} \cup Unfinished
      BY DEF Follows, IsTerminal
    <3>3. QED
      BY <3>1, <3>2 DEF Unfinished, Queued, Active
  <2>2. QED
    BY <2>1 DEF ClaimsFit
<1>4. ASSUME NEW j \in InStatus(t, Active)
      PROVE  GroupGuard(t, j) /\ ParallelClaimGuard(t, j)
  <2>1. /\ j \in InStatus(s, Active) /\ j \in Ids /\ j[1] \in Runs
        /\ GroupGuard(s, j) /\ ParallelClaimGuard(s, j)
    BY FollowsFacts DEF Sound, GroupsAreHeld, InStatus, Rows, Ids
  <2>2. Planned(t, j) = Planned(s, j) /\ GroupOf(t, j[1]) = GroupOf(s, j[1]) /\ Matrix(t, j) = Matrix(s, j)
    BY <1>1, <2>1, SamePlansFacts
  <2>3. GroupGuard(t, j)
    BY <2>1, <2>2, FollowsFacts DEF GroupGuard
  <2>4. ParallelClaimGuard(t, j)
    <3> DEFINE busy(x) == {k \in Matrix(x, j) \ {j} : x.jobs[k].status \in Active}
    <3>1. busy(t) \subseteq busy(s)
      <4>1. \A k \in Matrix(s, j) : k \in InStatus(t, Active) <=> t.jobs[k].status \in Active
        BY <1>1, RowsAreFinite, SamePlansFacts DEF InStatus
      <4>2. \A k \in Matrix(s, j) : k \in InStatus(s, Active) <=> s.jobs[k].status \in Active
        BY RowsAreFinite DEF InStatus
      <4>3. QED
        BY <2>2, <4>1, <4>2, FollowsFacts
    <3>2. IsFiniteSet(busy(s))
      <4>1. busy(s) \subseteq Rows(s)
        BY RowsAreFinite
      <4>2. QED
        BY <4>1, RowsAreFinite, FS_Subset
    <3>3. /\ Cardinality(busy(t)) <= Cardinality(busy(s))
          /\ Cardinality(busy(t)) \in Nat /\ Cardinality(busy(s)) \in Nat
      BY <3>1, <3>2, FS_Subset, FS_CardinalityType
    <3>4. Planned(s, j).maxParallel = 0 \/ Planned(s, j).maxParallel > Cardinality(busy(s))
      BY <2>1 DEF ParallelClaimGuard
    <3>5. Planned(s, j).maxParallel \in Nat
      BY <2>1, PlannedJob DEF InStatus, Sound, JobPlans
    <3> HIDE DEF busy
    <3>6. Planned(t, j).maxParallel = 0 \/ Planned(t, j).maxParallel > Cardinality(busy(t))
      BY <2>2, <3>3, <3>4, <3>5
    <3>7. QED
      BY <3>6 DEF ParallelClaimGuard, busy
  <2>5. QED
    BY <2>3, <2>4
<1>5. HadNeeds(t)
  <2>1. ASSUME NEW j \in Rows(t), t.jobs[j].status = "pending" \/ HasClaim(t.jobs[j])
        PROVE  NeedsAreHistory(t, j)
    <3>1. j \in Rows(s) /\ j \in Ids
      BY <1>1, <2>1, SamePlansFacts DEF Rows
    <3>2. NeedsAreHistory(s, j)
      <4>1. CASE HasClaim(t.jobs[j])
        BY <3>1, <4>1, FollowsFacts DEF Sound, HadNeeds
      <4>2. CASE t.jobs[j].status = "pending"
        <5>1. s.jobs[j].status = "pending" \/ s.jobs[j].status = "waiting"
          BY <3>1, <4>2 DEF Follows, IsTerminal, Unfinished, Queued
        <5>2. QED
          BY <3>1, <4>2, <5>1 DEF Sound, HadNeeds
      <4>3. QED
        BY <2>1, <4>1, <4>2
    <3>3. NeededBy(t, j) = NeededBy(s, j) /\ NeededBy(s, j) \subseteq Ids
      BY <1>1, <3>1, SamePlansFacts DEF NeededBy, RowsOf, Rows
    <3>4. QED
      BY <3>2, <3>3, FollowsFacts DEF NeedsAreHistory
  <2>2. QED
    BY <2>1 DEF HadNeeds
<1>6. QueueIsBounded(t)
  <2>1. /\ InStatus(t, Active) \subseteq InStatus(s, Active)
        /\ InStatus(t, Unfinished) \subseteq InStatus(s, Unfinished)
    BY FollowsFacts
  <2>2. /\ Cardinality(InStatus(t, Active)) <= Cardinality(InStatus(s, Active))
        /\ Cardinality(InStatus(t, Active)) \in Nat /\ Cardinality(InStatus(s, Active)) \in Nat
    BY <2>1, RowsAreFinite, FS_Subset, FS_CardinalityType
  <2>3. /\ Cardinality(InStatus(t, Unfinished)) <= Cardinality(InStatus(s, Unfinished))
        /\ Cardinality(InStatus(t, Unfinished)) \in Nat /\ Cardinality(InStatus(s, Unfinished)) \in Nat
    BY <2>1, RowsAreFinite, FS_Subset, FS_CardinalityType
  <2>4. QED
    BY <2>2, <2>3, ConstantsAssumption DEF Sound, QueueIsBounded, UnfinishedJobs
<1>7. QED
  BY <1>2, <1>3, <1>4, <1>5, <1>6 DEF Sound, GroupsAreHeld

\* A cancellation of jobs, and of runs with their jobs, keeps the invariant.
LEMMA CancelsIsSound ==
    ASSUME NEW s \in Store, Sound(s), NEW t, Cancels(s, t)
    PROVE  Sound(t)
<1>1. ASSUME NEW k \in Ids
      PROVE  /\ s.jobs[k] \in JobRecords /\ t.jobs[k] \in {s.jobs[k], Cancelled(s.jobs[k])}
             /\ Cancelled(Cancelled(s.jobs[k])) = Cancelled(s.jobs[k])
             /\ t.jobs[k].credential = s.jobs[k].credential
             /\ \/ t.jobs[k].status = s.jobs[k].status
                \/ s.jobs[k].status \in Unfinished \cup {"ambiguous"} /\ t.jobs[k].status = "cancelled"
  <2>1. s.jobs[k] \in JobRecords /\ t.jobs[k] \in {s.jobs[k], Cancelled(s.jobs[k])}
    BY DEF Store, Cancels
  <2>2. QED
    BY <2>1, CancelledJob DEF Unfinished, Queued, Active
<1>2. ASSUME NEW r \in Runs
      PROVE  t.runs[r].plan = s.runs[r].plan /\ t.runs[r].outcome = s.runs[r].outcome
  <2>1. s.runs[r] \in RunRecords /\ t.runs[r] \in {s.runs[r], [s.runs[r] EXCEPT !.cancel = TRUE]}
    BY DEF Store, Cancels
  <2>2. QED
    BY <2>1 DEF RunRecords
<1>3. Follows(s, t)
  <2>1. t \in Store
    BY DEF Cancels
  <2>2. QED
    BY <1>1, <1>2, <2>1 DEF Follows, IsTerminal, Unfinished, Queued, Active
<1>4. CancelledRunsAreStopped(t)
  <2>1. ASSUME NEW k \in Ids, t.runs[k[1]].cancel
        PROVE  Cancelled(t.jobs[k]) = t.jobs[k]
    <3>1. CASE t.runs[k[1]] = s.runs[k[1]]
      <4>1. Cancelled(s.jobs[k]) = s.jobs[k]
        BY <2>1, <3>1 DEF Sound, CancelledRunsAreStopped
      <4>2. QED
        BY <1>1, <4>1
    <3>2. CASE t.runs[k[1]] # s.runs[k[1]]
      <4>1. t.jobs[k] = Cancelled(s.jobs[k])
        BY <3>2 DEF Cancels, Ids
      <4>2. QED
        BY <1>1, <4>1
    <3>3. QED
      BY <3>1, <3>2
  <2>2. QED
    BY <2>1 DEF CancelledRunsAreStopped
<1>5. RunsArePlanned(t)
  <2>1. ASSUME NEW r \in Runs, t.runs[r] # s.runs[r]
        PROVE  t.runs[r].plan \in DOMAIN Plans
    <3>1. PICK j \in Rows(s) : j[1] = r
      BY <2>1 DEF Cancels, RowsOf
    <3>2. QED
      BY <1>2, <3>1 DEF Sound, RowsArePlanned
  <2>2. QED
    BY <2>1 DEF Sound, RunsArePlanned
<1>6. QED
  BY <1>1, <1>3, <1>4, <1>5, FollowsIsSound

\* One job of a run that goes on may end or, with its needs, be released.
LEMMA OneJobIsSound ==
    ASSUME NEW s \in Store, Sound(s), NEW j \in Ids, ~s.runs[j[1]].cancel,
           NEW job \in JobRecords, job.credential = s.jobs[j].credential,
           s.jobs[j].status = "waiting",
           IsTerminal(job) \/ (job.status = "pending" /\ NeedsAreHistory(s, j))
    PROVE  Sound([s EXCEPT !.jobs[j] = job])
<1> DEFINE t == [s EXCEPT !.jobs[j] = job]
<1>1. t \in Store /\ t.runs = s.runs /\ t.jobs[j] = job /\ \A k \in Ids : k # j => t.jobs[k] = s.jobs[k]
  BY RowsWithOneJob
<1> HIDE DEF t
<1>2. Follows(s, t)
  BY <1>1 DEF Follows, Unfinished, Queued
<1>3. CancelledRunsAreStopped(t) /\ RunsArePlanned(t)
  BY <1>1 DEF Sound, CancelledRunsAreStopped, RunsArePlanned
<1>4. ASSUME NEW k \in Ids, s.jobs[k].status = "waiting", t.jobs[k].status = "pending"
      PROVE  NeedsAreHistory(s, k)
  BY <1>1, <1>4 DEF IsTerminal, Unfinished, Queued
<1>5. Sound(t)
  BY <1>2, <1>3, <1>4, FollowsIsSound
<1>6. QED
  BY <1>5 DEF t

\* No step of settling leads out of the invariant.
LEMMA SettlingIsSound == SettlesInside({s \in Store : Sound(s)})
<1> DEFINE P == {s \in Store : Sound(s)}
<1>1. \A t \in P : \A u \in Store : Cancels(t, u) => u \in P
  BY CancelsIsSound
<1>2. ASSUME NEW t \in P, NEW j \in Ids, Waits(t, j)
      PROVE  /\ \A status \in {"skipped", "error"} : Unstarted(t, j, status) \in P
             /\ NeedsAreHistory(t, j) => Released(t, j) \in P
  <2>1. t \in Store /\ Sound(t) /\ t.jobs[j] \in JobRecords /\ t.jobs[j].status = "waiting" /\ ~t.runs[j[1]].cancel
    BY <1>2 DEF Store, Waits
  <2>2. ASSUME NEW status \in {"skipped", "error"}
        PROVE  Unstarted(t, j, status) \in P
    <3>1. status \in Statuses /\ status \notin {"absent"} \cup Unfinished
      BY DEF Statuses, Results, Unfinished, Queued, Active
    <3>2. LET job == EndedUnstarted(t.jobs[j], status)
          IN  job \in JobRecords /\ job.credential = t.jobs[j].credential /\ IsTerminal(job)
      BY <2>1, <3>1, UnstartedJob DEF IsTerminal
    <3>3. QED
      BY <2>1, <3>2, OneJobIsSound, RowsWithOneJob DEF Unstarted
  <2>3. ASSUME NeedsAreHistory(t, j)
        PROVE  Released(t, j) \in P
    <3>1. LET job == [t.jobs[j] EXCEPT !.status = "pending"]
          IN  job \in JobRecords /\ job.credential = t.jobs[j].credential /\ job.status = "pending"
      BY <2>1, ReleasedJob
    <3>2. QED
      BY <2>1, <2>3, <3>1, OneJobIsSound, RowsWithOneJob DEF Released
  <2>4. QED
    BY <2>2, <2>3
<1>3. QED
  BY <1>1, <1>2 DEF SettlesInside

\* Settling keeps the invariant, and leaves nothing to settle.
LEMMA SettledIsSound ==
    ASSUME NEW s \in Store, Sound(s)
    PROVE  Settled(s) \in Store /\ Sound(Settled(s)) /\ Quiet(Settled(s))
<1>1. {t \in Store : Sound(t)} \in SUBSET Store /\ s \in {t \in Store : Sound(t)}
  OBVIOUS
<1>2. Settled(s) \in {t \in Store : Sound(t)}
  BY <1>1, SettlingIsSound, SettledFacts
<1>3. QED
  BY <1>2, SettledFacts DEF Quiet

\* A transaction that changes jobs and then settles.
LEMMA BecomesSettled ==
    ASSUME NEW s \in Store, Sound(s), Becomes(Settled(s))
    PROVE  Now' \in Store /\ Sound(Now)' /\ Quiet(Now)'
<1>1. Settled(s) \in Store /\ Sound(Settled(s)) /\ Quiet(Settled(s))
  BY SettledIsSound
<1>2. Now' = [runs |-> Settled(s).runs, jobs |-> Settled(s).jobs]
  BY DEF Now, Becomes
<1>3. Now' = Settled(s)
  <2>1. \A t \in Store : t = [runs |-> t.runs, jobs |-> t.jobs]
    BY DEF Store
  <2>2. QED
    BY <1>1, <1>2, <2>1
<1>4. Sound(Now') /\ Quiet(Now')
  BY <1>1, <1>3
<1>5. QED
  BY <1>1, <1>3, <1>4

-----------------------------------------------------------------------------
(* The end of jobs *)

\* The job has ended, or is lost, with its claim, and with its cancellation.
Ends(job, ended) ==
    /\ ended \in JobRecords /\ ended.credential = job.credential /\ IsTerminal(ended)
    /\ Cancelled(job) = job => Cancelled(ended) = ended

\* The updates that end a job: by a lost lease, an interruption, a failed start
\* or a result.
LEMMA JobsEnd ==
    ASSUME NEW job \in JobRecords
    PROVE  /\ job.status \in Active => \A how \in LeaseLosses : Ends(job, LeaseLost(job, how))
           /\ job.status \in Queued \cup {"claimed"} => Ends(job, Interrupted(job))
           /\ \A status \in Failures : Ends(job, EndedUnstarted(job, status))
           /\ \A result \in Outcomes : Ends(job, Completed(job, result))
<1>1. ASSUME job.status \in Active, NEW how \in LeaseLosses
      PROVE  Ends(job, LeaseLost(job, how))
  <2>1. /\ LeaseLost(job, how) \in JobRecords /\ LeaseLost(job, how).credential = job.credential
        /\ LeaseLost(job, how).status = "ambiguous" /\ LeaseLost(job, how).cancel = job.cancel
    BY DEF LeaseLost, JobRecords, Statuses
  <2>2. ASSUME Cancelled(job) = job
        PROVE  job.cancel = TRUE
    <3>1. job.status = "started"
      BY <1>1, <2>2, CancelledJob DEF Active
    <3>2. Cancelled(job) = [job EXCEPT !.cancel = TRUE]
      BY <3>1 DEF Cancelled, Queued
    <3>3. QED
      BY <2>2, <3>2 DEF JobRecords
  <2>3. ASSUME NEW lost \in JobRecords, lost.status = "ambiguous", lost.cancel = TRUE
        PROVE  Cancelled(lost) = lost
    BY <2>3 DEF Cancelled, JobRecords, Queued
  <2>4. IsTerminal(LeaseLost(job, how))
    BY <2>1 DEF IsTerminal, Unfinished, Queued, Active
  <2>5. QED
    BY <2>1, <2>2, <2>3, <2>4 DEF Ends
<1>2. ASSUME NEW ended \in JobRecords, ended.credential = job.credential,
             ended.status \in Results \cup {"interrupted"}
      PROVE  Ends(job, ended)
  <2>1. ended.status \notin {"absent", "ambiguous"} \cup Unfinished
    BY <1>2 DEF Results, Unfinished, Queued, Active
  <2>2. QED
    BY <1>2, <2>1, CancelledJob DEF Ends, IsTerminal
<1>3. /\ Interrupted(job) \in JobRecords /\ Interrupted(job).credential = job.credential
      /\ Interrupted(job).status = "interrupted"
  <2>1. NoLease \in 0..1 /\ "interrupted" \in Statuses
    BY DEF Statuses, NoLease
  <2>2. QED
    BY <2>1 DEF Interrupted, JobRecords
<1>4. ASSUME NEW status \in Failures
      PROVE  Ends(job, EndedUnstarted(job, status))
  <2>1. status \in Results \cup {"interrupted"} /\ status \in Statuses
    BY ConstantsAssumption DEF Results, Statuses
  <2>2. QED
    BY <1>2, <2>1, UnstartedJob
<1>5. ASSUME NEW result \in Outcomes
      PROVE  Ends(job, Completed(job, result))
  <2>1. result \in Results
    BY ConstantsAssumption
  <2>2. /\ Completed(job, result) \in JobRecords /\ Completed(job, result).credential = job.credential
        /\ Completed(job, result).status = result
    BY <2>1 DEF Completed, JobRecords, Statuses, Attempts
  <2>3. QED
    BY <1>2, <2>1, <2>2
<1>6. QED
  BY <1>1, <1>2, <1>3, <1>4, <1>5

\* A transaction that ends some jobs keeps the invariant.
LEMMA EndedIsSound ==
    ASSUME NEW s \in Store, Sound(s), NEW f \in [Ids -> JobRecords],
           \A k \in Ids : \/ f[k] = s.jobs[k]
                          \/ s.jobs[k].status \in Unfinished \cup {"ambiguous"} /\ Ends(s.jobs[k], f[k])
    PROVE  [s EXCEPT !.jobs = f] \in Store /\ Sound([s EXCEPT !.jobs = f])
<1> DEFINE t == [s EXCEPT !.jobs = f]
<1>1. t \in Store /\ t.runs = s.runs /\ t.jobs = f
  BY RowsWithJobs
<1> HIDE DEF t
<1>2. Follows(s, t)
  BY <1>1 DEF Follows, Ends
<1>3. CancelledRunsAreStopped(t) /\ RunsArePlanned(t)
  BY <1>1 DEF Sound, CancelledRunsAreStopped, RunsArePlanned, Ends
<1>4. ASSUME NEW k \in Ids, s.jobs[k].status = "waiting", t.jobs[k].status = "pending"
      PROVE  FALSE
  BY <1>1, <1>4 DEF Ends, IsTerminal, Unfinished, Queued
<1>5. Sound(t)
  BY <1>2, <1>3, <1>4, FollowsIsSound
<1>6. QED
  BY <1>1, <1>5 DEF t

-----------------------------------------------------------------------------
(* Admission *)

\* A run that is admitted brings waiting jobs, which no group counts yet, and
\* no more of them than the queue has room for.
LEMMA InsertedIsSound ==
    ASSUME NEW s \in Store, Sound(s), NEW r \in Runs, s.runs[r].outcome = "absent",
           NEW p \in DOMAIN Plans, NEW root \in 0..MaxRuns, NEW generation \in 0..MaxRuns
    PROVE  Inserted(s, r, p, root, generation) \in Store /\ Sound(Inserted(s, r, p, root, generation))
<1> DEFINE t == Inserted(s, r, p, root, generation)
           outcome == Admission(s, p)
           admitted == {j \in Ids : outcome = "admitted" /\ j[1] = r /\ j[2] \in DOMAIN Plans[p].jobs}
           run == [plan |-> p, outcome |-> outcome, root |-> root, generation |-> generation, cancel |-> FALSE]
           new == Admitted("waiting", "workflow")
<1>1. run \in RunRecords /\ run.plan = p /\ run.outcome = outcome /\ run.cancel = FALSE
  BY DEF Admission, RunRecords
<1>2. new \in JobRecords /\ new.status = "waiting" /\ ~HasClaim(new)
  <2>1. NoLease \in 0..1 /\ "waiting" \in Statuses /\ "kept" \in LeaseLosses /\ "none" \in Attempts
    BY DEF Statuses, NoLease, LeaseLosses, Attempts, Unfinished, Queued
  <2>2. QED
    BY <2>1 DEF Admitted, JobRecords, HasClaim
<1>3. /\ t \in Store
      /\ t.runs[r] = run /\ \A q \in Runs : q # r => t.runs[q] = s.runs[q]
      /\ \A j \in Ids : t.jobs[j] = IF j \in admitted THEN new ELSE s.jobs[j]
  <2>1. t = [runs |-> [s.runs EXCEPT ![r] = run],
             jobs |-> [j \in Ids |-> IF j \in admitted THEN new ELSE s.jobs[j]]]
    BY DEF Inserted
  <2> HIDE DEF t, run, new, admitted
  <2>2. QED
    BY <1>1, <1>2, <2>1 DEF Store
<1>4. \A j \in Ids : j[1] = r => s.jobs[j].status = "absent" /\ j \notin Rows(s)
  BY DEF Sound, RowsArePlanned, Rows
<1>5. admitted \subseteq Ids /\ \A j \in admitted : j[1] = r /\ j[2] \in DOMAIN Plans[p].jobs /\ outcome = "admitted"
  OBVIOUS
<1>6. ASSUME outcome = "admitted"
      PROVE  UnfinishedJobs(s) + Cardinality(admitted) <= QueueLimit
  <2> DEFINE n == Len(Plans[p].jobs)
  <2>1. Plans[p] \in Files /\ n \in 1..MaxJobs /\ n \in Nat
    <3>1. Plans \in Seq(Files) /\ MaxJobs \in Nat /\ Len(Plans[p].jobs) \in 1..MaxJobs
      BY ConstantsAssumption DEF Slots
    <3>2. QED
      BY <3>1
  <2>2. DOMAIN Plans[p].jobs = 1..n
    BY <2>1 DEF Files
  <2> HIDE DEF n
  <2>3. admitted = {r} \X (1..n)
    BY <1>6, <2>1, <2>2, ConstantsAssumption DEF Ids, Slots
  <2>4. /\ IsFiniteSet({r}) /\ Cardinality({r}) = 1
        /\ IsFiniteSet(1..n) /\ Cardinality(1..n) = n
    <3>1. IsFiniteSet({r}) /\ Cardinality({r}) = 1
      BY FS_Singleton
    <3>2. 1 \in Int /\ n \in Int /\ (1 > n => n = 0)
      BY <2>1
    <3>3. IsFiniteSet(1..n) /\ Cardinality(1..n) = IF 1 > n THEN 0 ELSE n - 1 + 1
      BY <3>2, FS_Interval
    <3>4. Cardinality(1..n) = n
      BY <3>2, <3>3
    <3>5. QED
      BY <3>1, <3>3, <3>4
  <2>5. Cardinality(admitted) = n
    <3> HIDE DEF admitted
    <3>1. Cardinality({r} \X (1..n)) = Cardinality({r}) * Cardinality(1..n)
      BY <2>4, FS_Product
    <3>2. Cardinality({r} \X (1..n)) = 1 * n
      BY <2>4, <3>1
    <3>3. QED
      BY <2>1, <2>3, <3>2
  <2>6. UnfinishedJobs(s) \in Nat
    BY RowsAreFinite, FS_CardinalityType DEF UnfinishedJobs
  <2>7. UnfinishedJobs(s) + n <= QueueLimit
    <3>1. /\ ~(n > QueueLimit)
          /\ ~(n <= QueueLimit /\ UnfinishedJobs(s) + n > QueueLimit)
      BY <1>6 DEF Admission, n
    <3>2. QueueLimit \in Nat
      BY ConstantsAssumption
    <3>3. QED
      BY <2>1, <2>6, <3>1, <3>2
  <2>8. QED
    BY <2>5, <2>7
<1> HIDE DEF t, run, new, admitted, outcome
\* What other runs have is as before.
<1>7. ASSUME NEW j \in Ids, j[1] # r
      PROVE  /\ t.jobs[j] = s.jobs[j] /\ t.runs[j[1]] = s.runs[j[1]]
             /\ Planned(t, j) = Planned(s, j)
             /\ j \in Rows(t) <=> j \in Rows(s)
             /\ \A k \in Ids : k[1] = j[1] => t.jobs[k] = s.jobs[k] /\ Planned(t, k) = Planned(s, k)
             /\ NeededBy(t, j) = NeededBy(s, j) /\ Matrix(t, j) = Matrix(s, j)
  <2>1. /\ \A k \in Ids : k[1] = j[1] => t.jobs[k] = s.jobs[k] /\ t.runs[k[1]] = s.runs[k[1]]
    BY <1>3, <1>5, <1>7 DEF Ids
  <2>2. \A k \in Ids : k[1] = j[1] => Planned(t, k) = Planned(s, k)
    BY <2>1 DEF Planned
  <2>3. RowsOf(t, j[1]) = RowsOf(s, j[1])
    BY <2>1 DEF RowsOf, Rows
  <2>4. NeededBy(t, j) = NeededBy(s, j) /\ Matrix(t, j) = Matrix(s, j)
    BY <2>2, <2>3 DEF NeededBy, Matrix, RowsOf, Rows
  <2>5. QED
    BY <2>1, <2>2, <2>4 DEF Rows
<1>8. ASSUME NEW q \in Runs, q # r
      PROVE  /\ GroupOf(t, q) = GroupOf(s, q)
             /\ IsUnfinished(t, q) <=> IsUnfinished(s, q)
             /\ IsHeld(t, q) <=> IsHeld(s, q)
  <2>1. RowsOf(t, q) = RowsOf(s, q) /\ \A j \in RowsOf(s, q) : t.jobs[j] = s.jobs[j]
    BY <1>7, <1>8 DEF RowsOf, Rows
  <2>2. QED
    BY <1>3, <1>8, <2>1 DEF GroupOf, IsUnfinished, IsHeld
<1>9. ASSUME NEW j \in Ids, j[1] = r, j \in Rows(t)
      PROVE  j \in admitted /\ t.jobs[j] = new
  BY <1>3, <1>4, <1>9 DEF Rows
<1>10. ~IsHeld(t, r)
  BY <1>2, <1>9 DEF IsHeld, RowsOf, Rows
<1>11. RowsArePlanned(t)
  <2>1. ASSUME NEW j \in Rows(t)
        PROVE  /\ t.runs[j[1]].outcome = "admitted" /\ t.runs[j[1]].plan \in DOMAIN Plans
               /\ j[2] \in DOMAIN Plans[t.runs[j[1]].plan].jobs
    <3>1. j \in Ids
      BY DEF Rows
    <3>2. CASE j[1] = r
      BY <1>1, <1>3, <1>5, <1>9, <3>1, <3>2
    <3>3. CASE j[1] # r
      BY <1>7, <3>1, <3>3 DEF Sound, RowsArePlanned
    <3>4. QED
      BY <3>2, <3>3
  <2>2. QED
    BY <2>1 DEF RowsArePlanned
<1>12. ClaimsFit(t) /\ RunsArePlanned(t)
  BY <1>1, <1>2, <1>3 DEF Sound, ClaimsFit, RunsArePlanned, Active
<1>13. CancelledRunsAreStopped(t)
  BY <1>1, <1>3, <1>7 DEF Sound, CancelledRunsAreStopped
<1>14. ASSUME NEW j \in Rows(t), t.jobs[j].status # "waiting"
       PROVE  j \in Ids /\ j \in Rows(s) /\ j[1] # r /\ j[1] \in Runs
  BY <1>2, <1>7, <1>9, <1>14 DEF Rows, Ids
<1>15. InStatus(t, Active) = InStatus(s, Active)
  <2>1. InStatus(t, Active) \subseteq InStatus(s, Active)
    BY <1>7, <1>14 DEF InStatus, Active
  <2>2. InStatus(s, Active) \subseteq InStatus(t, Active)
    BY <1>4, <1>7, RowsAreFinite DEF InStatus
  <2>3. QED
    BY <2>1, <2>2
<1>16. ASSUME NEW g, NEW k \in JobsIn(t, g)
       PROVE  k \in JobsIn(s, g) /\ t.jobs[k].status = s.jobs[k].status
  <2>1. k \in Rows(t) /\ t.jobs[k].status \in {"pending"} \cup Active /\ Planned(t, k).group = g
    BY DEF JobsIn, InStatus
  <2>2. k \in Ids /\ k \in Rows(s) /\ k[1] # r
    BY <1>14, <2>1 DEF Active
  <2>3. QED
    BY <1>7, <2>1, <2>2 DEF JobsIn, InStatus
<1>17. ASSUME NEW j \in InStatus(t, Active)
       PROVE  GroupGuard(t, j) /\ ParallelClaimGuard(t, j)
  <2>1. /\ j \in Rows(s) /\ j \in Ids /\ j[1] # r /\ j[1] \in Runs
        /\ GroupGuard(s, j) /\ ParallelClaimGuard(s, j)
    BY <1>14, <1>15 DEF Sound, GroupsAreHeld, InStatus, Active
  <2>2. \A g : \A q \in RunsIn(t, g, j[1]) : q # r => q \in RunsIn(s, g, j[1])
    BY <1>8, <2>1 DEF RunsIn
  <2>3. \A g : \A q \in RunsIn(t, g, j[1]) : q \in Runs
    BY DEF RunsIn
  <2>4. GroupGuard(t, j)
    BY <1>7, <1>8, <1>10, <1>16, <2>1, <2>2, <2>3 DEF GroupGuard
  <2>5. {k \in Matrix(t, j) \ {j} : t.jobs[k].status \in Active} = {k \in Matrix(s, j) \ {j} : s.jobs[k].status \in Active}
    BY <1>7, <2>1 DEF Matrix, RowsOf, Rows
  <2>6. ParallelClaimGuard(t, j)
    BY <1>7, <2>1, <2>5 DEF ParallelClaimGuard
  <2>7. QED
    BY <2>4, <2>6
<1>18. HadNeeds(t)
  <2>1. ASSUME NEW j \in Rows(t), t.jobs[j].status = "pending" \/ HasClaim(t.jobs[j])
        PROVE  NeedsAreHistory(t, j)
    <3>1. j \in Ids /\ j \in Rows(s) /\ j[1] # r
      <4>1. t.jobs[j] # new
        BY <1>2, <2>1
      <4>2. j \in Ids /\ j[1] # r
        BY <1>9, <2>1, <4>1 DEF Rows
      <4>3. QED
        BY <1>7, <2>1, <4>2
    <3>2. NeedsAreHistory(s, j)
      BY <1>7, <2>1, <3>1 DEF Sound, HadNeeds
    <3>3. QED
      BY <1>7, <3>1, <3>2 DEF NeedsAreHistory, NeededBy, RowsOf, Rows
  <2>2. QED
    BY <2>1 DEF HadNeeds
<1>19. QueueIsBounded(t)
  <2>1. InStatus(t, Unfinished) \subseteq InStatus(s, Unfinished) \cup admitted
    <3>1. ASSUME NEW j \in InStatus(t, Unfinished)
          PROVE  j \in InStatus(s, Unfinished) \cup admitted
      <4>1. j \in Ids /\ j \in Rows(t)
        BY DEF InStatus, Rows
      <4>2. QED
        BY <1>7, <1>9, <4>1 DEF InStatus
    <3>2. QED
      BY <3>1
  <2>2. IsFiniteSet(InStatus(s, Unfinished)) /\ IsFiniteSet(admitted)
    BY <1>5, RowsAreFinite, IdsAreFinite, FS_Subset
  <2>3. /\ IsFiniteSet(InStatus(s, Unfinished) \cup admitted)
        /\ Cardinality(InStatus(s, Unfinished) \cup admitted)
              = Cardinality(InStatus(s, Unfinished)) + Cardinality(admitted)
                - Cardinality(InStatus(s, Unfinished) \cap admitted)
    BY <2>2, FS_Union
  <2>4. /\ Cardinality(InStatus(s, Unfinished)) \in Nat /\ Cardinality(admitted) \in Nat
        /\ Cardinality(InStatus(s, Unfinished) \cap admitted) \in Nat
        /\ Cardinality(InStatus(t, Unfinished)) \in Nat
        /\ Cardinality(InStatus(t, Unfinished)) <= Cardinality(InStatus(s, Unfinished) \cup admitted)
    BY <2>1, <2>2, <2>3, RowsAreFinite, FS_CardinalityType, FS_Subset, FS_Intersection
  <2>5. Cardinality(InStatus(s, Unfinished)) <= QueueLimit /\ Cardinality(InStatus(t, Active)) <= MaxActiveJobs
    BY <1>15 DEF Sound, QueueIsBounded, UnfinishedJobs
  <2>6. Cardinality(InStatus(t, Unfinished)) <= QueueLimit
    <3>1. CASE outcome = "admitted"
      BY <1>6, <2>3, <2>4, <3>1, ConstantsAssumption DEF UnfinishedJobs
    <3>2. CASE outcome # "admitted"
      <4>1. admitted = {}
        BY <1>5, <3>2
      <4>2. Cardinality(InStatus(t, Unfinished)) <= Cardinality(InStatus(s, Unfinished))
        BY <2>1, <2>2, <4>1, FS_Subset
      <4>3. QED
        BY <2>4, <2>5, <4>2, ConstantsAssumption
    <3>3. QED
      BY <3>1, <3>2
  <2>7. QED
    BY <2>5, <2>6 DEF QueueIsBounded, UnfinishedJobs
<1>20. Sound(t)
  BY <1>11, <1>12, <1>13, <1>17, <1>18, <1>19 DEF Sound, GroupsAreHeld
<1>21. QED
  BY <1>3, <1>20 DEF t

-----------------------------------------------------------------------------
(* Claims and starts *)

\* A claim and a start change one job, which stays unfinished.
GoesOn(s, j, t) ==
    /\ s \in Store /\ t \in Store /\ t.runs = s.runs
    /\ j \in Rows(s) /\ s.jobs[j].status \in {"pending", "claimed"} /\ t.jobs[j].status \in Active
    /\ \A k \in Ids : k # j => t.jobs[k] = s.jobs[k]

\* It changes none of the plans.
LEMMA GoesOnRows ==
    ASSUME NEW s, NEW j, NEW t, GoesOn(s, j, t)
    PROVE  j \in Ids /\ j[1] \in Runs /\ SamePlans(s, t)
<1>1. j \in Ids /\ j[1] \in Runs
  BY DEF GoesOn, Rows, Ids
<1>2. SamePlans(s, t)
  BY DEF GoesOn, SamePlans, Active
<1>3. QED
  BY <1>1, <1>2

\* What they change of what the groups and the queue look at.
LEMMA GoesOnFacts ==
    ASSUME NEW s, NEW j, NEW t, GoesOn(s, j, t)
    PROVE  /\ \A g, r : RunsIn(t, g, r) = RunsIn(s, g, r)
           /\ \A g : JobsIn(t, g) = JobsIn(s, g)
           /\ \A q : q # j[1] => (IsHeld(t, q) <=> IsHeld(s, q))
           /\ \A k \in Ids : IsHistory(s.jobs[k]) => IsHistory(t.jobs[k])
           /\ InStatus(t, Unfinished) = InStatus(s, Unfinished)
           /\ InStatus(t, Active) = InStatus(s, Active) \cup {j}
           /\ \A k \in Ids : s.jobs[k].status = "pending" /\ k # j => t.jobs[k].status = "pending"
<1>1. j \in Ids /\ j \in Rows(s)
  BY GoesOnRows DEF GoesOn
<1>2. /\ s.jobs[j].status \in {"pending", "claimed"} /\ t.jobs[j].status \in Active
      /\ \A k \in Ids : k # j => t.jobs[k] = s.jobs[k]
  BY DEF GoesOn
<1>3. SamePlans(s, t)
  BY GoesOnRows
<1>4. Rows(t) = Rows(s) /\ \A r : RowsOf(t, r) = RowsOf(s, r)
  BY <1>3, SamePlansFacts
<1>5. \A k \in Ids : t.jobs[k].status \in Unfinished <=> s.jobs[k].status \in Unfinished
  BY <1>2 DEF Unfinished, Queued, Active
<1>6. \A k \in Ids : t.jobs[k].status \in {"pending"} \cup Active <=> s.jobs[k].status \in {"pending"} \cup Active
  BY <1>2 DEF Active
<1>7. \A r : IsUnfinished(t, r) <=> IsUnfinished(s, r)
  BY <1>4, <1>5 DEF IsUnfinished, RowsOf, Rows
<1>8. \A g, r : RunsIn(t, g, r) = RunsIn(s, g, r)
  BY <1>3, <1>7, SamePlansFacts DEF RunsIn
<1>9. ASSUME NEW statuses, \A k \in Ids : t.jobs[k].status \in statuses <=> s.jobs[k].status \in statuses
      PROVE  InStatus(t, statuses) = InStatus(s, statuses)
  BY <1>4, <1>9 DEF InStatus, Rows
<1>10. \A g : JobsIn(t, g) = JobsIn(s, g)
  <2>1. InStatus(t, {"pending"} \cup Active) = InStatus(s, {"pending"} \cup Active)
    BY <1>6, <1>9
  <2>2. \A k \in Rows(s) : Planned(t, k) = Planned(s, k)
    BY <1>3, SamePlansFacts DEF Rows
  <2>3. QED
    BY <2>1, <2>2 DEF JobsIn, InStatus
<1>11. \A q : q # j[1] => (IsHeld(t, q) <=> IsHeld(s, q))
  BY <1>2, <1>4 DEF IsHeld, RowsOf, Rows
<1>12. \A k \in Ids : IsHistory(s.jobs[k]) => IsHistory(t.jobs[k])
  BY <1>1, <1>2 DEF IsHistory, IsTerminal, Unfinished, Queued, Active
<1>13. InStatus(t, Unfinished) = InStatus(s, Unfinished)
  BY <1>5, <1>9
<1>14. InStatus(t, Active) = InStatus(s, Active) \cup {j}
  BY <1>1, <1>2, <1>4 DEF InStatus, Rows
<1>15. QED
  BY <1>2, <1>8, <1>10, <1>11, <1>12, <1>13, <1>14

\* What a job that goes on shares with another one, in matrix or in group, does
\* not stop that one: whichever came first kept the other from going on.
LEMMA ClaimKeepsGuards ==
    ASSUME NEW s, NEW j, NEW t, GoesOn(s, j, t),
           Sound(s), s.jobs[j].status = "pending", MayGoOn(s, j), NEW i \in InStatus(s, Active)
    PROVE  GroupGuard(t, i) /\ ParallelClaimGuard(t, i)
<1>1. /\ i \in Ids /\ j \in Ids /\ i # j /\ i \in Rows(s) /\ i[1] \in Runs /\ j[1] \in Runs
      /\ s.jobs[i].status \in Active /\ HasClaim(s.jobs[i]) /\ t.jobs[i] = s.jobs[i]
      /\ GroupGuard(s, i) /\ ParallelClaimGuard(s, i)
  <2>1. i \in Ids /\ i[1] \in Runs /\ i \in Rows(s) /\ s.jobs[i].status \in Active /\ i # j
    BY DEF InStatus, Rows, Ids, Active
  <2>2. j \in Ids /\ j[1] \in Runs /\ t.jobs[i] = s.jobs[i]
    BY <2>1, GoesOnRows DEF GoesOn
  <2>3. QED
    BY <2>1, <2>2 DEF Sound, GroupsAreHeld, ClaimsFit
<1>2. /\ Planned(t, i) = Planned(s, i) /\ Planned(t, j) = Planned(s, j)
      /\ \A r \in Runs : GroupOf(t, r) = GroupOf(s, r)
      /\ Matrix(t, i) = Matrix(s, i)
  BY <1>1, GoesOnRows, SamePlansFacts
<1>3. IsHeld(s, i[1]) /\ IsUnfinished(s, i[1])
  BY <1>1 DEF IsHeld, IsUnfinished, RowsOf, Unfinished
<1>4. \A g : g = Planned(s, i).group => i \in JobsIn(s, g)
  BY <1>1 DEF JobsIn, InStatus
<1>5. /\ GroupOf(s, j[1]) # NoGroup =>
           /\ \A q \in RunsIn(s, GroupOf(s, j[1]), j[1]) : ~IsHeld(s, q)
           /\ \A k \in JobsIn(s, GroupOf(s, j[1])) : k[1] # j[1] => s.jobs[k].status = "pending"
      /\ Planned(s, j).group # NoGroup =>
           /\ \A k \in JobsIn(s, Planned(s, j).group) \ {j} : s.jobs[k].status = "pending"
           /\ \A q \in RunsIn(s, Planned(s, j).group, j[1]) : ~IsHeld(s, q)
  BY DEF MayGoOn, WorkflowClaimGuard, JobClaimGuard
<1>6. \A g : /\ g = GroupOf(s, i[1]) /\ i[1] # j[1] => i[1] \in RunsIn(s, g, j[1])
             /\ j \in JobsIn(s, g) => g = Planned(s, j).group
  BY <1>1, <1>3 DEF RunsIn, JobsIn
<1>7. \A q : \A g : q \in RunsIn(s, g, i[1]) => q # i[1] /\ GroupOf(s, q) = g
  BY DEF RunsIn
<1>8. s.jobs[i].status # "pending"
  BY <1>1 DEF Active
<1>9. /\ \A g : RunsIn(t, g, i[1]) = RunsIn(s, g, i[1]) /\ JobsIn(t, g) = JobsIn(s, g)
      /\ \A q : q # j[1] => (IsHeld(t, q) <=> IsHeld(s, q))
      /\ \A k \in Ids : s.jobs[k].status = "pending" /\ k # j => t.jobs[k].status = "pending"
  BY GoesOnFacts
<1>10. \A g : JobsIn(s, g) \subseteq Ids
  BY DEF JobsIn, InStatus, Rows
<1>11. ASSUME NEW g, g = GroupOf(s, i[1]), g # NoGroup
       PROVE  /\ \A q \in RunsIn(t, g, i[1]) : ~IsHeld(t, q)
              /\ \A k \in JobsIn(t, g) : k[1] # i[1] => t.jobs[k].status = "pending"
  <2>1. ASSUME NEW q \in RunsIn(s, g, i[1])
        PROVE  ~IsHeld(s, q) /\ q # j[1]
    BY <1>1, <1>3, <1>5, <1>6, <1>7, <1>11 DEF GroupGuard
  <2>2. ASSUME NEW k \in JobsIn(s, g), k[1] # i[1]
        PROVE  s.jobs[k].status = "pending" /\ k # j
    BY <1>1, <1>3, <1>5, <1>6, <1>11, <2>2 DEF GroupGuard
  <2>3. QED
    BY <1>9, <1>10, <2>1, <2>2
<1>12. ASSUME NEW h, h = Planned(s, i).group, h # NoGroup
       PROVE  /\ \A k \in JobsIn(t, h) \ {i} : t.jobs[k].status = "pending"
              /\ \A q \in RunsIn(t, h, i[1]) : ~IsHeld(t, q)
  <2>1. ASSUME NEW k \in JobsIn(s, h) \ {i}
        PROVE  s.jobs[k].status = "pending" /\ k # j
    <3>1. s.jobs[k].status = "pending"
      BY <1>1, <1>12 DEF GroupGuard
    <3>2. ASSUME k = j
          PROVE  FALSE
      BY <1>1, <1>4, <1>5, <1>6, <1>8, <1>12, <3>2
    <3>3. QED
      BY <3>1, <3>2
  <2>2. ASSUME NEW q \in RunsIn(s, h, i[1])
        PROVE  ~IsHeld(s, q) /\ q # j[1]
    <3>1. ~IsHeld(s, q) /\ q # i[1] /\ GroupOf(s, q) = h
      BY <1>1, <1>7, <1>12 DEF GroupGuard
    <3>2. ASSUME q = j[1]
          PROVE  FALSE
      BY <1>1, <1>4, <1>5, <1>8, <1>12, <3>1, <3>2
    <3>3. QED
      BY <3>1, <3>2
  <2>3. QED
    BY <1>9, <1>10, <2>1, <2>2
<1>13. GroupGuard(t, i)
  <2>1. Planned(t, i).group = Planned(s, i).group /\ GroupOf(t, i[1]) = GroupOf(s, i[1])
    BY <1>1, <1>2
  <2>2. GroupOf(t, i[1]) # NoGroup =>
           /\ \A q \in RunsIn(t, GroupOf(t, i[1]), i[1]) : ~IsHeld(t, q)
           /\ \A k \in JobsIn(t, GroupOf(t, i[1])) : k[1] # i[1] => t.jobs[k].status = "pending"
    BY <1>11, <2>1
  <2>3. Planned(t, i).group # NoGroup =>
           /\ \A k \in JobsIn(t, Planned(t, i).group) \ {i} : t.jobs[k].status = "pending"
           /\ \A q \in RunsIn(t, Planned(t, i).group, i[1]) : ~IsHeld(t, q)
    BY <1>12, <2>1
  <2>4. QED
    BY <2>2, <2>3 DEF GroupGuard
<1>14. ParallelClaimGuard(t, i)
  <2> DEFINE busy(x, k) == {l \in Matrix(x, k) \ {k} : x.jobs[l].status \in Active}
             others == {l \in Matrix(s, i) \ {i, j} : s.jobs[l].status \in Active}
  <2>1. IsFiniteSet(others)
    <3>1. others \subseteq Rows(s)
      BY RowsAreFinite
    <3>2. QED
      BY <3>1, RowsAreFinite, FS_Subset
  <2>2. \A l \in Matrix(s, i) : l \in Ids /\ (l # j => t.jobs[l] = s.jobs[l])
    BY DEF GoesOn, Matrix, RowsOf, Rows
  <2>3. CASE j \notin Matrix(s, i)
    <3>1. busy(t, i) = busy(s, i)
      BY <1>2, <2>2, <2>3
    <3> HIDE DEF busy
    <3>2. Planned(s, i).maxParallel = 0 \/ Planned(s, i).maxParallel > Cardinality(busy(s, i))
      BY <1>1 DEF ParallelClaimGuard, busy
    <3>3. Planned(t, i).maxParallel = 0 \/ Planned(t, i).maxParallel > Cardinality(busy(t, i))
      BY <1>2, <3>1, <3>2
    <3>4. QED
      BY <3>3 DEF ParallelClaimGuard, busy
  <2>4. CASE j \in Matrix(s, i)
    <3>1. j[1] = i[1] /\ Planned(s, j).key = Planned(s, i).key
      BY <2>4 DEF Matrix, RowsOf
    <3>2. Planned(s, j).maxParallel = Planned(s, i).maxParallel
      <4> DEFINE p == s.runs[i[1]].plan
      <4>1. /\ p \in DOMAIN Plans /\ i[2] \in DOMAIN Plans[p].jobs /\ j[2] \in DOMAIN Plans[p].jobs
            /\ Planned(s, i) = Plans[p].jobs[i[2]] /\ Planned(s, j) = Plans[p].jobs[j[2]]
        BY <1>1, <3>1 DEF GoesOn, Sound, RowsArePlanned, Planned
      <4> HIDE DEF p
      <4>2. Plans[p].jobs[i[2]].key = Plans[p].jobs[j[2]].key
        BY <3>1, <4>1
      <4>3. \A k, l \in DOMAIN Plans[p].jobs :
               Plans[p].jobs[k].key = Plans[p].jobs[l].key =>
                   Plans[p].jobs[k].maxParallel = Plans[p].jobs[l].maxParallel
        BY <4>1, ConstantsAssumption
      <4>4. QED
        BY <4>1, <4>2, <4>3
    <3>3. busy(t, i) = others \cup {j}
      <4>1. t.jobs[j].status \in Active
        BY DEF GoesOn
      <4>2. QED
        BY <1>1, <1>2, <2>2, <2>4, <4>1
    <3>4. busy(s, j) = others \cup {i}
      <4>1. Matrix(s, j) = Matrix(s, i)
        BY <3>1 DEF Matrix
      <4>2. i \in Matrix(s, i)
        BY <1>1 DEF Matrix, RowsOf
      <4>3. QED
        BY <1>1, <4>1, <4>2
    <3>5. i \notin others /\ j \notin others
      OBVIOUS
    <3> HIDE DEF busy, others
    <3>6. Cardinality(busy(t, i)) = Cardinality(busy(s, j))
      <4>1. Cardinality(others \cup {j}) = Cardinality(others) + 1
        BY <2>1, <3>5, FS_AddElement
      <4>2. Cardinality(others \cup {i}) = Cardinality(others) + 1
        BY <2>1, <3>5, FS_AddElement
      <4>3. QED
        BY <3>3, <3>4, <4>1, <4>2
    <3>7. Planned(s, j).maxParallel = 0 \/ Planned(s, j).maxParallel > Cardinality(busy(s, j))
      BY DEF MayGoOn, ParallelClaimGuard, busy
    <3>8. Planned(t, i).maxParallel = 0 \/ Planned(t, i).maxParallel > Cardinality(busy(t, i))
      BY <1>2, <3>2, <3>6, <3>7
    <3>9. QED
      BY <3>8 DEF ParallelClaimGuard, busy
  <2>5. QED
    BY <2>3, <2>4
<1>15. QED
  BY <1>13, <1>14

\* The job that goes on has passed its own guards, and goes on changing nothing
\* they ask for.
LEMMA OwnGuards ==
    ASSUME NEW s, NEW j, NEW t, GoesOn(s, j, t), MayGoOn(s, j)
    PROVE  GroupGuard(t, j) /\ ParallelClaimGuard(t, j)
<1>1. j \in Ids /\ j[1] \in Runs
  BY GoesOnRows
<1>2. /\ Planned(t, j) = Planned(s, j) /\ GroupOf(t, j[1]) = GroupOf(s, j[1]) /\ Matrix(t, j) = Matrix(s, j)
  BY <1>1, GoesOnRows, SamePlansFacts
<1>3. \A g : JobsIn(s, g) \subseteq Ids
  BY DEF JobsIn, InStatus, Rows
<1>4. GroupGuard(s, j)
  BY DEF MayGoOn, WorkflowClaimGuard, JobClaimGuard, GroupGuard
<1>5. /\ \A g : RunsIn(t, g, j[1]) = RunsIn(s, g, j[1]) /\ JobsIn(t, g) = JobsIn(s, g)
      /\ \A q : q # j[1] => (IsHeld(t, q) <=> IsHeld(s, q))
      /\ \A k \in Ids : s.jobs[k].status = "pending" /\ k # j => t.jobs[k].status = "pending"
  BY GoesOnFacts
<1>6. GroupGuard(t, j)
  <2>1. \A g : \A q \in RunsIn(s, g, j[1]) : q # j[1]
    BY DEF RunsIn
  <2>2. ASSUME NEW g, g = GroupOf(s, j[1]), g # NoGroup
        PROVE  /\ \A q \in RunsIn(t, g, j[1]) : ~IsHeld(t, q)
               /\ \A k \in JobsIn(t, g) : k[1] # j[1] => t.jobs[k].status = "pending"
    BY <1>3, <1>4, <1>5, <2>1, <2>2 DEF GroupGuard
  <2>3. ASSUME NEW h, h = Planned(s, j).group, h # NoGroup
        PROVE  /\ \A k \in JobsIn(t, h) \ {j} : t.jobs[k].status = "pending"
               /\ \A q \in RunsIn(t, h, j[1]) : ~IsHeld(t, q)
    BY <1>3, <1>4, <1>5, <2>1, <2>3 DEF GroupGuard
  <2>4. Planned(t, j).group = Planned(s, j).group /\ GroupOf(t, j[1]) = GroupOf(s, j[1])
    BY <1>2
  <2>5. GroupOf(t, j[1]) # NoGroup =>
           /\ \A q \in RunsIn(t, GroupOf(t, j[1]), j[1]) : ~IsHeld(t, q)
           /\ \A k \in JobsIn(t, GroupOf(t, j[1])) : k[1] # j[1] => t.jobs[k].status = "pending"
    BY <2>2, <2>4
  <2>6. Planned(t, j).group # NoGroup =>
           /\ \A k \in JobsIn(t, Planned(t, j).group) \ {j} : t.jobs[k].status = "pending"
           /\ \A q \in RunsIn(t, Planned(t, j).group, j[1]) : ~IsHeld(t, q)
    BY <2>3, <2>4
  <2>7. QED
    BY <2>5, <2>6 DEF GroupGuard
<1>7. {k \in Matrix(t, j) \ {j} : t.jobs[k].status \in Active} = {k \in Matrix(s, j) \ {j} : s.jobs[k].status \in Active}
  <2>1. \A k \in Matrix(s, j) : k \in Ids /\ (k # j => t.jobs[k] = s.jobs[k])
    BY DEF GoesOn, Matrix, RowsOf, Rows
  <2>2. QED
    BY <1>2, <2>1
<1>8. ParallelClaimGuard(t, j)
  BY <1>2, <1>7 DEF MayGoOn, ParallelClaimGuard
<1>9. QED
  BY <1>6, <1>8

\* The job that goes on keeps the invariant if the guards hold afterwards.
LEMMA GoesOnIsSound ==
    ASSUME NEW s, NEW j, NEW t, GoesOn(s, j, t),
           Sound(s), ~s.runs[j[1]].cancel, HasClaim(t.jobs[j]),
           \A i \in InStatus(t, Active) : GroupGuard(t, i) /\ ParallelClaimGuard(t, i),
           Cardinality(InStatus(t, Active)) <= MaxActiveJobs
    PROVE  Sound(t)
<1>1. j \in Ids /\ j \in Rows(s) /\ SamePlans(s, t)
  BY GoesOnRows DEF GoesOn
<1>2. /\ t.runs = s.runs /\ t.jobs[j].status \in Active /\ s.jobs[j].status \in {"pending", "claimed"}
      /\ \A k \in Ids : k # j => t.jobs[k] = s.jobs[k]
  BY DEF GoesOn
<1>3. RowsArePlanned(t)
  BY <1>1, <1>2, SamePlansFacts DEF Sound, RowsArePlanned
<1>4. ClaimsFit(t)
  BY <1>1, <1>2 DEF Sound, ClaimsFit, Active
<1>5. CancelledRunsAreStopped(t) /\ RunsArePlanned(t)
  BY <1>2 DEF Sound, CancelledRunsAreStopped, RunsArePlanned
<1>6. HadNeeds(t)
  <2>1. ASSUME NEW i \in Rows(t), t.jobs[i].status = "pending" \/ HasClaim(t.jobs[i])
        PROVE  NeedsAreHistory(t, i)
    <3>1. i \in Rows(s) /\ i \in Ids
      BY <1>1, SamePlansFacts DEF Rows
    <3>2. s.jobs[j].status = "pending" \/ HasClaim(s.jobs[j])
      BY <1>1, <1>2 DEF Sound, ClaimsFit, Active
    <3>3. NeedsAreHistory(s, i)
      BY <1>2, <2>1, <3>1, <3>2 DEF Sound, HadNeeds
    <3>4. NeededBy(t, i) = NeededBy(s, i)
      BY <1>1, <3>1, SamePlansFacts
    <3>5. NeededBy(s, i) \subseteq Ids
      BY DEF NeededBy, RowsOf, Rows
    <3>6. \A k \in Ids : IsHistory(s.jobs[k]) => IsHistory(t.jobs[k])
      BY GoesOnFacts
    <3>7. QED
      BY <3>3, <3>4, <3>5, <3>6 DEF NeedsAreHistory
  <2>2. QED
    BY <2>1 DEF HadNeeds
<1>7. QueueIsBounded(t)
  <2>1. InStatus(t, Unfinished) = InStatus(s, Unfinished)
    BY GoesOnFacts
  <2>2. QED
    BY <2>1 DEF Sound, QueueIsBounded, UnfinishedJobs
<1>8. QED
  BY <1>3, <1>4, <1>5, <1>6, <1>7 DEF Sound, GroupsAreHeld

\* A claim does: its guards keep the active jobs and the claimed one apart.
LEMMA ClaimIsSound ==
    ASSUME NEW s, NEW j, NEW t, GoesOn(s, j, t),
           Sound(s), s.jobs[j].status = "pending", MayGoOn(s, j),
           Cardinality(InStatus(s, Active)) < MaxActiveJobs, HasClaim(t.jobs[j])
    PROVE  Sound(t)
<1>1. InStatus(t, Active) = InStatus(s, Active) \cup {j}
  BY GoesOnFacts
<1>2. ASSUME NEW i \in InStatus(t, Active)
      PROVE  GroupGuard(t, i) /\ ParallelClaimGuard(t, i)
  <2>1. CASE i = j
    BY <2>1, OwnGuards
  <2>2. CASE i \in InStatus(s, Active)
    BY <2>2, ClaimKeepsGuards
  <2>3. QED
    BY <1>1, <2>1, <2>2
<1>3. Cardinality(InStatus(t, Active)) <= MaxActiveJobs
  <2>1. j \notin InStatus(s, Active)
    BY DEF InStatus, Active
  <2>2. Cardinality(InStatus(t, Active)) = Cardinality(InStatus(s, Active)) + 1
    BY <1>1, <2>1, RowsAreFinite, FS_AddElement
  <2>3. Cardinality(InStatus(s, Active)) \in Nat /\ MaxActiveJobs \in Nat
    BY RowsAreFinite, FS_CardinalityType, ConstantsAssumption
  <2>4. QED
    BY <2>2, <2>3
<1>4. ~s.runs[j[1]].cancel
  BY DEF MayGoOn, RunClaimGuard
<1>5. QED
  BY <1>2, <1>3, <1>4, GoesOnIsSound

\* A start does: nothing another job looks at changes.
LEMMA StartIsSound ==
    ASSUME NEW s, NEW j, NEW t, GoesOn(s, j, t),
           Sound(s), s.jobs[j].status = "claimed", MayGoOn(s, j),
           t.jobs[j].credential = s.jobs[j].credential
    PROVE  Sound(t)
<1>1. j \in Ids /\ j \in Rows(s) /\ SamePlans(s, t)
  BY GoesOnRows DEF GoesOn
<1>2. t.jobs[j].status \in Active /\ \A k \in Ids : k # j => t.jobs[k] = s.jobs[k]
  BY DEF GoesOn
<1>3. HasClaim(t.jobs[j]) /\ HasClaim(s.jobs[j]) /\ j \in InStatus(s, Active)
  BY <1>1 DEF Active, Sound, ClaimsFit, HasClaim, InStatus
<1>4. InStatus(t, Active) = InStatus(s, Active)
  <2>1. InStatus(t, Active) = InStatus(s, Active) \cup {j}
    BY GoesOnFacts
  <2>2. QED
    BY <1>3, <2>1
<1>5. \A k \in Ids : /\ HasClaim(t.jobs[k]) <=> HasClaim(s.jobs[k])
                     /\ t.jobs[k].status \in Active <=> s.jobs[k].status \in Active
                     /\ s.jobs[k].status = "pending" => t.jobs[k].status = "pending"
  BY <1>1, <1>2, <1>3 DEF Active
<1>6. \A q : IsHeld(t, q) <=> IsHeld(s, q)
  BY <1>1, <1>5, SamePlansFacts DEF IsHeld, RowsOf, Rows
<1>7. /\ \A g, r : RunsIn(t, g, r) = RunsIn(s, g, r)
      /\ \A g : JobsIn(t, g) = JobsIn(s, g)
  BY GoesOnFacts
<1>8. \A g : JobsIn(s, g) \subseteq Ids
  BY DEF JobsIn, InStatus, Rows
<1>9. ASSUME NEW i \in InStatus(s, Active)
      PROVE  GroupGuard(t, i) /\ ParallelClaimGuard(t, i)
  <2>1. GroupGuard(s, i) /\ ParallelClaimGuard(s, i) /\ i \in Ids /\ i[1] \in Runs
    BY DEF Sound, GroupsAreHeld, InStatus, Rows, Ids
  <2>2. Planned(t, i) = Planned(s, i) /\ GroupOf(t, i[1]) = GroupOf(s, i[1]) /\ Matrix(t, i) = Matrix(s, i)
    BY <1>1, <2>1, SamePlansFacts
  <2>3. GroupGuard(t, i)
    BY <1>5, <1>6, <1>7, <1>8, <2>1, <2>2 DEF GroupGuard
  <2>4. {k \in Matrix(t, i) \ {i} : t.jobs[k].status \in Active} = {k \in Matrix(s, i) \ {i} : s.jobs[k].status \in Active}
    <3>1. Matrix(s, i) \subseteq Ids
      BY DEF Matrix, RowsOf, Rows
    <3>2. QED
      BY <1>5, <2>2, <3>1
  <2>5. ParallelClaimGuard(t, i)
    BY <2>1, <2>2, <2>4 DEF ParallelClaimGuard
  <2>6. QED
    BY <2>3, <2>5
<1>10. Cardinality(InStatus(t, Active)) <= MaxActiveJobs
  BY <1>4 DEF Sound, QueueIsBounded
<1>11. ~s.runs[j[1]].cancel
  BY DEF MayGoOn, RunClaimGuard
<1>12. QED
  BY <1>3, <1>4, <1>9, <1>10, <1>11, GoesOnIsSound

-----------------------------------------------------------------------------
(* Nothing left to settle *)

\* The jobs of a run that a failure in their matrix stops.
StoppedByFailure(s, r) ==
    {j \in RowsOf(s, r) : \E k \in Matrix(s, j) \ {j} : Planned(s, k).failFast /\ FailFastFailure(s, k)}
IsStopped(s, ids) == \A j \in ids : Cancelled(s.jobs[j]) = s.jobs[j]
\* When a turn of the loop changes nothing.
NothingToDo(s, r) ==
    IF s.runs[r].cancel THEN IsStopped(s, RowsOf(s, r))
    ELSE IsStopped(s, StoppedByFailure(s, r)) /\ \A j \in RowsOf(s, r) : s.jobs[j].status = "waiting" => ~IsReady(s, j)

\* A cancellation changes nothing exactly when all its jobs are stopped.
LEMMA NothingToCancel ==
    ASSUME NEW s \in Store, NEW ids \in SUBSET Ids
    PROVE  WithCancelled(s, ids) = s <=> IsStopped(s, ids)
<1> DEFINE t == WithCancelled(s, ids)
<1>1. /\ t \in Store /\ t.runs = s.runs
      /\ \A k \in Ids : t.jobs[k] = IF k \in ids THEN Cancelled(s.jobs[k]) ELSE s.jobs[k]
  BY WithCancelledCancels DEF Cancels
<1> HIDE DEF t
<1>2. ASSUME t = s
      PROVE  IsStopped(s, ids)
  BY <1>1, <1>2 DEF IsStopped
<1>3. ASSUME IsStopped(s, ids)
      PROVE  t = s
  <2>1. \A k \in Ids : t.jobs[k] = s.jobs[k]
    BY <1>1, <1>3 DEF IsStopped
  <2>2. t.jobs = s.jobs
    BY <1>1, <2>1 DEF Store
  <2>3. QED
    BY <1>1, <2>2, StoreIsRecord
<1>4. QED
  BY <1>2, <1>3 DEF t

\* A waiting job that is ready always changes something.
LEMMA ResolvedLowers ==
    ASSUME NEW s \in Store, NEW j \in Ids, Waits(s, j), IsReady(s, j)
    PROVE  Resolved(s, j) \in Below(s)
<1>1. /\ s.jobs[j] \in JobRecords /\ s.jobs[j].status = "waiting"
      /\ SettlesInside(Below(s))
  BY SettlingLowers DEF Store, Waits
<1>2. ASSUME NEW status \in {"skipped", "error"}
      PROVE  Unstarted(s, j, status) \in Below(s)
  <2>1. status \in Statuses
    BY DEF Statuses, Results
  <2>2. EndedUnstarted(s.jobs[j], status) \in JobRecords /\ EndedUnstarted(s.jobs[j], status).status # "waiting"
    BY <1>1, <2>1, UnstartedJob
  <2>3. QED
    BY <1>1, <2>2, RowsWithOneJob, EndingAWaitLowers DEF Unstarted, Below
<1>3. Released(s, j) \in Below(s)
  BY <1>1, ReleasedJob, RowsWithOneJob, EndingAWaitLowers DEF Released, Below
<1>4. CASE IsUncertain(s, j) \/ ~Holds(s, j)
  BY <1>2, <1>4 DEF Resolved, Unstarted
<1>5. CASE ~IsUncertain(s, j) /\ Holds(s, j) /\ Planned(s, j).broken
  BY <1>2, <1>5 DEF Resolved, Unstarted
<1>6. CASE ~IsUncertain(s, j) /\ Holds(s, j) /\ ~Planned(s, j).broken
  <2>1. Resolved(s, j) = InGroup(Released(s, j), j[1], j, Planned(s, j))
    BY <1>6 DEF Resolved, Released
  <2>2. Released(s, j) \in Store
    BY <1>3 DEF Below
  <2>3. Cancels(Released(s, j), Resolved(s, j)) /\ Resolved(s, j) \in Store
    BY <2>1, <2>2, InGroupCancels DEF Cancels
  <2>4. QED
    BY <1>1, <1>3, <2>3 DEF SettlesInside
<1>7. QED
  BY <1>4, <1>5, <1>6

\* A turn changes nothing exactly when no job is left to stop, and none that
\* waits is ready.
LEMMA QuietRun ==
    ASSUME NEW s \in Store, NEW r \in Runs
    PROVE  SettlingStep(s, r) = s <=> NothingToDo(s, r)
<1> DEFINE t == FailFast(s, r)
           ready(x) == {j \in RowsOf(x, r) : x.jobs[j].status = "waiting" /\ IsReady(x, j)}
           first == CHOOSE j \in ready(t) : \A k \in ready(t) : j[2] <= k[2]
<1>1. RowsOf(s, r) \in SUBSET Ids /\ StoppedByFailure(s, r) \in SUBSET Ids
  BY DEF RowsOf, Rows, StoppedByFailure
<1>2. t = WithCancelled(s, StoppedByFailure(s, r))
  BY DEF FailFast, StoppedByFailure
<1>3. CASE s.runs[r].cancel
  <2>1. SettlingStep(s, r) = WithCancelled(s, RowsOf(s, r))
    BY <1>3 DEF SettlingStep
  <2>2. QED
    BY <1>1, <1>3, <2>1, NothingToCancel DEF NothingToDo
<1>4. CASE ~s.runs[r].cancel
  <2>1. t = s <=> IsStopped(s, StoppedByFailure(s, r))
    BY <1>1, <1>2, NothingToCancel
  <2>2. Cancels(s, t) /\ t \in Store /\ t.runs = s.runs
    BY <1>2, WithCancelledCancels DEF Cancels
  <2>3. SettlingStep(s, r) = IF ready(t) = {} THEN t ELSE Resolved(t, first)
    BY <1>4 DEF SettlingStep
  <2>4. ready(s) = {} <=> \A j \in RowsOf(s, r) : s.jobs[j].status = "waiting" => ~IsReady(s, j)
    OBVIOUS
  <2>5. ASSUME ready(t) # {}
        PROVE  Resolved(t, first) \in Below(t)
    <3>1. first \in ready(t)
      <4>1. ready(t) \in SUBSET Ids
        BY DEF RowsOf, Rows
      <4> HIDE DEF ready
      <4>2. QED
        BY <2>5, <4>1, FirstJob
    <3> HIDE DEF first, t
    <3>2. first \in Ids /\ Waits(t, first) /\ IsReady(t, first)
      BY <1>4, <2>2, <3>1 DEF Waits, RowsOf, Rows
    <3>3. QED
      BY <2>2, <3>2, ResolvedLowers
  <2> HIDE DEF t, ready, first
  <2>6. Left(s) \in Nat /\ Left(t) \in Nat /\ \A u : Left(u) \in Nat
    BY LeftIsNatural
  <2>7. t # s => Left(t) < Left(s)
    BY <2>2, CancellingLowers
  <2>8. SettlingStep(s, r) = s => t = s /\ ready(t) = {}
    BY <2>3, <2>5, <2>6, <2>7 DEF Below
  <2>9. SettlingStep(s, r) = s <=> t = s /\ ready(s) = {}
    BY <2>3, <2>8
  <2>10. QED
    BY <1>4, <2>1, <2>4, <2>9 DEF NothingToDo
<1>5. QED
  BY <1>3, <1>4

\* A claim or a start gives a settled run nothing to do.
LEMMA GoesOnIsQuiet ==
    ASSUME NEW s, NEW j, NEW t, GoesOn(s, j, t), Quiet(s), ~s.runs[j[1]].cancel
    PROVE  Quiet(t)
<1>1. /\ s \in Store /\ t \in Store /\ t.runs = s.runs /\ j \in Ids
      /\ s.jobs[j].status \in {"pending", "claimed"} /\ t.jobs[j].status \in Active
      /\ \A k \in Ids : k # j => t.jobs[k] = s.jobs[k]
      /\ SamePlans(s, t)
  BY GoesOnRows DEF GoesOn
<1>2. Cancelled(s.jobs[j]) # s.jobs[j]
  <2>1. s.jobs[j] \in JobRecords
    BY <1>1 DEF Store
  <2>2. Cancelled(s.jobs[j]).status = "cancelled"
    BY <1>1, <2>1, CancelledJob DEF Queued
  <2>3. QED
    BY <1>1, <2>2
<1>3. ASSUME NEW ids \in SUBSET Ids, IsStopped(s, ids)
      PROVE  IsStopped(t, ids)
  BY <1>1, <1>2, <1>3 DEF IsStopped
<1>4. ASSUME NEW k \in Ids
      PROVE  /\ FailFastFailure(t, k) => FailFastFailure(s, k)
             /\ t.jobs[k].status = "waiting" => s.jobs[k].status = "waiting"
             /\ t.jobs[k].status \in Unfinished <=> s.jobs[k].status \in Unfinished
  <2>1. CASE k = j
    BY <1>1, <2>1 DEF FailFastFailure, Unfinished, Queued, Active
  <2>2. CASE k # j
    <3>1. t.jobs[k] = s.jobs[k] /\ Planned(t, k) = Planned(s, k)
      BY <1>1, <2>2, SamePlansFacts
    <3>2. QED
      BY <3>1 DEF FailFastFailure, NeedsResult
  <2>3. QED
    BY <2>1, <2>2
<1>5. ASSUME NEW r \in Runs
      PROVE  SettlingStep(t, r) = t
  <2>1. NothingToDo(s, r) /\ RowsOf(t, r) = RowsOf(s, r) /\ RowsOf(s, r) \subseteq Ids
    <3>1. NothingToDo(s, r)
      BY <1>1, QuietRun DEF Quiet
    <3>2. RowsOf(t, r) = RowsOf(s, r)
      BY <1>1, SamePlansFacts
    <3>3. QED
      BY <3>1, <3>2 DEF RowsOf, Rows
  <2>2. CASE s.runs[r].cancel
    <3>1. IsStopped(t, RowsOf(t, r))
      BY <1>3, <2>1, <2>2 DEF NothingToDo
    <3>2. NothingToDo(t, r)
      BY <1>1, <2>2, <3>1 DEF NothingToDo
    <3>3. QED
      BY <1>1, <3>2, QuietRun
  <2>3. CASE ~s.runs[r].cancel
    <3>1. StoppedByFailure(t, r) \subseteq StoppedByFailure(s, r)
      <4>1. ASSUME NEW i \in RowsOf(s, r), NEW k \in Matrix(t, i) \ {i},
                   Planned(t, k).failFast /\ FailFastFailure(t, k)
            PROVE  i \in StoppedByFailure(s, r)
        <5>1. k \in Matrix(s, i) \ {i} /\ k \in Ids /\ Planned(t, k) = Planned(s, k)
          BY <1>1, <2>1, SamePlansFacts DEF Matrix, RowsOf, Rows
        <5>2. QED
          BY <1>4, <4>1, <5>1 DEF StoppedByFailure
      <4>2. QED
        BY <2>1, <4>1 DEF StoppedByFailure
    <3>2. IsStopped(s, StoppedByFailure(s, r)) /\ StoppedByFailure(s, r) \in SUBSET Ids
      BY <2>1, <2>3 DEF NothingToDo, StoppedByFailure
    <3>3. IsStopped(t, StoppedByFailure(t, r))
      BY <1>3, <3>1, <3>2 DEF IsStopped
    <3>4. ASSUME NEW i \in RowsOf(t, r), t.jobs[i].status = "waiting"
          PROVE  ~IsReady(t, i)
      <4>1. i \in Ids /\ s.jobs[i].status = "waiting" /\ ~IsReady(s, i)
        BY <1>4, <2>1, <2>3, <3>4 DEF NothingToDo
      <4>2. NeededBy(t, i) = NeededBy(s, i) /\ NeededBy(s, i) \subseteq Ids
        <5>1. NeededBy(t, i) = NeededBy(s, i)
          BY <1>1, <4>1, SamePlansFacts
        <5>2. QED
          BY <5>1 DEF NeededBy, RowsOf, Rows
      <4>3. QED
        BY <1>4, <4>1, <4>2 DEF IsReady
    <3>5. NothingToDo(t, r)
      BY <1>1, <2>3, <3>3, <3>4 DEF NothingToDo
    <3>6. QED
      BY <1>1, <3>5, QuietRun
  <2>4. QED
    BY <2>2, <2>3
<1>6. QED
  BY <1>5 DEF Quiet

-----------------------------------------------------------------------------
(* The steps *)

\* What a step has to keep of the rows.
RowsKept == Now' \in Store /\ Sound(Now)' /\ Quiet(Now)'

\* Without any run there is nothing to keep, and nothing to settle.
LEMMA InitIsSound == Init => IInv
<1> SUFFICES ASSUME Init PROVE IInv
  OBVIOUS
<1>1. Now \in Store /\ \A j \in Ids : jobs[j] = Admitted("absent", "workflow")
  <2>1. NoRun \in RunRecords
    BY ConstantsAssumption DEF NoRun, RunRecords
  <2>2. NoLease \in 0..1 /\ "absent" \in Statuses /\ "kept" \in LeaseLosses /\ "none" \in Attempts
    BY DEF NoLease, Statuses, LeaseLosses, Attempts
  <2>3. Admitted("absent", "workflow") \in JobRecords
    BY <2>2 DEF Admitted, JobRecords
  <2>4. QED
    BY <2>1, <2>3 DEF Init, Now, Store
<1>2. \A j \in Ids : /\ Now.jobs[j].status = "absent" /\ ~HasClaim(Now.jobs[j])
                     /\ ~Now.runs[j[1]].cancel
  BY <1>1 DEF Now, Admitted, HasClaim, Init, NoRun, Ids
<1>3. Rows(Now) = {}
  BY <1>2 DEF Rows
<1>4. /\ \A r : RowsOf(Now, r) = {} /\ StoppedByFailure(Now, r) = {}
      /\ \A statuses : InStatus(Now, statuses) = {}
  BY <1>3 DEF RowsOf, StoppedByFailure, InStatus
<1>5. QueueIsBounded(Now)
  <2>1. InStatus(Now, Unfinished) = {} /\ InStatus(Now, Active) = {} /\ Cardinality({}) = 0
    BY <1>4, FS_EmptySet
  <2>2. QueueLimit \in Nat /\ MaxActiveJobs \in Nat
    BY ConstantsAssumption
  <2>3. QED
    BY <2>1, <2>2 DEF QueueIsBounded, UnfinishedJobs
<1>6. Sound(Now)
  <2>1. RunsArePlanned(Now)
    BY DEF RunsArePlanned, Now, Init
  <2>2. QED
    BY <1>2, <1>3, <1>4, <1>5, <2>1
       DEF Sound, RowsArePlanned, ClaimsFit, CancelledRunsAreStopped, GroupsAreHeld, HadNeeds, Active
<1>7. Quiet(Now)
  <2>1. ASSUME NEW r \in Runs
        PROVE  NothingToDo(Now, r)
    BY <1>4 DEF NothingToDo, IsStopped
  <2>2. QED
    BY <1>1, <2>1, QuietRun DEF Quiet
<1>8. consented \in BOOLEAN /\ faults \in 0..MaxFaults
  BY ConstantsAssumption DEF Init
<1>9. QED
  BY <1>1, <1>6, <1>7, <1>8 DEF IInv

\* The groups are cleared and the run is admitted, both before settling.
LEMMA AdmitRunKeeps ==
    ASSUME IInv, NEW p \in DOMAIN Plans, NEW root \in 0..MaxRuns, NEW generation \in 0..MaxRuns,
           AdmitRun(p, root, generation)
    PROVE  RowsKept
<1> DEFINE cleared(r) == IF Len(Plans[p].jobs) > QueueLimit THEN Now ELSE InGroup(Now, r, NoJob, Plans[p])
           inserted(r) == Inserted(cleared(r), r, p, root, generation)
           placed(r) == IF inserted(r).runs[r].outcome = "admitted" /\ Plans[p].queue = "max"
                        THEN InGroup(inserted(r), r, NoJob, Plans[p]) ELSE inserted(r)
<1>1. PICK r \in Runs : runs[r] = NoRun /\ Becomes(Settled(placed(r)))
  BY DEF AdmitRun
<1>2. Now \in Store /\ Sound(Now) /\ Now.runs[r].outcome = "absent"
  BY <1>1 DEF IInv, Now, NoRun
<1>3. cleared(r) \in Store /\ Sound(cleared(r)) /\ cleared(r).runs[r].outcome = "absent"
  <2>1. Cancels(Now, InGroup(Now, r, NoJob, Plans[p]))
    BY <1>2, InGroupCancels
  <2>2. ASSUME NEW t, Cancels(Now, t)
        PROVE  t \in Store /\ Sound(t) /\ t.runs[r].outcome = "absent"
    <3>1. t.runs[r] \in {Now.runs[r], [Now.runs[r] EXCEPT !.cancel = TRUE]}
      BY <2>2 DEF Cancels
    <3>2. Now.runs[r] \in RunRecords
      BY <1>2 DEF Store
    <3>3. t.runs[r].outcome = "absent"
      BY <1>2, <3>1, <3>2 DEF RunRecords
    <3>4. QED
      BY <1>2, <2>2, <3>3, CancelsIsSound DEF Cancels
  <2>3. QED
    BY <1>2, <2>1, <2>2
<1> HIDE DEF cleared
<1>4. inserted(r) \in Store /\ Sound(inserted(r))
  BY <1>3, InsertedIsSound
<1> HIDE DEF inserted
<1>5. placed(r) \in Store /\ Sound(placed(r))
  <2>1. Cancels(inserted(r), InGroup(inserted(r), r, NoJob, Plans[p]))
    BY <1>4, InGroupCancels
  <2>2. \A t : Cancels(inserted(r), t) => t \in Store /\ Sound(t)
    BY <1>4, CancelsIsSound DEF Cancels
  <2>3. QED
    BY <1>4, <2>1, <2>2
<1> HIDE DEF placed
<1>6. QED
  BY <1>1, <1>5, BecomesSettled DEF RowsKept

\* The reruns of a run are fewer than all runs.
LEMMA RerunKeeps ==
    ASSUME IInv, NEW r \in Runs, Rerun(r)
    PROVE  RowsKept
<1> DEFINE root == RootOf(r)
           n == Cardinality(RerunsOf(root))
<1>1. runs \in [Runs -> RunRecords] /\ runs[r] # NoRun
  BY DEF IInv, Now, Store, Rerun
<1>2. AdmitRun(runs[r].plan, root, n + 1)
  BY DEF Rerun
<1>3. root \in Runs /\ root \in 0..MaxRuns /\ root # 0
  BY <1>1, ConstantsAssumption DEF RootOf, Runs, RunRecords
<1>4. PICK q \in Runs : runs[q] = NoRun
  BY <1>2 DEF AdmitRun
<1>5. RerunsOf(root) \subseteq Runs /\ q \notin RerunsOf(root)
  BY <1>3, <1>4 DEF RerunsOf, NoRun
<1>6. n + 1 \in 0..MaxRuns
  <2>1. IsFiniteSet(RerunsOf(root)) /\ n \in Nat
    BY <1>5, IdsAreFinite, FS_Subset, FS_CardinalityType
  <2>2. Cardinality(RerunsOf(root) \cup {q}) = n + 1
    BY <1>5, <2>1, FS_AddElement
  <2>3. Cardinality(RerunsOf(root) \cup {q}) <= Cardinality(Runs)
    BY <1>5, IdsAreFinite, FS_Subset
  <2>4. Cardinality(Runs) = MaxRuns
    <3>1. MaxRuns \in Int /\ 1 \in Int /\ (1 > MaxRuns => MaxRuns = 0)
      BY ConstantsAssumption
    <3>2. Cardinality(Runs) = IF 1 > MaxRuns THEN 0 ELSE MaxRuns - 1 + 1
      BY <3>1, FS_Interval DEF Runs
    <3>3. QED
      BY <3>1, <3>2
  <2> HIDE DEF n, root
  <2>5. QED
    BY <2>1, <2>2, <2>3, <2>4, ConstantsAssumption
<1>7. runs[r].plan \in DOMAIN Plans
  BY <1>1 DEF IInv, Sound, RunsArePlanned, Now
<1> HIDE DEF n, root
<1>8. QED
  BY <1>2, <1>3, <1>6, <1>7, AdmitRunKeeps

\* The cancellation of a run, before settling.
LEMMA CancelRunKeeps ==
    ASSUME IInv, NEW r \in Runs, CancelRun(r)
    PROVE  RowsKept
<1>1. Cancels(Now, WithCancelledRuns(Now, {r}))
  BY WithCancelledRunsCancels DEF IInv
<1>2. WithCancelledRuns(Now, {r}) \in Store /\ Sound(WithCancelledRuns(Now, {r}))
  BY <1>1, CancelsIsSound DEF IInv, Cancels
<1>3. QED
  BY <1>2, BecomesSettled DEF CancelRun, RowsKept

\* The cancellation of a job, before settling.
LEMMA CancelJobKeeps ==
    ASSUME IInv, NEW j \in Ids, CancelJob(j)
    PROVE  RowsKept
<1>1. Cancels(Now, WithCancelled(Now, {j}))
  BY WithCancelledCancels DEF IInv
<1>2. WithCancelled(Now, {j}) \in Store /\ Sound(WithCancelled(Now, {j}))
  BY <1>1, CancelsIsSound DEF IInv, Cancels
<1>3. QED
  BY <1>2, BecomesSettled DEF CancelJob, RowsKept

\* A claim passes the guards in its own transaction, and settles nothing.
LEMMA ClaimKeeps ==
    ASSUME IInv, NEW j \in Ids, Claim(j)
    PROVE  RowsKept
<1>1. /\ Now \in Store /\ Sound(Now) /\ Quiet(Now) /\ j \in Rows(Now) /\ MayGoOn(Now, j)
      /\ Now.jobs[j].status = "pending" /\ Cardinality(InStatus(Now, Active)) < MaxActiveJobs
      /\ Now.jobs[j] \in JobRecords
  BY DEF IInv, Claim, IsClaimable, Now, Store
<1> DEFINE job == Claimed(Now.jobs[j], Worker, 1)
<1>2. job \in JobRecords /\ job.status = "claimed" /\ HasClaim(job)
  <2>1. "claimed" \in Statuses /\ 1 \in 0..1 /\ Worker # Unclaimed
    BY DEF Statuses, Unfinished, Active, Worker, Unclaimed
  <2>2. QED
    BY <1>1, <2>1 DEF Claimed, JobRecords, HasClaim
<1>3. Now' = [Now EXCEPT !.jobs[j] = job]
  BY DEF Claim, Now
<1> HIDE DEF job
<1>4. GoesOn(Now, j, Now')
  BY <1>1, <1>2, <1>3, RowsWithOneJob DEF GoesOn, Active
<1>5. HasClaim(Now'.jobs[j])
  BY <1>1, <1>2, <1>3, RowsWithOneJob
<1>6. ~Now.runs[j[1]].cancel
  BY <1>1 DEF MayGoOn, RunClaimGuard
<1>7. Sound(Now')
  BY <1>1, <1>4, <1>5, ClaimIsSound
<1>8. Quiet(Now')
  BY <1>1, <1>4, <1>6, GoesOnIsQuiet
<1>9. Now' \in Store
  BY <1>4 DEF GoesOn
<1>10. QED
  BY <1>7, <1>8, <1>9 DEF RowsKept

\* So does a start.
LEMMA StartKeeps ==
    ASSUME IInv, NEW j \in Ids, Start(j)
    PROVE  RowsKept
<1>1. /\ Now \in Store /\ Sound(Now) /\ Quiet(Now) /\ j \in Rows(Now) /\ MayGoOn(Now, j)
      /\ Now.jobs[j].status = "claimed" /\ Now.jobs[j] \in JobRecords
  BY DEF IInv, Start, Now, Store, Rows
<1> DEFINE job == Started(Now.jobs[j])
<1>2. job \in JobRecords /\ job.status = "started" /\ job.credential = Now.jobs[j].credential
  <2>1. "started" \in Statuses /\ "pending" \in Attempts
    BY DEF Statuses, Unfinished, Active, Attempts
  <2>2. QED
    BY <1>1, <2>1 DEF Started, JobRecords
<1>3. Now' = [Now EXCEPT !.jobs[j] = job]
  BY DEF Start, Now
<1> HIDE DEF job
<1>4. GoesOn(Now, j, Now')
  BY <1>1, <1>2, <1>3, RowsWithOneJob DEF GoesOn, Active
<1>5. Now'.jobs[j].credential = Now.jobs[j].credential
  BY <1>1, <1>2, <1>3, RowsWithOneJob
<1>6. ~Now.runs[j[1]].cancel
  BY <1>1 DEF MayGoOn, RunClaimGuard
<1>7. Sound(Now')
  BY <1>1, <1>4, <1>5, StartIsSound
<1>8. Quiet(Now')
  BY <1>1, <1>4, <1>6, GoesOnIsQuiet
<1>9. Now' \in Store
  BY <1>4 DEF GoesOn
<1>10. QED
  BY <1>7, <1>8, <1>9 DEF RowsKept

\* The transactions that end a job, or many, before they settle.
LEMMA UpdateKeeps ==
    ASSUME IInv, NEW j \in Ids, jobs[j].status \in Unfinished \cup {"ambiguous"},
           NEW job, Ends(jobs[j], job), Update(j, job)
    PROVE  RowsKept
<1>1. Now \in Store /\ Sound(Now) /\ job \in JobRecords /\ Now.jobs = jobs
  BY DEF IInv, Ends, Now
<1> DEFINE f == [jobs EXCEPT ![j] = job]
<1>2. [Now EXCEPT !.jobs[j] = job] = [Now EXCEPT !.jobs = f]
  BY <1>1
<1>3. f \in [Ids -> JobRecords] /\ f[j] = job /\ \A k \in Ids : k # j => f[k] = jobs[k]
  BY <1>1 DEF Store
<1> HIDE DEF f
<1>4. [Now EXCEPT !.jobs = f] \in Store /\ Sound([Now EXCEPT !.jobs = f])
  BY <1>1, <1>3, EndedIsSound
<1>5. QED
  BY <1>2, <1>4, BecomesSettled DEF Update, RowsKept

\* The same for a set of jobs; without any, the rows settle as they are.
LEMMA WithJobsKeeps ==
    ASSUME IInv, NEW ids \in SUBSET Ids, NEW f \in [Ids -> JobRecords],
           \A j \in ids : jobs[j].status \in Unfinished \cup {"ambiguous"} /\ Ends(jobs[j], f[j]),
           \A j \in Ids \ ids : f[j] = jobs[j],
           \/ Becomes(Settled(Now)) /\ ids = {}
           \/ Becomes(Settled([Now EXCEPT !.jobs = f]))
    PROVE  RowsKept
<1>1. Now \in Store /\ Sound(Now) /\ Now.jobs = jobs
  BY DEF IInv, Now
<1>2. [Now EXCEPT !.jobs = f] \in Store /\ Sound([Now EXCEPT !.jobs = f])
  BY <1>1, EndedIsSound
<1>3. QED
  BY <1>1, <1>2, BecomesSettled DEF RowsKept

\* A job selected by a status that is unfinished.
LEMMA ActiveJob ==
    ASSUME IInv, NEW statuses \in SUBSET Unfinished, NEW j \in InStatus(Now, statuses)
    PROVE  j \in Ids /\ jobs[j] \in JobRecords /\ jobs[j].status \in statuses /\ jobs[j].status \in Unfinished
  BY DEF IInv, Store, Now, InStatus, Rows

\* Leases that are lost.
LEMMA ExpireLeasesKeeps ==
    ASSUME IInv, NEW lost \in SUBSET InStatus(Now, Active), ExpireLeases(lost)
    PROVE  RowsKept
<1> DEFINE f == [j \in Ids |-> IF j \in lost THEN LeaseLost(jobs[j], "deadline") ELSE jobs[j]]
<1>1. Active \in SUBSET Unfinished
  BY DEF Unfinished
<1>2. ASSUME NEW j \in lost
      PROVE  /\ j \in Ids /\ jobs[j].status \in Unfinished
             /\ Ends(jobs[j], LeaseLost(jobs[j], "deadline"))
  <2>1. j \in Ids /\ jobs[j] \in JobRecords /\ jobs[j].status \in Active /\ jobs[j].status \in Unfinished
    BY <1>1, ActiveJob
  <2>2. "deadline" \in LeaseLosses
    BY DEF LeaseLosses
  <2>3. QED
    BY <2>1, <2>2, JobsEnd
<1>3. f \in [Ids -> JobRecords] /\ \A j \in Ids : f[j] = IF j \in lost THEN LeaseLost(jobs[j], "deadline") ELSE jobs[j]
  BY <1>2 DEF Ends, IInv, Now, Store
<1>4. Becomes(Settled([Now EXCEPT !.jobs = f]))
  BY DEF ExpireLeases, WithJobs, Now
<1> HIDE DEF f
<1>5. QED
  BY <1>2, <1>3, <1>4, WithJobsKeeps

\* A restart: claims are interrupted, and executions in doubt.
LEMMA RestartKeeps ==
    ASSUME IInv, Restart
    PROVE  RowsKept
<1> DEFINE ids == InStatus(Now, Active)
           f == [j \in Ids |-> IF j \in ids THEN AfterRestart(jobs[j]) ELSE jobs[j]]
<1>1. Active \in SUBSET Unfinished
  BY DEF Unfinished
<1>2. ASSUME NEW j \in ids
      PROVE  /\ j \in Ids /\ jobs[j].status \in Unfinished
             /\ Ends(jobs[j], AfterRestart(jobs[j]))
  <2>1. j \in Ids /\ jobs[j] \in JobRecords /\ jobs[j].status \in Active /\ jobs[j].status \in Unfinished
    BY <1>1, ActiveJob
  <2>2. "restart" \in LeaseLosses
    BY DEF LeaseLosses
  <2>3. QED
    BY <2>1, <2>2, JobsEnd DEF AfterRestart
<1>3. f \in [Ids -> JobRecords] /\ \A j \in Ids : f[j] = IF j \in ids THEN AfterRestart(jobs[j]) ELSE jobs[j]
  BY <1>2 DEF Ends, IInv, Now, Store
<1>4. Becomes(Settled([Now EXCEPT !.jobs = f]))
  BY DEF Restart, WithJobs, Now
<1> HIDE DEF f, ids
<1>5. QED
  BY <1>2, <1>3, <1>4, WithJobsKeeps

\* Consent withdrawn: what did not start is interrupted.
LEMMA WithdrawConsentKeeps ==
    ASSUME IInv, WithdrawConsent
    PROVE  RowsKept
<1> DEFINE statuses == Queued \cup {"claimed"}
           ids == InStatus(Now, statuses)
           f == [j \in Ids |-> IF j \in ids THEN Interrupted(jobs[j]) ELSE jobs[j]]
<1>1. statuses \in SUBSET Unfinished
  BY DEF Unfinished, Active
<1>2. ASSUME NEW j \in ids
      PROVE  /\ j \in Ids /\ jobs[j].status \in Unfinished
             /\ Ends(jobs[j], Interrupted(jobs[j]))
  <2>1. j \in Ids /\ jobs[j] \in JobRecords /\ jobs[j].status \in statuses /\ jobs[j].status \in Unfinished
    BY <1>1, ActiveJob
  <2>2. QED
    BY <2>1, JobsEnd
<1>3. f \in [Ids -> JobRecords] /\ \A j \in Ids : f[j] = IF j \in ids THEN Interrupted(jobs[j]) ELSE jobs[j]
  BY <1>2 DEF Ends, IInv, Now, Store
<1>4. \/ Becomes(Settled(Now)) /\ ids = {}
      \/ Becomes(Settled([Now EXCEPT !.jobs = f]))
  BY DEF WithdrawConsent, WithJobs, Now
<1> HIDE DEF f, ids
<1>5. ids \in SUBSET Ids
  BY <1>2
<1>6. QED
  BY <1>2, <1>3, <1>4, <1>5, WithJobsKeeps

\* Every step keeps the invariant.
LEMMA NextKeeps == IInv /\ [Next]_vars => IInv'
<1> SUFFICES ASSUME IInv, [Next]_vars PROVE IInv'
  OBVIOUS
<1>1. faults \in 0..MaxFaults /\ consented \in BOOLEAN /\ MaxFaults \in Nat
  BY ConstantsAssumption DEF IInv
<1>2. Fault => faults' \in 0..MaxFaults
  BY <1>1 DEF Fault
<1>3. ASSUME RowsKept, consented' \in BOOLEAN, faults' \in 0..MaxFaults
      PROVE  IInv'
  BY <1>3 DEF RowsKept, IInv
<1>4. 0 \in 0..MaxRuns
  BY ConstantsAssumption
<1>5. ASSUME NEW p \in DOMAIN Plans, Admit(p)
      PROVE  IInv'
  <2>1. AdmitRun(p, 0, 0)
    BY <1>5 DEF Admit
  <2>2. RowsKept
    BY <1>4, <2>1, AdmitRunKeeps
  <2>3. UNCHANGED <<consented, faults>>
    BY <2>1 DEF AdmitRun
  <2>4. QED
    BY <1>1, <1>3, <2>2, <2>3
<1>6. ASSUME NEW r \in Runs, Rerun(r)
      PROVE  IInv'
  <2>1. UNCHANGED <<consented, faults>>
    BY <1>6 DEF Rerun, AdmitRun
  <2>2. QED
    BY <1>1, <1>3, <1>6, <2>1, RerunKeeps
<1>7. ASSUME NEW r \in Runs, CancelRun(r)
      PROVE  IInv'
  BY <1>1, <1>2, <1>3, <1>7, CancelRunKeeps DEF CancelRun
<1>8. ASSUME NEW j \in Ids, CancelJob(j)
      PROVE  IInv'
  BY <1>1, <1>2, <1>3, <1>8, CancelJobKeeps DEF CancelJob
<1>9. ASSUME NEW j \in Ids, Claim(j)
      PROVE  IInv'
  BY <1>1, <1>3, <1>9, ClaimKeeps DEF Claim
<1>10. ASSUME NEW j \in Ids, Start(j)
       PROVE  IInv'
  BY <1>1, <1>3, <1>10, StartKeeps DEF Start
<1>11. ASSUME NEW j \in Ids, NEW status \in Failures, FailBeforeStart(j, status)
       PROVE  IInv'
  <2>1. jobs[j] \in JobRecords /\ jobs[j].status \in Unfinished
    BY <1>11 DEF FailBeforeStart, Unfinished, Active, IInv, Now, Store
  <2>2. Ends(jobs[j], EndedUnstarted(jobs[j], status))
    BY <2>1, JobsEnd
  <2>3. /\ Update(j, EndedUnstarted(jobs[j], status)) /\ Fault
        /\ UNCHANGED consented
    BY <1>11 DEF FailBeforeStart, Update
  <2>4. RowsKept
    BY <2>1, <2>2, <2>3, UpdateKeeps
  <2>5. QED
    BY <1>1, <1>2, <1>3, <2>3, <2>4
<1>12. ASSUME NEW j \in Ids, NEW result \in Outcomes, Complete(j, result)
       PROVE  IInv'
  <2>1. jobs[j] \in JobRecords /\ jobs[j].status \in Unfinished \cup {"ambiguous"}
    BY <1>12 DEF Complete, Unfinished, Active, IInv, Now, Store
  <2>2. Ends(jobs[j], Completed(jobs[j], result))
    BY <2>1, JobsEnd
  <2>3. Update(j, Completed(jobs[j], result)) /\ UNCHANGED <<consented, faults>>
    BY <1>12 DEF Complete, Update
  <2>4. RowsKept
    BY <2>1, <2>2, <2>3, UpdateKeeps
  <2>5. QED
    BY <1>1, <1>3, <2>3, <2>4
<1>13. ASSUME NEW lost \in SUBSET InStatus(Now, Active), ExpireLeases(lost)
       PROVE  IInv'
  BY <1>1, <1>2, <1>3, <1>13, ExpireLeasesKeeps DEF ExpireLeases
<1>14. ASSUME Restart
       PROVE  IInv'
  BY <1>1, <1>2, <1>3, <1>14, RestartKeeps DEF Restart
<1>15. ASSUME WithdrawConsent
       PROVE  IInv'
  BY <1>2, <1>3, <1>15, WithdrawConsentKeeps DEF WithdrawConsent
<1>16. ASSUME GrantConsent
       PROVE  IInv'
  BY <1>1, <1>16 DEF GrantConsent, IInv, Now
<1>17. ASSUME UNCHANGED vars
       PROVE  IInv'
  BY <1>17 DEF vars, IInv, Now
<1>18. QED
  BY <1>5, <1>6, <1>7, <1>8, <1>9, <1>10, <1>11, <1>12, <1>13, <1>14, <1>15, <1>16, <1>17
     DEF Next, JobStep

-----------------------------------------------------------------------------
(* The theorems *)

\* What every transaction leaves: rows planned by their runs' files, claims that
\* keep their groups, released jobs with their needs, a queue within its bound,
\* and nothing to settle.
THEOREM Invariance == Spec => []IInv
<1>1. Init => IInv
  BY InitIsSound
<1>2. IInv /\ [Next]_vars => IInv'
  BY NextKeeps
<1>3. QED
  BY <1>1, <1>2, PTL DEF Spec

\* The rows are those of the store, no more jobs are unfinished than the queue
\* takes, and no more are active than the limit: the groups are cleared before
\* the queue is counted, and a claim counts what is active in its transaction.
THEOREM TypeIsCorrect == Spec => []TypeOK
<1>1. IInv => TypeOK
  BY DEF IInv, Sound, QueueIsBounded, TypeOK
<1>2. QED
  BY <1>1, Invariance, PTL

\* No two owners execute in one concurrency group, however runs and single jobs
\* share it: what holds a group when a claim is made keeps out whatever the
\* transactions admit, release or cancel until it ends.
THEOREM GroupsExclude == Spec => []GroupsAreExclusive
<1>1. ASSUME Sound(Now), NEW j \in InStatus(Now, Active), NEW k \in InStatus(Now, Active), j[1] # k[1],
             NEW g, g \in {GroupOf(Now, j[1]), Planned(Now, j).group}, g # NoGroup,
             g \in {GroupOf(Now, k[1]), Planned(Now, k).group}
      PROVE  FALSE
  <2>1. /\ k \in Ids /\ k \in Rows(Now) /\ k[1] \in Runs /\ Now.jobs[k].status \in Active
        /\ j \in Ids /\ j \in Rows(Now) /\ j[1] \in Runs /\ Now.jobs[j].status \in Active
    BY DEF InStatus, Rows, Ids
  <2>2. GroupGuard(Now, j) /\ GroupGuard(Now, k)
    BY <1>1 DEF Sound, GroupsAreHeld
  <2>3. \A i \in {j, k} : /\ HasClaim(Now.jobs[i]) /\ Now.jobs[i].status # "pending"
                          /\ IsHeld(Now, i[1]) /\ IsUnfinished(Now, i[1])
    BY <1>1, <2>1 DEF Sound, ClaimsFit, Active, IsHeld, IsUnfinished, RowsOf, Unfinished
  <2>4. ASSUME g = GroupOf(Now, j[1])
        PROVE  j[1] \in RunsIn(Now, g, k[1])
    BY <1>1, <2>1, <2>3, <2>4 DEF RunsIn
  <2>5. ASSUME g = GroupOf(Now, k[1])
        PROVE  k[1] \in RunsIn(Now, g, j[1])
    BY <1>1, <2>1, <2>3, <2>5 DEF RunsIn
  <2>6. ASSUME g = Planned(Now, k).group
        PROVE  k \in JobsIn(Now, g)
    BY <2>1, <2>6 DEF JobsIn, InStatus
  <2>7. CASE g = GroupOf(Now, j[1]) /\ g = GroupOf(Now, k[1])
    BY <1>1, <2>2, <2>3, <2>5, <2>7 DEF GroupGuard
  <2>8. CASE g = GroupOf(Now, j[1]) /\ g = Planned(Now, k).group
    BY <1>1, <2>2, <2>3, <2>6, <2>8 DEF GroupGuard
  <2>9. CASE g = Planned(Now, j).group /\ g = GroupOf(Now, k[1])
    BY <1>1, <2>2, <2>3, <2>5, <2>9 DEF GroupGuard
  <2>10. CASE g = Planned(Now, j).group /\ g = Planned(Now, k).group
    <3>1. k # j
      BY <1>1
    <3>2. QED
      BY <1>1, <2>2, <2>3, <2>6, <2>10, <3>1 DEF GroupGuard
  <2>11. QED
    BY <1>1, <2>7, <2>8, <2>9, <2>10
<1>2. IInv => GroupsAreExclusive
  BY <1>1 DEF IInv, GroupsAreExclusive
<1>3. QED
  BY <1>2, Invariance, PTL

\* A claim that was granted can be started: the run it belongs to is not
\* cancelled with the claim left live, and nothing that came into its groups
\* since stands before it.
THEOREM ClaimsStart == Spec => []ClaimsMayStart
<1>1. ASSUME IInv, NEW j \in InStatus(Now, {"claimed"})
      PROVE  MayGoOn(Now, j)
  <2>1. /\ j \in Ids /\ j \in Rows(Now) /\ Now.jobs[j].status = "claimed"
        /\ j \in InStatus(Now, Active) /\ Sound(Now) /\ Now \in Store
    BY <1>1 DEF InStatus, Rows, Active, IInv
  <2>2. GroupGuard(Now, j) /\ ParallelClaimGuard(Now, j) /\ IsHeld(Now, j[1])
    BY <2>1 DEF Sound, GroupsAreHeld, ClaimsFit, IsHeld, RowsOf, Active
  <2>3. RunClaimGuard(Now, j)
    <3>1. Now.jobs[j] \in JobRecords
      BY <2>1 DEF Store
    <3>2. Cancelled(Now.jobs[j]).status = "cancelled"
      BY <2>1, <3>1, CancelledJob
    <3>3. QED
      BY <2>1, <3>2 DEF Sound, CancelledRunsAreStopped, RunClaimGuard
  <2>4. WorkflowClaimGuard(Now, j)
    BY <2>2 DEF GroupGuard, WorkflowClaimGuard
  <2>5. OwnJobGroupHeld(Now, j)
    BY <2>1 DEF OwnJobGroupHeld, Active
  <2>6. JobClaimGuard(Now, j)
    BY <2>2, <2>5 DEF GroupGuard, JobClaimGuard
  <2>7. QED
    BY <2>2, <2>3, <2>4, <2>6 DEF MayGoOn
<1>2. IInv => ClaimsMayStart
  BY <1>1 DEF ClaimsMayStart
<1>3. QED
  BY <1>2, Invariance, PTL

\* Whatever was released had its needs, and keeps them: a job that ended for
\* certain is history, and no transaction rewrites it.
THEOREM ReleasedHadNeeds == Spec => []ReleasedJobsHadTheirNeeds
<1>1. IInv => ReleasedJobsHadTheirNeeds
  BY DEF IInv, Sound, HadNeeds, NeedsAreHistory, ReleasedJobsHadTheirNeeds, Now
<1>2. QED
  BY <1>1, Invariance, PTL

\* Both loops of settling end, whatever the rows are: every turn that changes
\* something ends a wait, cancels a job or cancels a run, and what they leave is
\* settled in every run.  The code has no bound on either loop.
THEOREM SettlingEnds ==
    ASSUME NEW s \in Store
    PROVE  /\ Settled(s) \in Store
           /\ \A r \in Runs : SettlingStep(Settled(s), r) = Settled(s)
  BY SettledFacts

\* Every transaction leaves all runs settled, those it never named among them: a
\* claim and a start give no run anything to do, and all others settle.
THEOREM RunsSettle == Spec => []RunsAreSettled
<1>1. IInv => RunsAreSettled
  BY SettledFacts DEF IInv, Quiet, RunsAreSettled
<1>2. QED
  BY <1>1, Invariance, PTL

=============================================================================
