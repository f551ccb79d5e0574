------------------------ MODULE RepositoryLockProofs ------------------------
(***************************************************************************)
(* Proofs about RepositoryLock, for any finite set of callers.  The        *)
(* inductive invariant is LockInvariant; every release and every caller    *)
(* that gives up goes through Dispatch, so the main lemmas say what        *)
(* Dispatch grants and that handing the lock over keeps the invariant.     *)
(***************************************************************************)
EXTENDS RepositoryLock, FiniteSetTheorems, TLAPS

\* A set of callers is finite.
LEMMA CallersFinite ==
  ASSUME NEW S \in SUBSET Callers
  PROVE  IsFiniteSet(S) /\ Cardinality(S) \in Nat
BY CallersAssumption, FS_Subset, FS_CardinalityType

\* Two disjoint sets of callers are counted separately.
LEMMA CardinalityDisjoint ==
  ASSUME NEW S \in SUBSET Callers, NEW T \in SUBSET Callers, S \cap T = {}
  PROVE  Cardinality(S \cup T) = Cardinality(S) + Cardinality(T)
<1>1. IsFiniteSet(S) /\ IsFiniteSet(T) /\ Cardinality(S) \in Nat /\ Cardinality(T) \in Nat
  BY CallersFinite
<1>2. Cardinality(S \cup T) = Cardinality(S) + Cardinality(T) - Cardinality(S \cap T)
  BY <1>1, FS_Union
<1>3. Cardinality(S \cap T) = 0
  BY FS_EmptySet
<1> QED BY <1>1, <1>2, <1>3

\* dequeueLocked takes out exactly the caller that gave up.
LEMMA WithoutElement ==
  ASSUME NEW q \in Seq(Callers), NEW i \in DOMAIN q, Distinct(q)
  PROVE  /\ Without(q, i) \in Seq(Callers)
         /\ Distinct(Without(q, i))
         /\ Elements(Without(q, i)) = Elements(q) \ {q[i]}
<1>1. Without(q, i) \in Seq(Callers) /\ DOMAIN Without(q, i) = 1..(Len(q) - 1)
  BY DEF Without
<1>2. Distinct(Without(q, i))
  BY DEF Without, Distinct
<1>3. ASSUME NEW c \in Elements(Without(q, i))
      PROVE  c \in Elements(q) \ {q[i]}
  BY DEF Without, Elements, Distinct
<1>4. ASSUME NEW k \in DOMAIN q, k # i
      PROVE  q[k] \in Elements(Without(q, i))
  <2> DEFINE m == IF k < i THEN k ELSE k - 1
  <2>1. m \in DOMAIN Without(q, i) /\ Without(q, i)[m] = q[k]
    BY <1>4 DEF Without
  <2> QED BY <2>1 DEF Elements
<1> QED BY <1>1, <1>2, <1>3, <1>4 DEF Elements

\* Splitting a queue after its first n callers.
LEMMA SplitQueue ==
  ASSUME NEW q \in Seq(Callers), Distinct(q), NEW n \in 0..Len(q)
  PROVE  LET front == {q[i] : i \in 1..n}
             rest == SubSeq(q, n + 1, Len(q))
         IN /\ rest \in Seq(Callers)
            /\ Distinct(rest)
            /\ Elements(rest) = Elements(q) \ front
            /\ front \subseteq Elements(q)
            /\ Cardinality(front) = n
<1> DEFINE front == {q[i] : i \in 1..n}
           rest == SubSeq(q, n + 1, Len(q))
<1>1. /\ rest \in Seq(Callers)
      /\ DOMAIN rest = 1..(Len(q) - n)
      /\ \A j \in 1..(Len(q) - n) : rest[j] = q[n + j]
  OBVIOUS
<1>2. Distinct(rest)
  BY <1>1 DEF Distinct
<1>3. ASSUME NEW k \in 1..Len(q), k \notin 1..n
      PROVE  q[k] \in Elements(rest)
  <2>1. k - n \in DOMAIN rest /\ rest[k - n] = q[k]
    BY <1>1, <1>3
  <2> QED BY <2>1 DEF Elements
<1>4. ASSUME NEW j \in DOMAIN rest
      PROVE  rest[j] \in Elements(q) \ front
  BY <1>1 DEF Elements, Distinct
<1>5. Elements(rest) = Elements(q) \ front
  BY <1>3, <1>4 DEF Elements
<1>6. Cardinality(front) = n
  <2> DEFINE f == [i \in 1..n |-> q[i]]
  <2>1. f \in Bijection(1..n, front)
    BY DEF Bijection, Injection, Surjection, IsInjective, Distinct
  <2> QED BY <2>1, FS_CountingElements DEF ExistsBijection
<1>7. front \subseteq Elements(q)
  BY DEF Elements
<1> HIDE DEF front, rest
<1>8. /\ rest \in Seq(Callers) /\ Distinct(rest) /\ Elements(rest) = Elements(q) \ front
      /\ front \subseteq Elements(q) /\ Cardinality(front) = n
  BY <1>1, <1>2, <1>5, <1>6, <1>7
<1> QED BY <1>8 DEF front, rest

Writers(S) == {c \in S : IsWriter(c)}
Readers(S) == {c \in S : ~IsWriter(c)}

\* dispatchLocked grants the lock to a set of queued callers: readers only, or
\* one writer when nobody reads, and the counts follow.
LEMMA DispatchGrants ==
  ASSUME NEW q \in Seq(Callers), Distinct(q), NEW r \in Nat, NEW ww,
         ww = Cardinality(Writers(Elements(q))),
         Dispatch(q, r, ww)
  PROVE  \E S \in SUBSET Elements(q) :
            /\ ready' = ready \cup S
            /\ queue' \in Seq(Callers)
            /\ Distinct(queue')
            /\ Elements(queue') = Elements(q) \ S
            /\ writersWaiting' = Cardinality(Writers(Elements(queue')))
            /\ readers' = r + Cardinality(Readers(S))
            /\ \/ writing' = FALSE /\ Writers(S) = {}
               \/ writing' = TRUE /\ readers' = 0 /\ \E w \in S : IsWriter(w) /\ S = {w}
<1>1. PICK n \in 0..Len(q) :
        /\ \A i \in 1..n : ~IsWriter(q[i])
        /\ n < Len(q) => IsWriter(q[n + 1])
        /\ LET granted == {q[i] : i \in 1..n}
               grantWriter == n < Len(q) /\ r + n = 0
           IN /\ readers' = r + n
              /\ writing' = grantWriter
              /\ writersWaiting' = IF grantWriter THEN ww - 1 ELSE ww
              /\ ready' = ready \cup granted \cup (IF grantWriter THEN {q[1]} ELSE {})
              /\ queue' = SubSeq(q, (IF grantWriter THEN 2 ELSE n + 1), Len(q))
  BY DEF Dispatch
<1> DEFINE front == {q[i] : i \in 1..n}
<1>2. Elements(q) \subseteq Callers
  BY DEF Elements
<1>3. CASE n < Len(q) /\ r + n = 0
  <2>1. n = 0 /\ r = 0 /\ Len(q) > 0 /\ IsWriter(q[1])
    BY <1>1, <1>3
  <2>2. /\ readers' = 0
        /\ writing' = TRUE
        /\ writersWaiting' = ww - 1
        /\ ready' = ready \cup {q[1]}
        /\ queue' = SubSeq(q, 2, Len(q))
    <3>1. /\ readers' = 0
          /\ writing' = TRUE
          /\ writersWaiting' = ww - 1
          /\ queue' = SubSeq(q, 2, Len(q))
      BY <1>1, <1>3, <2>1
    <3>2. ready' = ready \cup front \cup {q[1]}
      BY <1>1, <1>3
    <3>3. front = {}
      BY <2>1
    <3> QED BY <3>1, <3>2, <3>3
  <2>3. /\ queue' \in Seq(Callers)
        /\ Distinct(queue')
        /\ Elements(queue') = Elements(q) \ {q[1]}
    <3>1. 1 \in 0..Len(q)
      BY <2>1
    <3>2. {q[i] : i \in 1..1} = {q[1]}
      OBVIOUS
    <3>3. /\ SubSeq(q, 1 + 1, Len(q)) \in Seq(Callers)
          /\ Distinct(SubSeq(q, 1 + 1, Len(q)))
          /\ Elements(SubSeq(q, 1 + 1, Len(q))) = Elements(q) \ {q[i] : i \in 1..1}
      BY <3>1, SplitQueue
    <3>4. queue' = SubSeq(q, 1 + 1, Len(q))
      BY <2>2
    <3> QED BY <3>2, <3>3, <3>4
  <2>4. q[1] \in Elements(q)
    BY <2>1 DEF Elements
  <2>5. Writers(Elements(queue')) = Writers(Elements(q)) \ {q[1]}
    BY <2>3 DEF Writers
  <2>6. q[1] \in Writers(Elements(q)) /\ IsFiniteSet(Writers(Elements(q)))
    BY <2>1, <2>4, <1>2, CallersFinite DEF Writers
  <2>7. writersWaiting' = Cardinality(Writers(Elements(queue')))
    BY <2>2, <2>5, <2>6, FS_RemoveElement
  <2>8. Readers({q[1]}) = {}
    BY <2>1 DEF Readers
  <2>9. readers' = r + Cardinality(Readers({q[1]}))
    <3>1. Cardinality(Readers({q[1]})) = 0
      BY <2>8, FS_EmptySet
    <3> QED BY <2>1, <2>2, <3>1
  <2> QED BY <2>1, <2>2, <2>3, <2>4, <2>7, <2>9
<1>4. CASE ~(n < Len(q) /\ r + n = 0)
  <2>1. /\ readers' = r + n
        /\ writing' = FALSE
        /\ writersWaiting' = ww
        /\ ready' = ready \cup front
        /\ queue' = SubSeq(q, n + 1, Len(q))
    BY <1>1, <1>4
  <2>2. /\ queue' \in Seq(Callers)
        /\ Distinct(queue')
        /\ Elements(queue') = Elements(q) \ front
        /\ front \subseteq Elements(q)
        /\ Cardinality(front) = n
    BY <2>1, SplitQueue
  <2>3. Writers(front) = {} /\ Readers(front) = front
    BY <1>1 DEF Writers, Readers
  <2>4. Writers(Elements(queue')) = Writers(Elements(q))
    BY <2>2, <2>3 DEF Writers
  <2> HIDE DEF front
  <2> QED BY <2>1, <2>2, <2>3, <2>4
<1> QED BY <1>3, <1>4

\* Caller c leaves the lock or the queue, and Dispatch hands the lock on.
LEMMA HandOver ==
  ASSUME LockInvariant, NEW c \in Callers, pc[c] # "idle",
         NEW q \in Seq(Callers), Distinct(q), Elements(q) = Queued \ {c},
         NEW r \in Nat, r = Cardinality(ReadHolders \ {c}),
         WriteHolders \subseteq {c}, c \notin ready,
         Dispatch(q, r, Cardinality(Writers(Elements(q)))),
         pc' = [pc EXCEPT ![c] = "idle"],
         call' = [call EXCEPT ![c] = "none"],
         generation' = generation,
         waiters' = Cardinality(Waiting \ {c})
  PROVE  LockInvariant'
<1>1. PICK S \in SUBSET Elements(q) :
            /\ ready' = ready \cup S
            /\ queue' \in Seq(Callers)
            /\ Distinct(queue')
            /\ Elements(queue') = Elements(q) \ S
            /\ writersWaiting' = Cardinality(Writers(Elements(queue')))
            /\ readers' = r + Cardinality(Readers(S))
            /\ \/ writing' = FALSE /\ Writers(S) = {}
               \/ writing' = TRUE /\ readers' = 0 /\ \E w \in S : IsWriter(w) /\ S = {w}
  BY DispatchGrants
<1> USE DEF LockInvariant, LockTypeOK
<1>2. /\ S \subseteq Callers /\ c \notin S
      /\ \A d \in S : pc[d] = "waiting" /\ d \notin ready
      /\ ready' \subseteq Callers
      /\ Elements(queue') \subseteq Callers
  BY <1>1 DEF Elements, Queued, WaitersAreCounted, Waiting
<1>3. \A d \in Callers \ {c} : pc'[d] = pc[d] /\ call'[d] = call[d] /\ (IsWriter(d)' <=> IsWriter(d))
  BY DEF IsWriter
<1>4. pc'[c] = "idle" /\ c \notin ready' /\ c \notin Elements(queue')
  BY <1>1, <1>2
<1>5. ReadHolders' = (ReadHolders \ {c}) \cup Readers(S)
  BY <1>1, <1>2, <1>3, <1>4 DEF ReadHolders, Readers
<1>6. WriteHolders' = Writers(S)
  BY <1>1, <1>2, <1>3, <1>4 DEF WriteHolders, Writers
<1>7. readers' = Cardinality(ReadHolders') /\ readers' \in Nat
  <2>1. (ReadHolders \ {c}) \cap Readers(S) = {}
    BY <1>2 DEF ReadHolders, Readers
  <2>2. Readers(S) \in SUBSET Callers /\ ReadHolders \ {c} \in SUBSET Callers
    BY <1>2 DEF ReadHolders, Readers
  <2>3. Cardinality(Readers(S)) \in Nat
    BY <2>2, CallersFinite
  <2>4. Cardinality((ReadHolders \ {c}) \cup Readers(S))
          = Cardinality(ReadHolders \ {c}) + Cardinality(Readers(S))
    BY <2>1, <2>2, CardinalityDisjoint
  <2> QED BY <1>1, <1>5, <2>3, <2>4
<1>8. HoldersAreCounted'
  BY <1>1, <1>6, <1>7 DEF HoldersAreCounted, Writers
<1>9. Waiting' = Waiting \ {c}
  BY <1>3, <1>4 DEF Waiting
<1>10. Queued' \cup ready' = Waiting' /\ Queued' \cap ready' = {}
  BY <1>1, <1>2, <1>9 DEF Queued, WaitersAreCounted
<1>11. {d \in Queued' : IsWriter(d)'} = Writers(Elements(queue'))
  BY <1>2, <1>3, <1>4 DEF Queued, Writers
<1>12. WaitersAreCounted'
  BY <1>1, <1>9, <1>10, <1>11 DEF WaitersAreCounted
<1>13. LockTypeOK'
  <2>1. writersWaiting' \in Nat
    BY <1>1, <1>2, CallersFinite DEF Writers
  <2>2. waiters' \in Nat
    BY CallersFinite DEF Waiting
  <2> QED BY <1>1, <1>2, <1>7, <2>1, <2>2 DEF PcValues, CallValues
<1> QED BY <1>1, <1>8, <1>10, <1>12, <1>13

\* A caller that gets or queues for the lock by itself keeps the invariant.
LEMMA AcquireKeepsInvariant ==
  ASSUME LockInvariant, NEW c \in Callers, Acquire(c)
  PROVE  LockInvariant'
<1> USE DEF LockInvariant, LockTypeOK
<1>1. pc[c] = "idle" /\ c \notin ready /\ c \notin Queued /\ c \notin Waiting
      /\ c \notin ReadHolders /\ c \notin WriteHolders
  BY DEF Acquire, AcquireWrite, AcquireRead, TryWrite, TryRead, WaitersAreCounted, Waiting,
         ReadHolders, WriteHolders
<1>2. Queued \subseteq Callers /\ ready \subseteq Callers /\ ReadHolders \subseteq Callers
      /\ Waiting \subseteq Callers
  BY DEF Queued, Elements, ReadHolders, Waiting
<1>3. CASE \E m \in ReadCalls \cup WriteCalls : Enqueue(c, m) /\ call' = [call EXCEPT ![c] = m]
           /\ (m \in WriteCalls => ~WriteLockFree) /\ (m \in ReadCalls => ~ReadLockFree)
  <2>1. PICK m \in ReadCalls \cup WriteCalls : Enqueue(c, m) /\ call' = [call EXCEPT ![c] = m]
    BY <1>3
  <2>2. /\ queue' = Append(queue, c)
        /\ writersWaiting' = IF m \in WriteCalls THEN writersWaiting + 1 ELSE writersWaiting
        /\ waiters' = waiters + 1
        /\ pc' = [pc EXCEPT ![c] = "waiting"]
        /\ UNCHANGED <<readers, writing, ready, generation>>
    BY <2>1 DEF Enqueue
  <2>3. /\ queue' \in Seq(Callers) /\ Len(queue') = Len(queue) + 1
        /\ \A i \in 1..Len(queue) : queue'[i] = queue[i]
        /\ queue'[Len(queue) + 1] = c
    BY <2>2
  <2>4. Distinct(queue')
    BY <2>3, <1>1 DEF Distinct, Queued, Elements
  <2>5. Queued' = Queued \cup {c}
    <3>1. ASSUME NEW d \in Queued' PROVE d \in Queued \cup {c}
      BY <2>3 DEF Queued, Elements
    <3>2. ASSUME NEW d \in Queued PROVE d \in Queued'
      BY <2>3 DEF Queued, Elements
    <3>3. c \in Queued'
      BY <2>3 DEF Queued, Elements
    <3> QED BY <3>1, <3>2, <3>3
  <2>6. \A d \in Callers \ {c} : pc'[d] = pc[d] /\ call'[d] = call[d]
    BY <2>1, <2>2
  <2>7. pc'[c] = "waiting" /\ call'[c] = m
    BY <2>1, <2>2
  <2>8. ReadHolders' = ReadHolders /\ WriteHolders' = WriteHolders
    BY <1>1, <2>2, <2>6, <2>7 DEF ReadHolders, WriteHolders, IsWriter
  <2>9. HoldersAreCounted'
    BY <2>2, <2>8 DEF HoldersAreCounted
  <2>10. Waiting' = Waiting \cup {c}
    BY <2>6, <2>7 DEF Waiting
  <2>11. waiters' = Cardinality(Waiting')
    BY <1>1, <1>2, <2>2, <2>10, CallersFinite, FS_AddElement DEF WaitersAreCounted
  <2>12. writersWaiting' = Cardinality({d \in Queued' : IsWriter(d)'})
    <3>1. CASE m \in WriteCalls
      <4>1. {d \in Queued' : IsWriter(d)'} = {d \in Queued : IsWriter(d)} \cup {c}
        BY <1>1, <1>2, <2>5, <2>6, <2>7, <3>1 DEF IsWriter
      <4>2. {d \in Queued : IsWriter(d)} \in SUBSET Callers /\ c \notin {d \in Queued : IsWriter(d)}
        BY <1>1, <1>2
      <4> QED BY <2>2, <3>1, <4>1, <4>2, CallersFinite, FS_AddElement DEF WaitersAreCounted
    <3>2. CASE m \notin WriteCalls
      <4>1. {d \in Queued' : IsWriter(d)'} = {d \in Queued : IsWriter(d)}
        BY <1>1, <1>2, <2>5, <2>6, <2>7, <3>2 DEF IsWriter
      <4> QED BY <2>2, <3>2, <4>1 DEF WaitersAreCounted
    <3> QED BY <3>1, <3>2
  <2>13. WaitersAreCounted'
    BY <2>2, <2>5, <2>10, <2>11, <2>12 DEF WaitersAreCounted
  <2>14. LockTypeOK'
    BY <2>1, <2>2, <2>3 DEF PcValues, CallValues
  <2> QED BY <1>1, <2>2, <2>4, <2>5, <2>9, <2>13, <2>14
<1>4. CASE /\ WriteLockFree
           /\ writing' = TRUE
           /\ \E m \in WriteCalls \cup {"TryLock", "TryLockGated"} :
                 call' = [call EXCEPT ![c] = m] /\ pc' = [pc EXCEPT ![c] = AfterWriteGrant(m)]
           /\ UNCHANGED <<readers, writersWaiting, queue, ready, generation, waiters>>
  <2>1. PICK m \in WriteCalls \cup {"TryLock", "TryLockGated"} :
            call' = [call EXCEPT ![c] = m] /\ pc' = [pc EXCEPT ![c] = AfterWriteGrant(m)]
    BY <1>4
  <2>2. \A d \in Callers \ {c} : pc'[d] = pc[d] /\ call'[d] = call[d]
    BY <2>1
  <2>3. pc'[c] \in {"gate", "writing"}
    BY <2>1 DEF AfterWriteGrant
  <2>4. ReadHolders' = ReadHolders /\ WriteHolders' = WriteHolders \cup {c}
    BY <1>1, <1>4, <2>2, <2>3 DEF ReadHolders, WriteHolders, IsWriter
  <2>5. WriteHolders = {} /\ readers = 0
    BY <1>4 DEF WriteLockFree, HoldersAreCounted
  <2>6. HoldersAreCounted'
    BY <1>4, <2>4, <2>5 DEF HoldersAreCounted
  <2>7. Queued' = Queued /\ Waiting' = Waiting
        /\ {d \in Queued' : IsWriter(d)'} = {d \in Queued : IsWriter(d)}
    BY <1>1, <1>2, <1>4, <2>2, <2>3 DEF Queued, Waiting, IsWriter
  <2>8. WaitersAreCounted'
    BY <1>4, <2>7 DEF WaitersAreCounted
  <2>9. LockTypeOK'
    BY <1>4, <2>1 DEF PcValues, CallValues, AfterWriteGrant
  <2> QED BY <1>4, <2>6, <2>7, <2>8, <2>9
<1>5. CASE /\ ReadLockFree
           /\ readers' = readers + 1
           /\ \E m \in ReadCalls \cup {"TryRLock"} : call' = [call EXCEPT ![c] = m]
           /\ pc' = [pc EXCEPT ![c] = "reading"]
           /\ UNCHANGED <<writing, writersWaiting, queue, ready, generation, waiters>>
  <2>1. \A d \in Callers \ {c} : pc'[d] = pc[d] /\ call'[d] = call[d]
    BY <1>5
  <2>2. pc'[c] = "reading"
    BY <1>5
  <2>3. ReadHolders' = ReadHolders \cup {c} /\ WriteHolders' = WriteHolders
    BY <1>1, <1>5, <2>1, <2>2 DEF ReadHolders, WriteHolders, IsWriter
  <2>4. readers' = Cardinality(ReadHolders')
    BY <1>1, <1>2, <1>5, <2>3, CallersFinite, FS_AddElement DEF HoldersAreCounted
  <2>5. HoldersAreCounted'
    BY <1>5, <2>3, <2>4 DEF HoldersAreCounted, ReadLockFree
  <2>6. Queued' = Queued /\ Waiting' = Waiting
        /\ {d \in Queued' : IsWriter(d)'} = {d \in Queued : IsWriter(d)}
    BY <1>1, <1>2, <1>5, <2>1, <2>2 DEF Queued, Waiting, IsWriter
  <2>7. WaitersAreCounted'
    BY <1>5, <2>6 DEF WaitersAreCounted
  <2>8. LockTypeOK'
    BY <1>5 DEF PcValues, CallValues
  <2> QED BY <1>5, <2>5, <2>6, <2>7, <2>8
<1> QED BY <1>3, <1>4, <1>5 DEF Acquire, AcquireWrite, AcquireRead, TryWrite, TryRead, Gated,
           AfterWriteGrant, ReadCalls, WriteCalls

\* A woken caller goes on holding what it was granted.
LEMMA WakeKeepsInvariant ==
  ASSUME LockInvariant, NEW c \in Callers, Wake(c)
  PROVE  LockInvariant' /\ ReadHolders' = ReadHolders /\ WriteHolders' = WriteHolders
<1> USE DEF LockInvariant, LockTypeOK, Wake
<1>1. \A d \in Callers \ {c} : pc'[d] = pc[d]
  OBVIOUS
<1>2. pc'[c] = IF IsWriter(c) THEN AfterWriteGrant(call[c]) ELSE "reading"
  OBVIOUS
<1>3. ReadHolders' = ReadHolders /\ WriteHolders' = WriteHolders
  BY <1>1, <1>2 DEF ReadHolders, WriteHolders, IsWriter, AfterWriteGrant
<1>4. HoldersAreCounted'
  BY <1>3 DEF HoldersAreCounted
<1>5. Waiting' = Waiting \ {c} /\ Queued' = Queued /\ c \in Waiting
      /\ {d \in Queued' : IsWriter(d)'} = {d \in Queued : IsWriter(d)}
  BY <1>1, <1>2 DEF Waiting, Queued, IsWriter, AfterWriteGrant
<1>6. waiters' = Cardinality(Waiting') /\ waiters' \in Nat
  <2>1. Waiting \in SUBSET Callers /\ Waiting' \in SUBSET Callers
    BY <1>5 DEF Waiting
  <2>2. Cardinality(Waiting') = Cardinality(Waiting) - 1
    BY <1>5, <2>1, CallersFinite, FS_RemoveElement
  <2> QED BY <2>1, <2>2, CallersFinite DEF WaitersAreCounted
<1>7. WaitersAreCounted'
  <2>1. Queued' \cup ready' = Waiting'
    BY <1>5 DEF WaitersAreCounted
  <2> QED BY <1>5, <1>6, <2>1 DEF WaitersAreCounted
<1>8. LockTypeOK'
  BY <1>6 DEF PcValues, AfterWriteGrant
<1> QED BY <1>3, <1>4, <1>5, <1>7, <1>8

\* A holder that releases the write lock keeps the invariant.
LEMMA ReleaseKeepsInvariant ==
  ASSUME LockInvariant, NEW c \in Callers, Release(c)
  PROVE  LockInvariant'
<1> USE DEF LockInvariant, LockTypeOK
<1>1. pc[c] \in {"gate", "releasing", "writing", "reading"}
  BY DEF Release, RefuseGate, Unlock, UnlockWithoutRefChanges, RUnlock
<1>2. c \notin Waiting /\ c \notin ready /\ c \notin Queued
  BY <1>1 DEF WaitersAreCounted, Waiting
<1>3. Elements(queue) = Queued \ {c} /\ Waiting \ {c} = Waiting
  BY <1>2 DEF Queued
<1>4. /\ pc' = [pc EXCEPT ![c] = "idle"]
      /\ call' = [call EXCEPT ![c] = "none"]
      /\ generation' = generation /\ waiters' = Cardinality(Waiting \ {c})
  BY <1>3 DEF Release, RefuseGate, Unlock, UnlockWithoutRefChanges, RUnlock, ReleaseWriteLock,
     WaitersAreCounted
<1>5. writersWaiting = Cardinality(Writers(Elements(queue)))
  BY DEF WaitersAreCounted, Writers, Queued
<1>6. CASE pc[c] = "reading"
  <2>1. Dispatch(queue, readers - 1, writersWaiting)
    BY <1>6 DEF Release, RefuseGate, Unlock, UnlockWithoutRefChanges, RUnlock
  <2>2. c \in ReadHolders /\ ReadHolders \in SUBSET Callers
    BY <1>6 DEF ReadHolders
  <2>3. readers - 1 = Cardinality(ReadHolders \ {c}) /\ readers - 1 \in Nat
    <3>1. Cardinality(ReadHolders \ {c}) = Cardinality(ReadHolders) - 1
      BY <2>2, CallersFinite, FS_RemoveElement
    <3>2. Cardinality(ReadHolders \ {c}) \in Nat
      BY <2>2, CallersFinite
    <3> QED BY <3>1, <3>2 DEF HoldersAreCounted
  <2>4. readers # 0
    BY <2>3
  <2>5. WriteHolders = {}
    BY <2>4 DEF HoldersAreCounted
  <2> QED BY <1>1, <1>2, <1>3, <1>4, <1>5, <2>1, <2>3, <2>5, HandOver
<1>7. CASE pc[c] # "reading"
  <2>1. Dispatch(queue, readers, writersWaiting)
    BY <1>7 DEF Release, RefuseGate, Unlock, UnlockWithoutRefChanges, RUnlock, ReleaseWriteLock
  <2>2. c \in WriteHolders /\ c \notin ReadHolders
    BY <1>1, <1>2, <1>7 DEF WriteHolders, ReadHolders
  <2>3. WriteHolders \subseteq {c} /\ ReadHolders \ {c} = ReadHolders
    BY <2>2 DEF HoldersAreCounted
  <2>4. readers = Cardinality(ReadHolders \ {c}) /\ readers \in Nat
    BY <2>3 DEF HoldersAreCounted
  <2> QED BY <1>1, <1>2, <1>3, <1>4, <1>5, <2>1, <2>3, <2>4, HandOver
<1> QED BY <1>6, <1>7

\* A caller that gives up leaves nothing behind.
LEMMA GiveUpKeepsInvariant ==
  ASSUME LockInvariant, NEW c \in Callers, GiveUp(c)
  PROVE  LockInvariant'
<1> USE DEF LockInvariant, LockTypeOK
<1> DEFINE ww == IF IsWriter(c) THEN writersWaiting - 1 ELSE writersWaiting
<1>1. PICK i \in DOMAIN queue :
         /\ queue[i] = c
         /\ IF writing
            THEN /\ queue' = Without(queue, i)
                 /\ writersWaiting' = ww
                 /\ UNCHANGED <<readers, writing, ready>>
            ELSE Dispatch(Without(queue, i), readers, ww)
  BY DEF GiveUp
<1>2. /\ pc[c] = "waiting"
      /\ pc' = [pc EXCEPT ![c] = "idle"]
      /\ call' = [call EXCEPT ![c] = "none"]
      /\ generation' = generation
      /\ waiters' = waiters - 1
  BY DEF GiveUp
<1> DEFINE rest == Without(queue, i)
<1>3. rest \in Seq(Callers) /\ Distinct(rest) /\ Elements(rest) = Queued \ {c}
  BY <1>1, WithoutElement DEF Queued
<1>4. c \in Queued /\ c \notin ready /\ c \in Waiting /\ Queued \subseteq Callers
  BY <1>1 DEF Queued, Elements, WaitersAreCounted, Waiting
<1>5. ww = Cardinality(Writers(Elements(rest)))
  <2>1. Writers(Elements(rest)) = Writers(Queued) \ {c} /\ Writers(Queued) \in SUBSET Callers
    BY <1>3, <1>4 DEF Writers
  <2>2. writersWaiting = Cardinality(Writers(Queued))
    BY DEF WaitersAreCounted, Writers
  <2>3. c \in Writers(Queued) <=> IsWriter(c)
    BY <1>4 DEF Writers
  <2>4. Cardinality(Writers(Queued) \ {c})
          = IF c \in Writers(Queued) THEN Cardinality(Writers(Queued)) - 1 ELSE Cardinality(Writers(Queued))
    BY <2>1, CallersFinite, FS_RemoveElement
  <2> QED BY <2>1, <2>2, <2>3, <2>4
<1>6. waiters' = Cardinality(Waiting \ {c})
  <2>1. Waiting \in SUBSET Callers
    BY DEF Waiting
  <2>2. Cardinality(Waiting \ {c}) = Cardinality(Waiting) - 1
    BY <1>4, <2>1, CallersFinite, FS_RemoveElement
  <2> QED BY <1>2, <2>2 DEF WaitersAreCounted
<1>7. c \notin ReadHolders /\ c \notin WriteHolders
  BY <1>2, <1>4 DEF ReadHolders, WriteHolders
<1> HIDE DEF ww, rest
<1>8. CASE ~writing
  <2>1. Dispatch(rest, readers, Cardinality(Writers(Elements(rest))))
    BY <1>1, <1>5, <1>8 DEF rest, ww
  <2>2. WriteHolders \subseteq {c} /\ readers = Cardinality(ReadHolders \ {c}) /\ readers \in Nat
    <3>1. ReadHolders \ {c} = ReadHolders
      BY <1>7
    <3> QED BY <1>8, <3>1 DEF HoldersAreCounted
  <2>3. pc[c] # "idle"
    BY <1>2
  <2> QED BY <1>2, <1>3, <1>4, <1>6, <2>1, <2>2, <2>3, HandOver
<1>9. CASE writing
  <2>1. queue' = rest /\ writersWaiting' = ww /\ UNCHANGED <<readers, writing, ready>>
    BY <1>1, <1>9 DEF rest, ww
  <2>2. \A d \in Callers \ {c} : pc'[d] = pc[d] /\ call'[d] = call[d]
    BY <1>2
  <2>3. pc'[c] = "idle"
    BY <1>2
  <2>4. ReadHolders' = ReadHolders /\ WriteHolders' = WriteHolders
    BY <1>4, <1>7, <2>1, <2>2, <2>3 DEF ReadHolders, WriteHolders, IsWriter
  <2>5. HoldersAreCounted'
    BY <2>1, <2>4 DEF HoldersAreCounted
  <2>6. Waiting' = Waiting \ {c} /\ Queued' = Queued \ {c}
    BY <1>3, <2>1, <2>2, <2>3 DEF Waiting, Queued
  <2>7. {d \in Queued' : IsWriter(d)'} = Writers(Elements(rest))
    BY <1>3, <1>4, <2>1, <2>2 DEF Writers, IsWriter, Queued
  <2>8. Queued' \cup ready' = Waiting'
    BY <1>4, <2>1, <2>6 DEF WaitersAreCounted
  <2>9. WaitersAreCounted'
    BY <1>5, <1>6, <2>1, <2>6, <2>7, <2>8 DEF WaitersAreCounted
  <2>10. waiters' \in Nat /\ writersWaiting' \in Nat
    <3>1. Writers(Elements(rest)) \in SUBSET Callers /\ Waiting \ {c} \in SUBSET Callers
      BY <1>3, <1>4 DEF Writers, Waiting
    <3> QED BY <1>5, <1>6, <2>1, <3>1, CallersFinite
  <2>11. LockTypeOK'
    BY <1>2, <1>3, <2>1, <2>10 DEF PcValues, CallValues
  <2> QED BY <1>3, <2>1, <2>5, <2>6, <2>9, <2>11
<1> QED BY <1>8, <1>9

\* The two steps of a writer that move nobody in or out.
LEMMA WriterStepKeepsInvariant ==
  ASSUME LockInvariant, NEW c \in Callers, PassGate(c) \/ AdvanceGeneration(c)
  PROVE  LockInvariant' /\ ReadHolders' = ReadHolders /\ WriteHolders' = WriteHolders
<1> USE DEF LockInvariant, LockTypeOK
<1>1. /\ pc[c] \in {"gate", "writing"}
      /\ pc' \in [Callers -> PcValues]
      /\ pc'[c] \in {"writing", "releasing"}
      /\ \A d \in Callers \ {c} : pc'[d] = pc[d]
      /\ generation' \in 0..MaxGeneration
      /\ UNCHANGED <<readers, writing, writersWaiting, queue, ready, waiters, call>>
  BY MaxGenerationAssumption DEF PassGate, AdvanceGeneration, PcValues
<1>2. ReadHolders' = ReadHolders /\ WriteHolders' = WriteHolders
  BY <1>1 DEF ReadHolders, WriteHolders, IsWriter
<1>3. Waiting' = Waiting /\ Queued' = Queued
      /\ {d \in Queued' : IsWriter(d)'} = {d \in Queued : IsWriter(d)}
  BY <1>1 DEF Waiting, Queued, IsWriter
<1>4. HoldersAreCounted' /\ WaitersAreCounted'
  BY <1>1, <1>2, <1>3 DEF HoldersAreCounted, WaitersAreCounted
<1> QED BY <1>1, <1>2, <1>3, <1>4

\* The counts of the lock name its holders and its waiters, in every
\* reachable state and for any number of callers.
LEMMA InitInvariant == Init => LockInvariant
<1> SUFFICES ASSUME Init PROVE LockInvariant
  OBVIOUS
<1> USE DEF Init
<1>1. ReadHolders = {} /\ WriteHolders = {} /\ Waiting = {} /\ Queued = {}
  BY DEF ReadHolders, WriteHolders, Waiting, Queued, Elements
<1>2. {c \in Queued : IsWriter(c)} = {}
  BY <1>1
<1>3. HoldersAreCounted /\ WaitersAreCounted
  BY <1>1, <1>2, FS_EmptySet DEF HoldersAreCounted, WaitersAreCounted
<1>4. LockTypeOK
  <2>1. pc \in [Callers -> PcValues] /\ call \in [Callers -> CallValues]
    BY DEF PcValues, CallValues
  <2>2. queue \in Seq(Callers) /\ generation \in 0..MaxGeneration
    BY MaxGenerationAssumption
  <2> QED BY <2>1, <2>2 DEF LockTypeOK
<1> QED BY <1>1, <1>3, <1>4 DEF LockInvariant, Distinct

\* The lock knows its holders and its waiters: every caller is counted once,
\* and is queued or was handed the lock.
THEOREM InvariantHolds == Spec => []LockInvariant
<1>1. LockInvariant /\ [Next]_lockVars => LockInvariant'
  <2> SUFFICES ASSUME LockInvariant, [Next]_lockVars PROVE LockInvariant'
    OBVIOUS
  <2>1. ASSUME NEW c \in Callers, Step(c) PROVE LockInvariant'
    BY <2>1, AcquireKeepsInvariant, WakeKeepsInvariant, GiveUpKeepsInvariant,
       WriterStepKeepsInvariant, ReleaseKeepsInvariant DEF Step
  <2>2. CASE UNCHANGED lockVars
    BY <2>2 DEF lockVars, LockInvariant, LockTypeOK, Distinct, Queued, Elements, HoldersAreCounted,
       WaitersAreCounted, ReadHolders, WriteHolders, Waiting, IsWriter
  <2> QED BY <2>1, <2>2 DEF Next
<1> QED BY InitInvariant, <1>1, PTL DEF Spec

\* Mutual exclusion and exact counting.
THEOREM HoldersCounted == Spec => []HoldersAreCounted
<1>1. LockInvariant => HoldersAreCounted
  BY DEF LockInvariant
<1> QED BY InvariantHolds, <1>1, PTL

\* Waiting() and writersWaiting are exact.
THEOREM WaitersCounted == Spec => []WaitersAreCounted
<1>1. LockInvariant => WaitersAreCounted
  BY DEF LockInvariant
<1> QED BY InvariantHolds, <1>1, PTL

-----------------------------------------------------------------------------
(* No lost wake-up. *)

\* Whatever dispatchLocked leaves in the queue is kept out by a holder.
LEMMA DispatchBlocks ==
  ASSUME NEW q \in Seq(Callers), NEW r \in Nat, NEW ww, Dispatch(q, r, ww)
  PROVE  Len(queue') > 0 =>
            \/ writing' = TRUE
            \/ readers' > 0 /\ Head(queue') \in Elements(q) /\ IsWriter(Head(queue'))
<1>1. PICK n \in 0..Len(q) :
        /\ n < Len(q) => IsWriter(q[n + 1])
        /\ readers' = r + n
        /\ writing' = (n < Len(q) /\ r + n = 0)
        /\ queue' = SubSeq(q, (IF n < Len(q) /\ r + n = 0 THEN 2 ELSE n + 1), Len(q))
  BY DEF Dispatch
<1>2. CASE n < Len(q) /\ r + n = 0
  BY <1>1, <1>2
<1>3. CASE ~(n < Len(q) /\ r + n = 0)
  <2>1. queue' = SubSeq(q, n + 1, Len(q)) /\ readers' = r + n
    BY <1>1, <1>3
  <2>2. CASE n < Len(q)
    <3>1. readers' > 0 /\ IsWriter(q[n + 1])
      BY <1>1, <1>3, <2>1, <2>2
    <3>2. Head(queue') = q[n + 1] /\ q[n + 1] \in Elements(q)
      BY <2>1, <2>2 DEF Elements
    <3> QED BY <3>1, <3>2
  <2>3. CASE n = Len(q)
    <3>1. Len(queue') = 0
      BY <2>1, <2>3
    <3> QED BY <3>1
  <2>4. n < Len(q) \/ n = Len(q)
    OBVIOUS
  <2> QED BY <2>2, <2>3, <2>4
<1> QED BY <1>2, <1>3

\* The lock is never free with a caller queued: whoever is first in the queue
\* is kept out by a holder.
THEOREM QueueBlocked == Spec => []QueueIsBlocked
<1>1. Init => QueueIsBlocked
  BY DEF Init, QueueIsBlocked
<1>2. LockInvariant /\ QueueIsBlocked /\ [Next]_lockVars => QueueIsBlocked'
  <2> SUFFICES ASSUME LockInvariant, QueueIsBlocked, [Next]_lockVars PROVE QueueIsBlocked'
    OBVIOUS
  <2> USE DEF LockInvariant, LockTypeOK
  <2>1. ASSUME NEW c \in Callers, NEW m \in ReadCalls \cup WriteCalls, pc[c] = "idle",
               Enqueue(c, m), call' = [call EXCEPT ![c] = m],
               m \in WriteCalls => ~WriteLockFree, m \in ReadCalls => ~ReadLockFree
        PROVE  QueueIsBlocked'
    <3>1. queue' = Append(queue, c) /\ UNCHANGED <<readers, writing>>
      BY <2>1 DEF Enqueue
    <3>2. CASE Len(queue) = 0
      <4>1. Head(queue') = c /\ call'[c] = m
        BY <2>1, <3>1, <3>2
      <4>2. writersWaiting = 0
        <5>1. {d \in Queued : IsWriter(d)} = {}
          BY <3>2 DEF Queued, Elements
        <5> QED BY <5>1, FS_EmptySet DEF WaitersAreCounted
      <4>3. writing \/ (m \in WriteCalls /\ readers > 0)
        BY <2>1, <3>2, <4>2 DEF WriteLockFree, ReadLockFree, ReadCalls, WriteCalls
      <4> QED BY <3>1, <4>1, <4>3 DEF QueueIsBlocked, IsWriter
    <3>3. CASE Len(queue) > 0
      <4>1. Head(queue') = Head(queue) /\ Head(queue) \in Queued
        BY <3>1, <3>3 DEF Queued, Elements
      <4>2. Head(queue) # c /\ Head(queue) \in Callers
        BY <2>1, <4>1 DEF WaitersAreCounted, Waiting
      <4> QED BY <2>1, <3>1, <3>3, <4>1, <4>2 DEF QueueIsBlocked, IsWriter
    <3> QED BY <3>2, <3>3
  <2>2. ASSUME NEW c \in Callers, pc[c] = "idle", WriteLockFree, queue' = queue
        PROVE  QueueIsBlocked'
    BY <2>2 DEF WriteLockFree, QueueIsBlocked
  <2>3. ASSUME NEW c \in Callers, NEW m, pc[c] = "idle", readers' = readers + 1,
               UNCHANGED <<writing, queue>>, call' = [call EXCEPT ![c] = m]
        PROVE  QueueIsBlocked'
    <3>1. CASE Len(queue) > 0
      <4>1. Head(queue) \in Queued
        BY <3>1 DEF Queued, Elements
      <4>2. Head(queue) # c /\ Head(queue) \in Callers
        BY <2>3, <4>1 DEF WaitersAreCounted, Waiting
      <4> QED BY <2>3, <3>1, <4>2 DEF QueueIsBlocked, IsWriter
    <3>2. CASE Len(queue) = 0
      BY <2>3, <3>2 DEF QueueIsBlocked
    <3> QED BY <3>1, <3>2
  <2>4. ASSUME NEW c \in Callers, NEW q \in Seq(Callers), NEW r \in Nat, NEW ww, c \notin Elements(q),
               Dispatch(q, r, ww), call' = [call EXCEPT ![c] = "none"]
        PROVE  QueueIsBlocked'
    <3>1. Elements(q) \subseteq Callers
      BY DEF Elements
    <3> QED BY <2>4, <3>1, DispatchBlocks DEF QueueIsBlocked, IsWriter
  <2>5. ASSUME NEW c \in Callers, Acquire(c) PROVE QueueIsBlocked'
    BY <2>1, <2>2, <2>3, <2>5 DEF Acquire, AcquireWrite, AcquireRead, TryWrite, TryRead, ReadCalls, WriteCalls
  <2>6. ASSUME NEW c \in Callers, Wake(c) \/ PassGate(c) \/ AdvanceGeneration(c) PROVE QueueIsBlocked'
    <3>1. UNCHANGED <<readers, writing, queue, call>>
      BY <2>6 DEF Wake, PassGate, AdvanceGeneration
    <3> QED BY <3>1 DEF QueueIsBlocked, IsWriter
  <2>7. ASSUME NEW c \in Callers, GiveUp(c) PROVE QueueIsBlocked'
    <3>1. CASE writing
      BY <2>7, <3>1 DEF GiveUp, QueueIsBlocked
    <3>2. CASE ~writing
      <4>1. PICK i \in DOMAIN queue :
               queue[i] = c /\ Dispatch(Without(queue, i), readers,
                  IF IsWriter(c) THEN writersWaiting - 1 ELSE writersWaiting)
        BY <2>7, <3>2 DEF GiveUp
      <4>2. c \notin Elements(Without(queue, i)) /\ Without(queue, i) \in Seq(Callers)
        BY <4>1, WithoutElement
      <4> QED BY <2>4, <2>7, <4>1, <4>2 DEF GiveUp
    <3> QED BY <3>1, <3>2
  <2>8. ASSUME NEW c \in Callers, Release(c) PROVE QueueIsBlocked'
    <3>1. /\ Dispatch(queue, readers, writersWaiting) \/ Dispatch(queue, readers - 1, writersWaiting)
          /\ call' = [call EXCEPT ![c] = "none"]
          /\ pc[c] \in {"gate", "writing", "releasing", "reading"}
      BY <2>8 DEF Release, RefuseGate, Unlock, UnlockWithoutRefChanges, RUnlock, ReleaseWriteLock
    <3>2. c \notin Elements(queue)
      BY <3>1 DEF WaitersAreCounted, Waiting, Queued
    <3>3. CASE pc[c] = "reading"
      <4>1. c \in ReadHolders /\ ReadHolders \in SUBSET Callers
        BY <3>3 DEF ReadHolders
      <4>2. Cardinality(ReadHolders) # 0
        BY <4>1, CallersFinite, FS_EmptySet
      <4>3. readers \in Nat /\ readers - 1 \in Nat
        BY <4>2 DEF HoldersAreCounted
      <4> QED BY <2>4, <3>1, <3>2, <4>3
    <3>4. CASE pc[c] # "reading"
      <4>1. Dispatch(queue, readers, writersWaiting)
        BY <2>8, <3>4 DEF Release, RefuseGate, Unlock, UnlockWithoutRefChanges, RUnlock, ReleaseWriteLock
      <4> QED BY <2>4, <3>1, <3>2, <4>1
    <3> QED BY <3>3, <3>4
  <2>9. CASE UNCHANGED lockVars
    BY <2>9 DEF lockVars, QueueIsBlocked, IsWriter
  <2> QED BY <2>5, <2>6, <2>7, <2>8, <2>9 DEF Next, Step
<1> QED BY InvariantHolds, <1>1, <1>2, PTL DEF Spec

-----------------------------------------------------------------------------
(* The lock implements ReadWriteLock. *)

\* The generation does not move while a reader holds the lock.
THEOREM GenerationStable == Spec => GenerationStableForReaders
<1>1. LockInvariant /\ [Next]_lockVars => [ReadHolders # {} => generation' = generation]_lockVars
  <2> SUFFICES ASSUME LockInvariant, NEW c \in Callers, Step(c), ReadHolders # {}
               PROVE  generation' = generation
    BY DEF Next
  <2>1. CASE AdvanceGeneration(c)
    <3>1. c \in WriteHolders
      BY <2>1 DEF AdvanceGeneration, WriteHolders
    <3>2. Cardinality(ReadHolders) = 0
      BY <3>1 DEF LockInvariant, HoldersAreCounted
    <3>3. ReadHolders \in SUBSET Callers
      BY DEF ReadHolders, LockInvariant, LockTypeOK
    <3> QED BY <3>2, <3>3, CallersFinite, FS_EmptySet
  <2>2. CASE ~AdvanceGeneration(c)
    BY <2>2 DEF Step, Acquire, AcquireWrite, AcquireRead, Enqueue, TryWrite, TryRead, Wake, GiveUp,
       PassGate, Release, RefuseGate, Unlock, UnlockWithoutRefChanges, RUnlock, ReleaseWriteLock
  <2> QED BY <2>1, <2>2
<1> QED BY InvariantHolds, <1>1, PTL DEF Spec, GenerationStableForReaders

\* A step of caller c leaves the way every other caller holds the lock alone,
\* unless it hands the lock to one that does not hold it, and c itself gets,
\* keeps or gives back one kind of lock.
LEMMA StepChangesHolders ==
  ASSUME LockInvariant, NEW c \in Callers, Step(c), NEW d \in Callers
  PROVE  Held'[d] = Held[d] \/ Held[d] = "none" \/ Held'[d] = "none"
<1> USE DEF LockInvariant, LockTypeOK
<1>1. CASE Wake(c) \/ PassGate(c) \/ AdvanceGeneration(c)
  <2>1. ReadHolders' = ReadHolders /\ WriteHolders' = WriteHolders
    BY <1>1, WakeKeepsInvariant, WriterStepKeepsInvariant
  <2> QED BY <2>1 DEF Held
<1>2. CASE Acquire(c) \/ GiveUp(c) \/ Release(c)
  <2>1. \A e \in Callers \ {c} : pc'[e] = pc[e] /\ call'[e] = call[e]
    BY <1>2 DEF Acquire, AcquireWrite, AcquireRead, Enqueue, TryWrite, TryRead, GiveUp, Release,
       RefuseGate, Unlock, UnlockWithoutRefChanges, RUnlock, ReleaseWriteLock
  <2>2. ready \subseteq ready'
    BY <1>2 DEF Acquire, AcquireWrite, AcquireRead, Enqueue, TryWrite, TryRead, GiveUp, Release,
       RefuseGate, Unlock, UnlockWithoutRefChanges, RUnlock, ReleaseWriteLock, Dispatch
  <2>3. CASE d # c /\ d \in ReadHolders
    BY <2>1, <2>2, <2>3 DEF ReadHolders, Held, IsWriter
  <2>4. CASE d # c /\ d \in WriteHolders
    <3>1. d \in WriteHolders'
      BY <2>1, <2>2, <2>4 DEF WriteHolders, IsWriter
    <3>2. d \notin ReadHolders'
      <4>1. LockInvariant'
        BY <1>2, AcquireKeepsInvariant, GiveUpKeepsInvariant, ReleaseKeepsInvariant
      <4>2. readers' = 0 /\ readers' = Cardinality(ReadHolders')
        BY <3>1, <4>1 DEF HoldersAreCounted
      <4>3. ReadHolders' \in SUBSET Callers
        BY <4>1 DEF ReadHolders
      <4> QED BY <4>2, <4>3, CallersFinite, FS_EmptySet
    <3>3. Held'[d] = "write"
      BY <3>1, <3>2 DEF Held
    <3>4. Held[d] = "write" \/ Held[d] = "read"
      BY <2>4 DEF Held
    <3>5. d \notin ReadHolders
      BY <2>4 DEF ReadHolders, WriteHolders, WaitersAreCounted, Waiting
    <3> QED BY <2>4, <3>3, <3>5 DEF Held
  <2>5. CASE d \notin ReadHolders /\ d \notin WriteHolders
    BY <2>5 DEF Held
  <2>6. CASE d = c /\ Acquire(c)
    <3>1. pc[c] = "idle"
      BY <2>6 DEF Acquire, AcquireWrite, AcquireRead, TryWrite, TryRead
    <3>2. c \notin ReadHolders /\ c \notin WriteHolders
      BY <3>1 DEF ReadHolders, WriteHolders, WaitersAreCounted, Waiting
    <3> QED BY <2>6, <3>2 DEF Held
  <2>7. CASE d = c /\ GiveUp(c)
    <3>1. c \in Queued /\ pc[c] = "waiting"
      BY <2>7 DEF GiveUp, Queued, Elements
    <3>2. c \notin ReadHolders /\ c \notin WriteHolders
      BY <3>1 DEF ReadHolders, WriteHolders
    <3> QED BY <2>7, <3>2 DEF Held
  <2>8. CASE d = c /\ Release(c)
    <3>1. LockInvariant'
      BY <2>8, ReleaseKeepsInvariant
    <3>2. pc'[c] = "idle"
      BY <2>8 DEF Release, RefuseGate, Unlock, UnlockWithoutRefChanges, RUnlock, ReleaseWriteLock
    <3>3. c \notin ReadHolders' /\ c \notin WriteHolders'
      BY <3>1, <3>2 DEF ReadHolders, WriteHolders, WaitersAreCounted, Waiting
    <3> QED BY <2>8, <3>3 DEF Held
  <2> QED BY <1>2, <2>3, <2>4, <2>5, <2>6, <2>7, <2>8
<1> QED BY <1>1, <1>2 DEF Step

\* Holders that are counted are compatible.
LEMMA CountedIsCompatible ==
  ASSUME LockInvariant
  PROVE  Access!Compatible(Held)
<1> SUFFICES ASSUME NEW c \in Callers, Held[c] = "write", NEW d \in Callers \ {c}
             PROVE  Held[d] = "none"
  BY DEF Access!Compatible
<1>1. c \in WriteHolders /\ ReadHolders \in SUBSET Callers
  BY DEF Held, LockInvariant, LockTypeOK, ReadHolders
<1>2. d \notin WriteHolders /\ Cardinality(ReadHolders) = 0
  BY <1>1 DEF LockInvariant, HoldersAreCounted
<1>3. d \notin ReadHolders
  BY <1>1, <1>2, CallersFinite, FS_EmptySet
<1> QED BY <1>2, <1>3 DEF Held

\* The queueing lock does nothing that a readers and writer lock would not do.
THEOREM Refinement == Spec => ImplementsReadWriteLock
<1>1. Init => Access!AccessInit
  BY DEF Init, Access!AccessInit, Held, ReadHolders, WriteHolders
<1>2. LockInvariant => Access!Compatible(Held)
  BY CountedIsCompatible
<1>3. LockInvariant /\ Access!Compatible(Held)' /\ [Next]_lockVars
        => [Access!AccessNext]_(Access!accessVars)
  <2> SUFFICES ASSUME LockInvariant, Access!Compatible(Held)', [Next]_lockVars
               PROVE  [Access!AccessNext]_(Access!accessVars)
    OBVIOUS
  <2>1. Held' \in [Callers -> Access!Modes]
    BY DEF Held, Access!Modes
  <2>2. Access!Compatible(Held)'
    OBVIOUS
  <2>3. ASSUME NEW c \in Callers, AdvanceGeneration(c)
        PROVE  Access!Announce
    <3>1. Held' = Held
      BY <2>3, WriterStepKeepsInvariant DEF Held
    <3>2. c \in WriteHolders /\ c \notin ReadHolders
      BY <2>3 DEF AdvanceGeneration, WriteHolders, ReadHolders, LockInvariant, LockTypeOK,
         WaitersAreCounted, Waiting
    <3>3. Held[c] = "write"
      BY <3>2 DEF Held
    <3> QED BY <2>3, <3>1, <3>3 DEF Access!Announce, AdvanceGeneration
  <2>4. ASSUME NEW c \in Callers, Step(c), ~AdvanceGeneration(c)
        PROVE  Access!ChangeHolders
    <3>1. generation' = generation
      BY <2>4 DEF Step, Acquire, AcquireWrite, AcquireRead, Enqueue, TryWrite, TryRead, Wake, GiveUp,
       PassGate, Release, RefuseGate, Unlock, UnlockWithoutRefChanges, RUnlock, ReleaseWriteLock
    <3>2. \A d \in Callers : Held'[d] = Held[d] \/ Held[d] = "none" \/ Held'[d] = "none"
      BY <2>4, StepChangesHolders
    <3> QED BY <2>1, <2>2, <3>1, <3>2 DEF Access!ChangeHolders, Access!Compatible
  <2>5. CASE UNCHANGED lockVars
    BY <2>5 DEF lockVars, Access!accessVars, Held, ReadHolders, WriteHolders, IsWriter
  <2> QED BY <2>3, <2>4, <2>5 DEF Next, Access!AccessNext
<1> QED BY InvariantHolds, <1>1, <1>2, <1>3, PTL DEF Spec, ImplementsReadWriteLock, Access!AccessSpec

-----------------------------------------------------------------------------
(* Turns are handed out in arrival order. *)

\* Whoever dispatchLocked hands the lock, it leaves nobody in the queue who was
\* ahead.
LEMMA DispatchServesInOrder ==
  ASSUME NEW q \in Seq(Callers), Distinct(q), NEW r \in Nat, NEW ww, Dispatch(q, r, ww),
         NEW c \in ready' \ ready
  PROVE  \E k \in DOMAIN q : q[k] = c /\ \A i \in 1..k : q[i] \notin Elements(queue')
<1>1. PICK n \in 0..Len(q) :
        /\ ready' = ready \cup {q[i] : i \in 1..n} \cup (IF n < Len(q) /\ r + n = 0 THEN {q[1]} ELSE {})
        /\ queue' = SubSeq(q, (IF n < Len(q) /\ r + n = 0 THEN 2 ELSE n + 1), Len(q))
  BY DEF Dispatch
<1> DEFINE m == IF n < Len(q) /\ r + n = 0 THEN 1 ELSE n
<1>2. m \in 0..Len(q) /\ queue' = SubSeq(q, m + 1, Len(q))
  BY <1>1
<1>3. PICK k \in 1..m : q[k] = c
  <2>1. CASE n < Len(q) /\ r + n = 0
    BY <1>1, <2>1
  <2>2. CASE ~(n < Len(q) /\ r + n = 0)
    BY <1>1, <2>2
  <2> QED BY <2>1, <2>2
<1> HIDE DEF m
<1>4. DOMAIN queue' = 1..(Len(q) - m) /\ \A j \in 1..(Len(q) - m) : queue'[j] = q[m + j]
  BY <1>2
<1>5. ASSUME NEW i \in 1..k PROVE q[i] \notin Elements(queue')
  <2>1. ASSUME NEW j \in 1..(Len(q) - m) PROVE q[m + j] # q[i]
    BY <1>2 DEF Distinct
  <2> QED BY <1>4, <2>1 DEF Elements
<1> QED BY <1>2, <1>3, <1>5

\* A caller that leaves the lock or the queue makes nobody but the callers that
\* dispatchLocked served a holder.
LEMMA NewHolderWasServed ==
  ASSUME LockInvariant, NEW c \in Callers, GiveUp(c) \/ Release(c),
         NEW d \in Callers, d \notin Holders, d \in Holders'
  PROVE  d \in ready' \ ready
<1> USE DEF LockInvariant, LockTypeOK
<1>1. LockInvariant'
  BY GiveUpKeepsInvariant, ReleaseKeepsInvariant
<1>2. pc' = [pc EXCEPT ![c] = "idle"] /\ call' = [call EXCEPT ![c] = "none"]
  BY DEF GiveUp, Release, RefuseGate, Unlock, UnlockWithoutRefChanges, RUnlock, ReleaseWriteLock
<1>3. c \notin Holders'
  BY <1>1, <1>2 DEF Holders, ReadHolders, WriteHolders, WaitersAreCounted, Waiting
<1>4. d # c /\ pc'[d] = pc[d] /\ call'[d] = call[d]
  BY <1>2, <1>3
<1> QED BY <1>4 DEF Holders, ReadHolders, WriteHolders, IsWriter

\* The lock hands out its turns in arrival order, however callers ask, try,
\* give up and release.
THEOREM TurnsInArrivalOrder == Spec => ArrivalOrder
<1> DEFINE Ordered ==
      \A c \in Callers : (c \notin Holders /\ (c \in Holders)') =>
          \A i \in DOMAIN queue : Before(i, c) => queue[i] \notin Queued'
<1>1. LockInvariant /\ QueueIsBlocked /\ [Next]_lockVars => [Ordered]_lockVars
  <2> SUFFICES ASSUME LockInvariant, QueueIsBlocked, NEW e \in Callers, Step(e),
                      NEW c \in Callers, c \notin Holders, c \in Holders',
                      NEW i \in DOMAIN queue, Before(i, c)
               PROVE  queue[i] \notin Queued'
    BY DEF Next
  <2> USE DEF LockInvariant, LockTypeOK
  <2>1. CASE Wake(e) \/ PassGate(e) \/ AdvanceGeneration(e)
    BY <2>1, WakeKeepsInvariant, WriterStepKeepsInvariant DEF Holders
  <2>2. CASE Acquire(e)
    <3>1. CASE WriteLockFree
      BY <3>1 DEF WriteLockFree
    <3>2. CASE ReadLockFree
      <4>1. IsWriter(Head(queue)) /\ Head(queue) \in Queued
        BY <3>2 DEF ReadLockFree, QueueIsBlocked, Queued, Elements
      <4>2. {d \in Queued : IsWriter(d)} \in SUBSET Callers
        BY DEF Queued, Elements
      <4>3. Cardinality({d \in Queued : IsWriter(d)}) # 0
        <5>1. {d \in Queued : IsWriter(d)} # {}
          BY <4>1
        <5> QED BY <4>2, <5>1, CallersFinite, FS_EmptySet
      <4> QED BY <3>2, <4>3 DEF ReadLockFree, WaitersAreCounted
    <3>3. CASE ~WriteLockFree /\ ~ReadLockFree
      <4>1. PICK m \in ReadCalls \cup WriteCalls : Enqueue(e, m) /\ call' = [call EXCEPT ![e] = m]
        BY <2>2, <3>3 DEF Acquire, AcquireWrite, AcquireRead, TryWrite, TryRead
      <4>2. pc[e] = "idle"
        BY <2>2 DEF Acquire, AcquireWrite, AcquireRead, TryWrite, TryRead
      <4>3. pc' = [pc EXCEPT ![e] = "waiting"] /\ ready' = ready /\ e \notin ready
        BY <4>1, <4>2 DEF Enqueue, WaitersAreCounted, Waiting
      <4>4. Holders' \subseteq Holders
        BY <4>1, <4>3 DEF Holders, ReadHolders, WriteHolders, IsWriter
      <4> QED BY <4>4
    <3> QED BY <3>1, <3>2, <3>3
  <2>3. CASE Release(e)
    <3>1. PICK r \in Nat : Dispatch(queue, r, writersWaiting)
      <4>1. CASE pc[e] = "reading"
        <5>1. e \in ReadHolders /\ ReadHolders \in SUBSET Callers
          BY <4>1 DEF ReadHolders
        <5>2. Cardinality(ReadHolders) # 0
          BY <5>1, CallersFinite, FS_EmptySet
        <5>3. readers - 1 \in Nat
          BY <5>2 DEF HoldersAreCounted
        <5> QED BY <2>3, <4>1, <5>3 DEF Release, RefuseGate, Unlock, UnlockWithoutRefChanges, RUnlock
      <4>2. CASE pc[e] # "reading"
        BY <2>3, <4>2 DEF Release, RefuseGate, Unlock, UnlockWithoutRefChanges, RUnlock, ReleaseWriteLock
      <4> QED BY <4>1, <4>2
    <3>2. c \in ready' \ ready
      BY <2>3, NewHolderWasServed
    <3>3. PICK k \in DOMAIN queue : queue[k] = c /\ \A j \in 1..k : queue[j] \notin Queued'
      BY <3>1, <3>2, DispatchServesInOrder DEF Queued
    <3>4. i < k
      BY <3>3 DEF Before
    <3> QED BY <3>3, <3>4
  <2>4. CASE GiveUp(e)
    <3>1. c \in ready' \ ready
      BY <2>4, NewHolderWasServed
    <3>2. PICK p \in DOMAIN queue :
             queue[p] = e /\ Dispatch(Without(queue, p), readers,
                               IF IsWriter(e) THEN writersWaiting - 1 ELSE writersWaiting)
      BY <2>4, <3>1 DEF GiveUp
    <3> DEFINE rest == Without(queue, p)
    <3>3. /\ rest \in Seq(Callers) /\ Distinct(rest)
          /\ DOMAIN rest = 1..(Len(queue) - 1)
          /\ \A j \in 1..(Len(queue) - 1) : rest[j] = IF j < p THEN queue[j] ELSE queue[j + 1]
      BY WithoutElement DEF Without
    <3>4. e \notin Queued'
      <4>1. LockInvariant' /\ pc'[e] = "idle"
        BY <2>4, GiveUpKeepsInvariant DEF GiveUp
      <4> QED BY <4>1 DEF WaitersAreCounted, Waiting
    <3> HIDE DEF rest
    <3>5. PICK k \in DOMAIN rest : rest[k] = c /\ \A j \in 1..k : rest[j] \notin Queued'
      BY <3>1, <3>2, <3>3, DispatchServesInOrder DEF Queued, rest
    <3>6. CASE i = p
      BY <3>2, <3>4, <3>6
    <3>7. CASE i < p
      <4>1. i \in 1..k /\ rest[i] = queue[i]
        BY <3>3, <3>5, <3>7 DEF Before
      <4>2. rest[i] \notin Queued'
        BY <3>5, <4>1
      <4> QED BY <4>1, <4>2
    <3>8. CASE i > p
      <4>1. i - 1 \in 1..k /\ rest[i - 1] = queue[i]
        <5>1. /\ i \in 1..Len(queue) /\ p \in 1..Len(queue) /\ k \in 1..(Len(queue) - 1)
              /\ rest[k] = IF k < p THEN queue[k] ELSE queue[k + 1]
          BY <3>3, <3>5
        <5>2. \A j \in 1..i : queue[j] # c
          BY DEF Before
        <5>3. i <= k
          BY <3>5, <3>8, <5>1, <5>2
        <5> QED BY <3>3, <3>8, <5>1, <5>3
      <4>2. rest[i - 1] \notin Queued'
        BY <3>5, <4>1
      <4> QED BY <4>1, <4>2
    <3> QED BY <3>6, <3>7, <3>8
  <2> QED BY <2>1, <2>2, <2>3, <2>4 DEF Step
<1> QED BY InvariantHolds, QueueBlocked, <1>1, PTL DEF Spec, ArrivalOrder
=============================================================================
