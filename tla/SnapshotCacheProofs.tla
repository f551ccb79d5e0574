------------------------- MODULE SnapshotCacheProofs ------------------------
(***************************************************************************)
(* Proofs about SnapshotCache.  CacheInvariant is preserved conjunct by    *)
(* conjunct: first the lock (LockSteps), which gives the exclusion that    *)
(* every other conjunct rests on.                                          *)
(***************************************************************************)
EXTENDS SnapshotCache, TLAPS

USE BoundsAssumption

\* The records of the state and their parts.
LEMMA RefsType ==
  /\ NoRefs \in Refs
  /\ \A r \in Refs : r.life \in 0..MaxLives /\ r.version \in 0..MaxWrites
  /\ \A n \in 0..MaxLives : [life |-> n, version |-> 0] \in Refs
  /\ \A r \in Refs : r.version < MaxWrites => [life |-> r.life, version |-> r.version + 1] \in Refs
  BY DEF Refs, NoRefs

\* The snapshots that are taken.
LEMMA SnapshotsType ==
  /\ NoSnapshot \in Snapshots
  /\ \A r \in Refs, i \in Nat : [refs |-> r, incarnation |-> i] \in Snapshots
  /\ \A s \in Snapshots : s.refs \in Refs /\ s.incarnation \in Nat
  BY RefsType DEF Snapshots, NoSnapshot

\* The entries that are stored.
LEMMA EntriesType ==
  /\ NoListing \in Entries
  /\ \A s \in Snapshots, g \in Nat : [generation |-> g, snapshot |-> s] \in Entries
  /\ \A e \in Entries : e.snapshot \in Snapshots /\ e.generation \in Nat
  BY SnapshotsType DEF Entries, NoListing

\* The answers that are given.
LEMMA AnswersType ==
  /\ NoAnswer \in Answers
  /\ \A s \in Snapshots, k \in {"current", "stale"} : [kind |-> k, snapshot |-> s] \in Answers
  /\ \A a \in Answers : a.snapshot \in Snapshots
  BY SnapshotsType DEF Answers, NoAnswer

\* The scans that are remembered.
LEMMA PollsType ==
  /\ \A r \in Refs, g, i \in Nat : [generation |-> g, incarnation |-> i, heads |-> r] \in Polls
  /\ \A p \in Polls : p.generation \in Nat /\ p.incarnation \in Nat /\ p.heads \in Refs
  BY DEF Polls

\* The initial state satisfies the invariant.
LEMMA InitHolds == Init => CacheInvariant
<1> SUFFICES ASSUME Init PROVE CacheInvariant
  OBVIOUS
<1> USE RefsType, SnapshotsType, EntriesType, AnswersType DEF Init, AccessInit
<1>1. CacheTypeOK
  <2>1. 0 \in 0..MaxLives
    OBVIOUS
  <2> QED
    BY <2>1 DEF CacheTypeOK, Modes, PcValues
<1>2. LockIsHeld
  BY DEF LockIsHeld, Compatible, WriterPcs, ReaderPcs
<1>3. GenerationsNameRefs
  BY DEF GenerationsNameRefs
<1>4. ReadsAreCurrent /\ CacheIsOfThisLife /\ IncarnationsNameLives
  BY DEF ReadsAreCurrent, CacheIsOfThisLife, IncarnationsNameLives, NoRefs, NoAnswer
<1> QED
  BY <1>1, <1>2, <1>3, <1>4 DEF CacheInvariant

\* What the locals of reader c become when it is done.
ReaderTypeOK ==
  /\ pc \in [Callers -> PcValues] /\ method \in [Callers -> Methods \cup {"none"}]
  /\ found \in [Callers -> 0..MaxLives] /\ listed \in [Callers -> Entries]

\* A reader that is done leaves well-typed locals, with or without an answer.
LEMMA FinishType ==
  ASSUME ReaderTypeOK, NEW c \in Callers, Finish(c) PROVE ReaderTypeOK'
  BY EntriesType DEF ReaderTypeOK, Finish, Goto, PcValues

\* Returning a snapshot to a caller keeps the types of what readers remember.
LEMMA ServeType ==
  ASSUME ReaderTypeOK, answer \in [Callers -> Answers], NEW c \in Callers, NEW s \in Snapshots,
         NEW k \in {"current", "stale"}, Serve(c, k, s)
  PROVE  ReaderTypeOK' /\ answer' \in [Callers -> Answers]
  BY FinishType, AnswersType DEF Serve

\* Every step keeps the types.
LEMMA TypeStep == CacheTypeOK /\ [Next]_cacheVars => CacheTypeOK'
<1> SUFFICES ASSUME CacheTypeOK, [Next]_cacheVars PROVE CacheTypeOK'
  OBVIOUS
<1> USE RefsType, SnapshotsType, EntriesType, AnswersType, PollsType
    DEF CacheTypeOK, Methods, Modes, PcValues, ReaderPcs, WriterPcs, Goto, Hold, Finish, Serve,
        repoVars, requestVars, writerRest
<1>1. CASE UNCHANGED cacheVars
  BY <1>1 DEF cacheVars
<1>2. CASE Evict
  BY <1>2 DEF Evict
<1>3. ASSUME NEW c \in Callers, Read(c) PROVE CacheTypeOK'
  <2>1. ASSUME NEW m \in Methods, ExistingPath(c, m) PROVE CacheTypeOK'
    BY <2>1 DEF ExistingPath
  <2>2. CASE Lookup(c)
    <3>1. CASE \E e \in Hits : Serve(c, "current", e.snapshot)
      BY <2>2, <3>1, ServeType DEF Lookup, Hits, ReaderTypeOK
    <3>2. CASE Goto(c, "lock") /\ UNCHANGED <<answer, requestVars>>
      BY <2>2, <3>2 DEF Lookup
    <3> QED
      BY <2>2, <3>1, <3>2 DEF Lookup
  <2>3. CASE LockSnapshot(c)
    BY <2>3 DEF LockSnapshot
  <2>4. CASE GiveUp(c)
    <3>1. CASE \E e \in cache : Serve(c, "stale", e.snapshot)
      BY <2>4, <3>1, ServeType DEF GiveUp, ReaderTypeOK
    <3>2. CASE Finish(c) /\ UNCHANGED answer
      BY <2>4, <3>2, FinishType DEF GiveUp, ReaderTypeOK
    <3> QED
      BY <2>4, <3>1, <3>2 DEF GiveUp
  <2>5. CASE LockedLookup(c)
    <3>1. CASE \E e \in Hits : Serve(c, "current", e.snapshot) /\ Hold(c, "none")
      BY <2>5, <3>1, ServeType DEF LockedLookup, Hits, ReaderTypeOK
    <3>2. CASE Goto(c, "reading") /\ listed' = [listed EXCEPT ![c] = [generation |-> generation, snapshot |-> NoSnapshot]]
               /\ UNCHANGED <<held, method, found, answer>>
      BY <2>5, <3>2 DEF LockedLookup
    <3> QED
      BY <2>5, <3>1, <3>2 DEF LockedLookup
  <2>6. CASE ReadRefs(c)
    BY <2>6 DEF ReadRefs, CurrentSnapshot
  <2>7. CASE ReadFails(c)
    BY <2>7 DEF ReadFails
  <2>8. CASE ReturnRead(c)
    <3>1. ReaderTypeOK' /\ answer' \in [Callers -> Answers]
      BY <2>8, ServeType DEF ReturnRead, ReaderTypeOK
    <3>2. cache' \subseteq Entries /\ (\A e, f \in cache' : e = f)
      BY <2>8 DEF ReturnRead, Store
    <3> QED
      BY <2>8, <3>1, <3>2 DEF ReturnRead, ReaderTypeOK
  <2>9. CASE LockPinned(c)
    <3>1. ReaderTypeOK'
      BY <2>9, FinishType DEF LockPinned, ReaderTypeOK
    <3> QED
      BY <2>9, <3>1 DEF LockPinned, ReaderTypeOK
  <2>10. CASE Unpin(c)
    BY <2>10 DEF Unpin
  <2>11. CASE BranchHeads(c)
    BY <2>11 DEF BranchHeads
  <2> QED
    BY <1>3, <2>1, <2>2, <2>3, <2>4, <2>5, <2>6, <2>7, <2>8, <2>9, <2>10, <2>11 DEF Read
<1>4. ASSUME NEW c \in Callers, Write(c) PROVE CacheTypeOK'
  <2>1. CASE LockWrite(c)
    BY <2>1 DEF LockWrite
  <2>2. CASE MayChangeRefs(c)
    BY <2>2 DEF MayChangeRefs
  <2>3. CASE ChangeRefs(c)
    BY <2>3 DEF ChangeRefs
  <2>4. CASE PublishFolder(c)
    BY <2>4 DEF PublishFolder
  <2>5. CASE AddRepository(c)
    BY <2>5 DEF AddRepository
  <2>6. CASE BeginDeletion(c)
    BY <2>6 DEF BeginDeletion
  <2>7. CASE ResumeDeletion(c)
    BY <2>7 DEF ResumeDeletion
  <2>8. CASE AdvanceIncarnation(c)
    BY <2>8 DEF AdvanceIncarnation
  <2>9. CASE DropSnapshot(c)
    BY <2>9 DEF DropSnapshot
  <2>10. CASE FinishDeletion(c)
    BY <2>10 DEF FinishDeletion
  <2>11. CASE DeletionFails(c)
    BY <2>11 DEF DeletionFails
  <2>12. CASE AnnounceChange(c)
    BY <2>12 DEF AnnounceChange
  <2>13. CASE Unlock(c)
    BY <2>13 DEF Unlock
  <2>14. CASE UnlockWithoutRefChanges(c)
    BY <2>14 DEF UnlockWithoutRefChanges
  <2> QED
    BY <1>4, <2>1, <2>2, <2>3, <2>4, <2>5, <2>6, <2>7, <2>8, <2>9, <2>10, <2>11, <2>12, <2>13, <2>14 DEF Write
<1> QED
  BY <1>1, <1>2, <1>3, <1>4 DEF Next
\* While there is no folder, every remembered snapshot has an outdated incarnation.
LEMMA NoLifeNoIncarnation ==
  ASSUME NEW s \in Snapshots, incarnation \in Nat, OfIncarnation(s), repo.life = 0
  PROVE  s.refs.life > 0 /\ s.incarnation < incarnation
  BY SnapshotsType DEF OfIncarnation

\* The lock is held exactly where the callers are in a locked section, so a
\* writer is alone.
LEMMA LockStep ==
  ASSUME CacheInvariant, CacheTypeOK', [Next]_cacheVars
  PROVE  LockIsHeld'
<1> USE BoundsAssumption DEF CacheInvariant, CacheTypeOK, Goto, Hold, Finish, Serve,
     Hits, repoVars, requestVars, writerRest, LockIsHeld, Compatible, WriterPcs,
     ReaderPcs, PcValues, NoWriter, Free
<1>1. CASE UNCHANGED cacheVars
  BY <1>1 DEF cacheVars
<1>2. CASE Evict
  BY <1>2 DEF Evict
<1>3. ASSUME NEW c \in Callers, Read(c) PROVE LockIsHeld'
  <2>1. ASSUME NEW m \in Methods, ExistingPath(c, m) PROVE LockIsHeld'
    BY <2>1 DEF ExistingPath
  <2>2. CASE Lookup(c)
    BY <2>2 DEF Lookup
  <2>3. CASE LockSnapshot(c)
    BY <2>3 DEF LockSnapshot
  <2>4. CASE GiveUp(c)
    BY <2>4 DEF GiveUp
  <2>5. CASE LockedLookup(c)
    BY <2>5 DEF LockedLookup
  <2>6. CASE ReadRefs(c)
    BY <2>6 DEF ReadRefs
  <2>7. CASE ReadFails(c)
    BY <2>7 DEF ReadFails
  <2>8. CASE ReturnRead(c)
    BY <2>8 DEF ReturnRead
  <2>9. CASE LockPinned(c)
    BY <2>9 DEF LockPinned
  <2>10. CASE Unpin(c)
    BY <2>10 DEF Unpin
  <2>11. CASE BranchHeads(c)
    BY <2>11 DEF BranchHeads
  <2> QED
    BY <1>3, <2>1, <2>2, <2>3, <2>4, <2>5, <2>6, <2>7, <2>8, <2>9, <2>10, <2>11 DEF Read
<1>4. ASSUME NEW c \in Callers, Write(c) PROVE LockIsHeld'
  <2>1. CASE LockWrite(c)
    BY <2>1 DEF LockWrite
  <2>2. CASE MayChangeRefs(c)
    BY <2>2 DEF MayChangeRefs
  <2>3. CASE ChangeRefs(c)
    BY <2>3 DEF ChangeRefs
  <2>4. CASE PublishFolder(c)
    BY <2>4 DEF PublishFolder
  <2>5. CASE AddRepository(c)
    BY <2>5 DEF AddRepository
  <2>6. CASE BeginDeletion(c)
    BY <2>6 DEF BeginDeletion
  <2>7. CASE ResumeDeletion(c)
    BY <2>7 DEF ResumeDeletion
  <2>8. CASE AdvanceIncarnation(c)
    BY <2>8 DEF AdvanceIncarnation
  <2>9. CASE DropSnapshot(c)
    BY <2>9 DEF DropSnapshot
  <2>10. CASE FinishDeletion(c)
    BY <2>10 DEF FinishDeletion
  <2>11. CASE DeletionFails(c)
    BY <2>11 DEF DeletionFails
  <2>12. CASE AnnounceChange(c)
    BY <2>12 DEF AnnounceChange
  <2>13. CASE Unlock(c)
    BY <2>13 DEF Unlock
  <2>14. CASE UnlockWithoutRefChanges(c)
    BY <2>14 DEF UnlockWithoutRefChanges
  <2> QED
    BY <1>4, <2>1, <2>2, <2>3, <2>4, <2>5, <2>6, <2>7, <2>8, <2>9, <2>10, <2>11, <2>12, <2>13, <2>14 DEF Write
<1> QED
  BY <1>1, <1>2, <1>3, <1>4 DEF Next

\* A generation names the refs that were settled at it: a writer whose refs differ
\* has said so and announces a new generation before it releases.
LEMMA GenerationsStep ==
  ASSUME CacheInvariant, CacheTypeOK', [Next]_cacheVars, LockIsHeld'
  PROVE  GenerationsNameRefs'
<1> USE EntriesType, PollsType DEF CacheInvariant, CacheTypeOK, Goto, Hold, Finish,
     Serve, Hits, repoVars, requestVars, writerRest, LockIsHeld, Compatible, WriterPcs,
     ReaderPcs, NoWriter, Free, GenerationsNameRefs, Remembers, ReadsAreCurrent,
     CurrentSnapshot, Store, Unchanged
<1>1. CASE UNCHANGED cacheVars
  BY <1>1 DEF cacheVars
<1>2. CASE Evict
  BY <1>2 DEF Evict
<1>3. ASSUME NEW c \in Callers, Read(c) PROVE GenerationsNameRefs'
  <2>1. ASSUME NEW m \in Methods, ExistingPath(c, m) PROVE GenerationsNameRefs'
    BY <2>1 DEF ExistingPath
  <2>2. CASE Lookup(c)
    BY <2>2 DEF Lookup
  <2>3. CASE LockSnapshot(c)
    BY <2>3 DEF LockSnapshot
  <2>4. CASE GiveUp(c)
    BY <2>4 DEF GiveUp
  <2>5. CASE LockedLookup(c)
    BY <2>5 DEF LockedLookup
  <2>6. CASE ReadRefs(c)
    BY <2>6 DEF ReadRefs
  <2>7. CASE ReadFails(c)
    BY <2>7 DEF ReadFails
  <2>8. CASE ReturnRead(c)
    BY <2>8 DEF ReturnRead
  <2>9. CASE LockPinned(c)
    BY <2>9 DEF LockPinned
  <2>10. CASE Unpin(c)
    BY <2>10 DEF Unpin
  <2>11. CASE BranchHeads(c)
    BY <2>11 DEF BranchHeads
  <2> QED
    BY <1>3, <2>1, <2>2, <2>3, <2>4, <2>5, <2>6, <2>7, <2>8, <2>9, <2>10, <2>11 DEF Read
<1>4. ASSUME NEW c \in Callers, Write(c) PROVE GenerationsNameRefs'
  <2>1. CASE LockWrite(c)
    BY <2>1 DEF LockWrite
  <2>2. CASE MayChangeRefs(c)
    BY <2>2 DEF MayChangeRefs
  <2>3. CASE ChangeRefs(c)
    BY <2>3 DEF ChangeRefs
  <2>4. CASE PublishFolder(c)
    BY <2>4 DEF PublishFolder
  <2>5. CASE AddRepository(c)
    BY <2>5 DEF AddRepository
  <2>6. CASE BeginDeletion(c)
    BY <2>6 DEF BeginDeletion
  <2>7. CASE ResumeDeletion(c)
    BY <2>7 DEF ResumeDeletion
  <2>8. CASE AdvanceIncarnation(c)
    BY <2>8 DEF AdvanceIncarnation
  <2>9. CASE DropSnapshot(c)
    BY <2>9 DEF DropSnapshot
  <2>10. CASE FinishDeletion(c)
    BY <2>10 DEF FinishDeletion
  <2>11. CASE DeletionFails(c)
    BY <2>11 DEF DeletionFails
  <2>12. CASE AnnounceChange(c)
    BY <2>12 DEF AnnounceChange
  <2>13. CASE Unlock(c)
    BY <2>13 DEF Unlock
  <2>14. CASE UnlockWithoutRefChanges(c)
    BY <2>14 DEF UnlockWithoutRefChanges
  <2> QED
    BY <1>4, <2>1, <2>2, <2>3, <2>4, <2>5, <2>6, <2>7, <2>8, <2>9, <2>10, <2>11, <2>12, <2>13, <2>14 DEF Write
<1> QED
  BY <1>1, <1>2, <1>3, <1>4 DEF Next

\* No writer comes between the generation and the listing of a reader.
LEMMA ReadsStep ==
  ASSUME CacheInvariant, CacheTypeOK', [Next]_cacheVars, LockIsHeld'
  PROVE  ReadsAreCurrent'
<1> USE EntriesType, SnapshotsType DEF CacheInvariant, CacheTypeOK, Goto, Hold, Finish,
     Serve, Hits, repoVars, requestVars, writerRest, LockIsHeld, Compatible, WriterPcs,
     ReaderPcs, NoWriter, Free, ReadsAreCurrent, CurrentSnapshot
<1>1. CASE UNCHANGED cacheVars
  BY <1>1 DEF cacheVars
<1>2. CASE Evict
  BY <1>2 DEF Evict
<1>3. ASSUME NEW c \in Callers, Read(c) PROVE ReadsAreCurrent'
  <2>1. ASSUME NEW m \in Methods, ExistingPath(c, m) PROVE ReadsAreCurrent'
    BY <2>1 DEF ExistingPath
  <2>2. CASE Lookup(c)
    BY <2>2 DEF Lookup
  <2>3. CASE LockSnapshot(c)
    BY <2>3 DEF LockSnapshot
  <2>4. CASE GiveUp(c)
    BY <2>4 DEF GiveUp
  <2>5. CASE LockedLookup(c)
    BY <2>5 DEF LockedLookup
  <2>6. CASE ReadRefs(c)
    BY <2>6 DEF ReadRefs
  <2>7. CASE ReadFails(c)
    BY <2>7 DEF ReadFails
  <2>8. CASE ReturnRead(c)
    BY <2>8 DEF ReturnRead
  <2>9. CASE LockPinned(c)
    BY <2>9 DEF LockPinned
  <2>10. CASE Unpin(c)
    BY <2>10 DEF Unpin
  <2>11. CASE BranchHeads(c)
    BY <2>11 DEF BranchHeads
  <2> QED
    BY <1>3, <2>1, <2>2, <2>3, <2>4, <2>5, <2>6, <2>7, <2>8, <2>9, <2>10, <2>11 DEF Read
<1>4. ASSUME NEW c \in Callers, Write(c) PROVE ReadsAreCurrent'
  <2>1. CASE LockWrite(c)
    BY <2>1 DEF LockWrite
  <2>2. CASE MayChangeRefs(c)
    BY <2>2 DEF MayChangeRefs
  <2>3. CASE ChangeRefs(c)
    BY <2>3 DEF ChangeRefs
  <2>4. CASE PublishFolder(c)
    BY <2>4 DEF PublishFolder
  <2>5. CASE AddRepository(c)
    BY <2>5 DEF AddRepository
  <2>6. CASE BeginDeletion(c)
    BY <2>6 DEF BeginDeletion
  <2>7. CASE ResumeDeletion(c)
    BY <2>7 DEF ResumeDeletion
  <2>8. CASE AdvanceIncarnation(c)
    BY <2>8 DEF AdvanceIncarnation
  <2>9. CASE DropSnapshot(c)
    BY <2>9 DEF DropSnapshot
  <2>10. CASE FinishDeletion(c)
    BY <2>10 DEF FinishDeletion
  <2>11. CASE DeletionFails(c)
    BY <2>11 DEF DeletionFails
  <2>12. CASE AnnounceChange(c)
    BY <2>12 DEF AnnounceChange
  <2>13. CASE Unlock(c)
    BY <2>13 DEF Unlock
  <2>14. CASE UnlockWithoutRefChanges(c)
    BY <2>14 DEF UnlockWithoutRefChanges
  <2> QED
    BY <1>4, <2>1, <2>2, <2>3, <2>4, <2>5, <2>6, <2>7, <2>8, <2>9, <2>10, <2>11, <2>12, <2>13, <2>14 DEF Write
<1> QED
  BY <1>1, <1>2, <1>3, <1>4 DEF Next

\* The cache holds nothing of an earlier repository: a deletion drops the entry
\* before the folder goes, and nobody can list a folder that is gone.
LEMMA LivesStep ==
  ASSUME CacheInvariant, CacheTypeOK', [Next]_cacheVars, LockIsHeld'
  PROVE  CacheIsOfThisLife'
<1> USE RefsType, EntriesType, SnapshotsType DEF CacheInvariant, CacheTypeOK, Goto,
     Hold, Finish, Serve, Hits, repoVars, requestVars, writerRest, LockIsHeld,
     Compatible, WriterPcs, ReaderPcs, NoWriter, Free, ReadsAreCurrent, CurrentSnapshot,
     Store, CacheIsOfThisLife, NoRefs
<1>1. CASE UNCHANGED cacheVars
  BY <1>1 DEF cacheVars
<1>2. CASE Evict
  BY <1>2 DEF Evict
<1>3. ASSUME NEW c \in Callers, Read(c) PROVE CacheIsOfThisLife'
  <2>1. ASSUME NEW m \in Methods, ExistingPath(c, m) PROVE CacheIsOfThisLife'
    BY <2>1 DEF ExistingPath
  <2>2. CASE Lookup(c)
    <3>1. CASE UNCHANGED <<answer, requestVars>> /\ Goto(c, "lock")
      BY <2>2, <3>1 DEF Lookup
    <3>2. ASSUME NEW e \in Hits, Serve(c, "current", e.snapshot) PROVE CacheIsOfThisLife'
      BY <2>2, <3>2 DEF Lookup
    <3> QED
      BY <2>2, <3>1, <3>2 DEF Lookup
  <2>3. CASE LockSnapshot(c)
    BY <2>3 DEF LockSnapshot
  <2>4. CASE GiveUp(c)
    <3>1. CASE Finish(c) /\ UNCHANGED answer
      BY <2>4, <3>1 DEF GiveUp
    <3>2. ASSUME NEW e \in cache, Serve(c, "stale", e.snapshot) PROVE CacheIsOfThisLife'
      BY <2>4, <3>2 DEF GiveUp
    <3> QED
      BY <2>4, <3>1, <3>2 DEF GiveUp
  <2>5. CASE LockedLookup(c)
    <3>1. ASSUME NEW e \in Hits, Serve(c, "current", e.snapshot) PROVE CacheIsOfThisLife'
      BY <2>5, <3>1 DEF LockedLookup
    <3>2. CASE /\ listed' = [listed EXCEPT ![c] = [generation |-> generation, snapshot |-> NoSnapshot]]
               /\ UNCHANGED answer
      BY <2>5, <3>2 DEF LockedLookup
    <3> QED
      BY <2>5, <3>1, <3>2 DEF LockedLookup
  <2>6. CASE ReadRefs(c)
    BY <2>6 DEF ReadRefs
  <2>7. CASE ReadFails(c)
    BY <2>7 DEF ReadFails
  <2>8. CASE ReturnRead(c)
    BY <2>8 DEF ReturnRead
  <2>9. CASE LockPinned(c)
    BY <2>9 DEF LockPinned
  <2>10. CASE Unpin(c)
    BY <2>10 DEF Unpin
  <2>11. CASE BranchHeads(c)
    BY <2>11 DEF BranchHeads
  <2> QED
    BY <1>3, <2>1, <2>2, <2>3, <2>4, <2>5, <2>6, <2>7, <2>8, <2>9, <2>10, <2>11 DEF Read
<1>4. ASSUME NEW c \in Callers, Write(c) PROVE CacheIsOfThisLife'
  <2>1. CASE LockWrite(c)
    BY <2>1 DEF LockWrite
  <2>2. CASE MayChangeRefs(c)
    BY <2>2 DEF MayChangeRefs
  <2>3. CASE ChangeRefs(c)
    BY <2>3 DEF ChangeRefs
  <2>4. CASE PublishFolder(c)
    BY <2>4 DEF PublishFolder
  <2>5. CASE AddRepository(c)
    BY <2>5 DEF AddRepository
  <2>6. CASE BeginDeletion(c)
    BY <2>6 DEF BeginDeletion
  <2>7. CASE ResumeDeletion(c)
    BY <2>7 DEF ResumeDeletion
  <2>8. CASE AdvanceIncarnation(c)
    BY <2>8 DEF AdvanceIncarnation
  <2>9. CASE DropSnapshot(c)
    BY <2>9 DEF DropSnapshot
  <2>10. CASE FinishDeletion(c)
    BY <2>10 DEF FinishDeletion
  <2>11. CASE DeletionFails(c)
    BY <2>11 DEF DeletionFails
  <2>12. CASE AnnounceChange(c)
    BY <2>12 DEF AnnounceChange
  <2>13. CASE Unlock(c)
    BY <2>13 DEF Unlock
  <2>14. CASE UnlockWithoutRefChanges(c)
    BY <2>14 DEF UnlockWithoutRefChanges
  <2> QED
    BY <1>4, <2>1, <2>2, <2>3, <2>4, <2>5, <2>6, <2>7, <2>8, <2>9, <2>10, <2>11, <2>12, <2>13, <2>14 DEF Write
<1> QED
  BY <1>1, <1>2, <1>3, <1>4 DEF Next

\* An incarnation names one lifetime: it moves before the folder goes, and a new
\* folder comes only where none was.
LEMMA IncarnationsStep ==
  ASSUME CacheInvariant, CacheTypeOK', [Next]_cacheVars, LockIsHeld'
  PROVE  IncarnationsNameLives'
<1> USE RefsType, EntriesType, SnapshotsType, AnswersType DEF CacheInvariant,
     CacheTypeOK, Goto, Hold, Finish, Serve, Hits, repoVars, requestVars, writerRest,
     LockIsHeld, Compatible, WriterPcs, ReaderPcs, NoWriter, Free, ReadsAreCurrent,
     CurrentSnapshot, Store, CacheIsOfThisLife, NoRefs, IncarnationsNameLives,
     OfIncarnation
<1>1. CASE UNCHANGED cacheVars
  BY <1>1 DEF cacheVars
<1>2. CASE Evict
  BY <1>2 DEF Evict
<1>3. ASSUME NEW c \in Callers, Read(c) PROVE IncarnationsNameLives'
  <2>1. ASSUME NEW m \in Methods, ExistingPath(c, m) PROVE IncarnationsNameLives'
    BY <2>1 DEF ExistingPath, NoAnswer
  <2>2. CASE Lookup(c)
    <3>1. CASE UNCHANGED <<answer, requestVars>> /\ Goto(c, "lock")
      BY <2>2, <3>1 DEF Lookup
    <3>2. ASSUME NEW e \in Hits, Serve(c, "current", e.snapshot) PROVE IncarnationsNameLives'
      BY <2>2, <3>2 DEF Lookup
    <3> QED
      BY <2>2, <3>1, <3>2 DEF Lookup
  <2>3. CASE LockSnapshot(c)
    BY <2>3 DEF LockSnapshot
  <2>4. CASE GiveUp(c)
    BY <2>4 DEF GiveUp
  <2>5. CASE LockedLookup(c)
    BY <2>5 DEF LockedLookup
  <2>6. CASE ReadRefs(c)
    BY <2>6 DEF ReadRefs
  <2>7. CASE ReadFails(c)
    BY <2>7 DEF ReadFails
  <2>8. CASE ReturnRead(c)
    <3>1. CASE UNCHANGED cache
      BY <2>8, <3>1 DEF ReturnRead
    <3>2. CASE cache' \in {{listed[c]}, {}}
      BY <2>8, <3>2 DEF ReturnRead
    <3> QED
      BY <2>8, <3>1, <3>2 DEF ReturnRead
  <2>9. CASE LockPinned(c)
    BY <2>9 DEF LockPinned
  <2>10. CASE Unpin(c)
    BY <2>10 DEF Unpin
  <2>11. CASE BranchHeads(c)
    BY <2>11 DEF BranchHeads
  <2> QED
    BY <1>3, <2>1, <2>2, <2>3, <2>4, <2>5, <2>6, <2>7, <2>8, <2>9, <2>10, <2>11 DEF Read
<1>4. ASSUME NEW c \in Callers, Write(c) PROVE IncarnationsNameLives'
  <2>1. CASE LockWrite(c)
    BY <2>1 DEF LockWrite
  <2>2. CASE MayChangeRefs(c)
    BY <2>2 DEF MayChangeRefs
  <2>3. CASE ChangeRefs(c)
    BY <2>3 DEF ChangeRefs
  <2>4. CASE PublishFolder(c)
    <3>1. repo.life = 0
      BY <2>4 DEF PublishFolder
    <3>2. \A e \in cache : e.snapshot.incarnation < incarnation
      BY <3>1
    <3>3. ASSUME NEW d \in Callers, answer[d].kind # "none"
          PROVE  answer[d].snapshot.refs.life > 0 /\ answer[d].snapshot.incarnation < incarnation
      <4>1. answer[d].snapshot \in Snapshots /\ OfIncarnation(answer[d].snapshot)
        BY <3>3
      <4> QED
        BY <3>1, <4>1, NoLifeNoIncarnation
    <3> QED
      BY <2>4, <3>2, <3>3 DEF PublishFolder
  <2>5. CASE AddRepository(c)
    BY <2>5 DEF AddRepository
  <2>6. CASE BeginDeletion(c)
    BY <2>6 DEF BeginDeletion
  <2>7. CASE ResumeDeletion(c)
    BY <2>7 DEF ResumeDeletion
  <2>8. CASE AdvanceIncarnation(c)
    BY <2>8 DEF AdvanceIncarnation
  <2>9. CASE DropSnapshot(c)
    BY <2>9 DEF DropSnapshot
  <2>10. CASE FinishDeletion(c)
    BY <2>10 DEF FinishDeletion
  <2>11. CASE DeletionFails(c)
    BY <2>11 DEF DeletionFails
  <2>12. CASE AnnounceChange(c)
    BY <2>12 DEF AnnounceChange
  <2>13. CASE Unlock(c)
    BY <2>13 DEF Unlock
  <2>14. CASE UnlockWithoutRefChanges(c)
    BY <2>14 DEF UnlockWithoutRefChanges
  <2> QED
    BY <1>4, <2>1, <2>2, <2>3, <2>4, <2>5, <2>6, <2>7, <2>8, <2>9, <2>10, <2>11, <2>12, <2>13, <2>14 DEF Write
<1> QED
  BY <1>1, <1>2, <1>3, <1>4 DEF Next

\* Every step preserves the invariant.
LEMMA InvariantStep == CacheInvariant /\ [Next]_cacheVars => CacheInvariant'
<1> SUFFICES ASSUME CacheInvariant, [Next]_cacheVars PROVE CacheInvariant'
  OBVIOUS
<1>1. CacheTypeOK'
  BY TypeStep DEF CacheInvariant
<1>2. LockIsHeld'
  BY <1>1, LockStep
<1> QED
  BY <1>1, <1>2, GenerationsStep, ReadsStep, LivesStep, IncarnationsStep DEF CacheInvariant

\* Everything the cache, the callers and the coordinator remember is of the
\* lifetime, generation and incarnation they take it to be of.
THEOREM CacheInvariantHolds == Spec => []CacheInvariant
  BY InitHolds, InvariantStep, PTL DEF Spec

\* How a caller comes by an answer: from a hit, from the last entry, or from a
\* listing made under the read lock.
LEMMA AnswerStep ==
  ASSUME CacheInvariant, [Next]_cacheVars, NEW c \in Callers, answer'[c] # answer[c],
         answer'[c].kind # "none"
  PROVE  \/ answer'[c].kind = "stale" /\ \E e \in cache : answer'[c].snapshot = e.snapshot
         \/ answer'[c].kind = "current" /\ \E e \in Hits : answer'[c].snapshot = e.snapshot
         \/ pc[c] = "storing" /\ answer'[c].snapshot = listed[c].snapshot
<1> USE DEF CacheInvariant, CacheTypeOK, Serve
<1>1. PICK d \in Callers : Read(d) \/ Write(d)
  BY DEF Next, Evict, cacheVars
<1>2. ASSUME Write(d) PROVE FALSE
  BY <1>2 DEF Write, writerRest, LockWrite, MayChangeRefs, ChangeRefs, PublishFolder, AddRepository,
     BeginDeletion, ResumeDeletion, AdvanceIncarnation, DropSnapshot, FinishDeletion, DeletionFails,
     AnnounceChange, Unlock, UnlockWithoutRefChanges
<1>3. CASE \E m \in Methods : ExistingPath(d, m)
  BY <1>3 DEF ExistingPath, NoAnswer
<1>4. CASE Lookup(d)
  BY <1>4 DEF Lookup
<1>5. CASE GiveUp(d)
  BY <1>5 DEF GiveUp
<1>6. CASE LockedLookup(d)
  BY <1>6 DEF LockedLookup
<1>7. CASE ReturnRead(d)
  BY <1>7 DEF ReturnRead
<1>8. CASE LockSnapshot(d) \/ ReadRefs(d) \/ ReadFails(d) \/ LockPinned(d) \/ Unpin(d) \/ BranchHeads(d)
  BY <1>8 DEF LockSnapshot, ReadRefs, ReadFails, LockPinned, Unpin, BranchHeads
<1> QED
  BY <1>1, <1>2, <1>3, <1>4, <1>5, <1>6, <1>7, <1>8 DEF Read

\* A caller in the middle of a listing holds the read lock, so no writer does.
LEMMA ReadersExcludeWriters ==
  ASSUME CacheInvariant, NEW c \in Callers, pc[c] \in ReaderPcs
  PROVE  settled = repo
  BY DEF CacheInvariant, LockIsHeld, Compatible, NoWriter, GenerationsNameRefs, ReaderPcs, WriterPcs

\* Every snapshot that is not marked stale shows the settled refs.
THEOREM CurrentSnapshots == Spec => SnapshotsAreCurrent
<1>1. ASSUME CacheInvariant, [Next]_cacheVars, NEW c \in Callers, Answered(c, "current")
      PROVE  answer'[c].snapshot.refs = settled
  <2>1. CASE \E e \in Hits : answer'[c].snapshot = e.snapshot
    BY <1>1, <2>1 DEF Hits, CacheInvariant, GenerationsNameRefs, Remembers
  <2>2. CASE pc[c] = "storing" /\ answer'[c].snapshot = listed[c].snapshot
    BY <1>1, <2>2, ReadersExcludeWriters
       DEF CacheInvariant, ReadsAreCurrent, CurrentSnapshot, ReaderPcs
  <2> QED
    BY <1>1, <2>1, <2>2, AnswerStep DEF Answered
<1>2. CacheInvariant /\ [Next]_cacheVars =>
        [\A c \in Callers : Answered(c, "current") => answer'[c].snapshot.refs = settled]_cacheVars
  BY <1>1
<1> QED
  BY <1>2, CacheInvariantHolds, PTL DEF Spec, SnapshotsAreCurrent

\* No snapshot of an earlier repository of the name is served, stale or not.
THEOREM NoEarlierLife == Spec => NoSnapshotOfAnEarlierLife
<1>1. ASSUME CacheInvariant, [Next]_cacheVars, NEW c \in Callers,
             Answered(c, "current") \/ Answered(c, "stale")
      PROVE  answer'[c].snapshot.refs.life >= found[c]
  <2>1. CASE \E e \in cache : answer'[c].snapshot = e.snapshot
    BY <1>1, <2>1 DEF CacheInvariant, CacheIsOfThisLife, CacheTypeOK, NoRefs
  <2>2. CASE pc[c] = "storing" /\ answer'[c].snapshot = listed[c].snapshot
    BY <1>1, <2>2, RefsType
       DEF CacheInvariant, CacheIsOfThisLife, ReadsAreCurrent, CurrentSnapshot, CacheTypeOK, NoRefs
  <2> QED
    BY <1>1, <2>1, <2>2, AnswerStep DEF Answered, Hits
<1>2. CacheInvariant /\ [Next]_cacheVars =>
        [\A c \in Callers : Answered(c, "current") \/ Answered(c, "stale") =>
            answer'[c].snapshot.refs.life >= found[c]]_cacheVars
  BY <1>1
<1> QED
  BY <1>2, CacheInvariantHolds, PTL DEF Spec, NoSnapshotOfAnEarlierLife

\* The coordinator misses no push when BranchHeads answers unchanged.
THEOREM CurrentHeads == Spec => []UnchangedHeadsAreCurrent
<1>1. CacheInvariant => UnchangedHeadsAreCurrent
  BY DEF CacheInvariant, GenerationsNameRefs, Remembers, UnchangedHeadsAreCurrent, Unchanged
<1> QED
  BY <1>1, CacheInvariantHolds, PTL

\* Pinned reads never reach the objects of another repository.
THEOREM PinnedReads == Spec => []PinnedReadsStayInTheirRepository
<1>1. CacheInvariant => PinnedReadsStayInTheirRepository
  BY DEF CacheInvariant, IncarnationsNameLives, OfIncarnation, PinnedReadsStayInTheirRepository
<1> QED
  BY <1>1, CacheInvariantHolds, PTL
=============================================================================
