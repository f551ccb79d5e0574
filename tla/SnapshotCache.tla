---------------------------- MODULE SnapshotCache ---------------------------
(***************************************************************************)
(* The ref snapshots of one repository name, kept in memory between reads  *)
(* (internal/repository/snapshot_cache.go), the branch poller that asks    *)
(* whether anything changed (browse.go), and the writers, creations and    *)
(* deletions whose lock releases they depend on.                           *)
(*                                                                         *)
(* The repository lock is the one ReadWriteLock promises.  What runs under *)
(* snapshotCache.mu is one action.  Refs are abstracted to their version   *)
(* within one lifetime of the repository name.                             *)
(***************************************************************************)
EXTENDS ReadWriteLock, FiniteSets

CONSTANTS
    MaxWrites,  \* bound of the model: ref changes in one lifetime
    MaxLives,   \* bound of the model: how often the name is created
    MaxUnlocks  \* bound of the model: releases that announce a ref change

ASSUME BoundsAssumption == MaxWrites \in Nat /\ MaxLives \in Nat /\ MaxUnlocks \in Nat

VARIABLES
    repo,        \* the refs in the repository folder, NoRefs when there is no folder
    recorded,    \* the repository has a row
    deleting,    \* a deletion of the name is recorded and unfinished
    lives,       \* how many repositories the name has had
    incarnation, \* RepositoryLock.incarnation
    cache,       \* snapshotCache.entries[id]: a set of at most one entry
    settled,     \* the refs when the write lock was last free
    pc,          \* where each caller is
    method,      \* which method each reader is in
    found,       \* the lifetime that ExistingPath found for each reader
    listed,      \* locals generation and snapshot of lockedRefSnapshot
    mark,        \* a writer that may have changed refs: it releases with Unlock
    answer,      \* the snapshot each caller was last given
    polled       \* what the check coordinator last learnt from BranchHeads

repoVars == <<repo, recorded, deleting, lives, incarnation, settled>>
requestVars == <<method, found, listed>>
cacheVars == <<held, generation, repoVars, cache, pc, requestVars, mark, answer, polled>>

Refs == [life : 0..MaxLives, version : 0..MaxWrites]
NoRefs == [life |-> 0, version |-> 0]
Snapshots == [refs : Refs, incarnation : Nat]
NoSnapshot == [refs |-> NoRefs, incarnation |-> 0]
Entries == [generation : Nat, snapshot : Snapshots]
NoListing == [generation |-> 0, snapshot |-> NoSnapshot]
Answers == [kind : {"none", "current", "stale"}, snapshot : Snapshots]
NoAnswer == [kind |-> "none", snapshot |-> NoSnapshot]
Polls == [generation : Nat, incarnation : Nat, heads : Refs]

Methods == {"RefSnapshot", "RefSnapshotWithin", "RefSnapshotAfterWrites", "snapshotRead", "BranchHeads"}
WriterPcs == {"writing", "publishing", "deleting", "dropping", "moving", "closing", "unlocking"}
ReaderPcs == {"locked", "reading", "storing", "pinned"}
PcValues == {"idle", "lookup", "lock"} \cup ReaderPcs \cup WriterPcs

NoWriter == \A c \in Callers : held[c] # "write"
Free == \A c \in Callers : held[c] = "none"
Exists == recorded /\ repo # NoRefs
CurrentSnapshot == [refs |-> repo, incarnation |-> incarnation]

Init ==
    /\ AccessInit
    /\ repo = NoRefs /\ settled = NoRefs
    /\ recorded = FALSE /\ deleting = FALSE
    /\ lives = 0 /\ incarnation = 0
    /\ cache = {}
    /\ pc = [c \in Callers |-> "idle"]
    /\ method = [c \in Callers |-> "none"]
    /\ found = [c \in Callers |-> 0]
    /\ listed = [c \in Callers |-> NoListing]
    /\ mark = [c \in Callers |-> FALSE]
    /\ answer = [c \in Callers |-> NoAnswer]
    /\ polled = {}

Goto(c, where) == pc' = [pc EXCEPT ![c] = where]
Hold(c, how) == held' = [held EXCEPT ![c] = how]
Finish(c) ==
    /\ Goto(c, "idle")
    /\ method' = [method EXCEPT ![c] = "none"]
    /\ found' = [found EXCEPT ![c] = 0]
    /\ listed' = [listed EXCEPT ![c] = NoListing]
-----------------------------------------------------------------------------
(* Readers. *)

\* ExistingPath, without the lock, at the start of every method.  A pinned
\* read goes on only with a snapshot of the same incarnation that is not stale.
ExistingPath(c, m) ==
    /\ pc[c] = "idle"
    /\ Exists
    /\ IF m = "snapshotRead"
       THEN /\ answer[c].kind = "current" /\ answer[c].snapshot.incarnation = incarnation
            /\ UNCHANGED answer
       ELSE answer' = [answer EXCEPT ![c] = NoAnswer]
    /\ method' = [method EXCEPT ![c] = m]
    /\ found' = [found EXCEPT ![c] = repo.life]
    /\ Goto(c, IF m \in {"RefSnapshot", "RefSnapshotWithin"} THEN "lookup" ELSE "lock")
    /\ UNCHANGED <<held, generation, repoVars, cache, listed, mark, polled>>

\* snapshotCache.lookup.
MutantHits == cache                                            \* skips the comparison
Hits == {e \in cache : e.generation = generation}

\* A method returns snapshot s to caller c.
Serve(c, kind, s) ==
    /\ answer' = [answer EXCEPT ![c] = [kind |-> kind, snapshot |-> s]]
    /\ Finish(c)

\* The lookup of refSnapshotPath, without the lock.
Lookup(c) ==
    /\ pc[c] = "lookup"
    /\ \/ \E e \in Hits : Serve(c, "current", e.snapshot)
       \/ Hits = {} /\ Goto(c, "lock") /\ UNCHANGED <<answer, requestVars>>
    /\ UNCHANGED <<held, generation, repoVars, cache, mark, polled>>

\* readLock for a snapshot.
LockSnapshot(c) ==
    /\ pc[c] = "lock"
    /\ method[c] \notin {"snapshotRead", "BranchHeads"}
    /\ NoWriter
    /\ Hold(c, "read")
    /\ Goto(c, "locked")
    /\ UNCHANGED <<generation, repoVars, cache, requestVars, mark, answer, polled>>

\* readLock gave up.  RefSnapshotWithin then returns the last snapshot.
GiveUp(c) ==
    /\ pc[c] = "lock"
    /\ \/ \E e \in cache : method[c] = "RefSnapshotWithin" /\ Serve(c, "stale", e.snapshot)
       \/ Finish(c) /\ UNCHANGED answer
    /\ UNCHANGED <<held, generation, repoVars, cache, mark, polled>>

\* The start of lockedRefSnapshot.
LockedLookup(c) ==
    /\ pc[c] = "locked"
    /\ \/ \E e \in Hits : Serve(c, "current", e.snapshot) /\ Hold(c, "none")
       \/ /\ Hits = {}
          /\ listed' = [listed EXCEPT ![c] = [generation |-> generation, snapshot |-> NoSnapshot]]
          /\ Goto(c, "reading")
          /\ UNCHANGED <<held, method, found, answer>>
    /\ UNCHANGED <<generation, repoVars, cache, mark, polled>>

\* readRefSnapshot succeeds.
ReadRefs(c) ==
    /\ pc[c] = "reading"
    /\ repo # NoRefs
    /\ listed' = [listed EXCEPT ![c] = [generation |-> listed[c].generation, snapshot |-> CurrentSnapshot]]
    /\ Goto(c, "storing")
    /\ UNCHANGED <<held, generation, repoVars, cache, method, found, mark, answer, polled>>

\* readRefSnapshot fails; the last snapshot is dropped unless the request was
\* cancelled.
ReadFails(c) ==
    /\ pc[c] = "reading"
    /\ cache' \in {cache, {}}
    /\ Hold(c, "none")
    /\ Finish(c)
    /\ UNCHANGED <<generation, repoVars, mark, answer, polled>>

\* snapshotCache.store, unless the entry is as new; a snapshot too large for
\* the cache only removes the entry.
Store(c) ==
    IF \E e \in cache : e.generation >= listed[c].generation
    THEN UNCHANGED cache
    ELSE cache' \in {{listed[c]}, {}}

\* The end of lockedRefSnapshot: an incomplete snapshot is returned, not stored.
ReturnRead(c) ==
    /\ pc[c] = "storing"
    /\ Store(c) \/ UNCHANGED cache
    /\ Serve(c, "current", listed[c].snapshot)
    /\ Hold(c, "none")
    /\ UNCHANGED <<generation, repoVars, mark, polled>>

\* Removal of the entry for other repositories' sake: evictLocked, reweigh
\* and forget.
Evict ==
    /\ cache # {}
    /\ cache' = {}
    /\ UNCHANGED <<held, generation, repoVars, pc, requestVars, mark, answer, polled>>

MutantLockPinned(c) ==                         \* relies on the check before the wait
    /\ pc[c] = "lock"
    /\ method[c] = "snapshotRead"
    /\ NoWriter
    /\ Hold(c, "read")
    /\ Goto(c, "pinned")
    /\ UNCHANGED <<generation, repoVars, cache, requestVars, mark, answer, polled>>

\* The lock and the second incarnation check of snapshotRead.
LockPinned(c) ==
    /\ pc[c] = "lock"
    /\ method[c] = "snapshotRead"
    /\ NoWriter
    /\ IF answer[c].snapshot.incarnation = incarnation
       THEN Hold(c, "read") /\ Goto(c, "pinned") /\ UNCHANGED requestVars
       ELSE Finish(c) /\ UNCHANGED held
    /\ UNCHANGED <<generation, repoVars, cache, mark, answer, polled>>

\* The release that snapshotRead returns.
Unpin(c) ==
    /\ pc[c] = "pinned"
    /\ Hold(c, "none")
    /\ Finish(c)
    /\ UNCHANGED <<generation, repoVars, cache, mark, answer, polled>>

\* The coordinator's last scan when it still answers for the repository.
Unchanged == {p \in polled : p.generation = generation /\ p.incarnation = incarnation}

\* BranchHeads under the read lock: unchanged when RefState is the one the
\* coordinator has seen, else a new listing.
BranchHeads(c) ==
    /\ pc[c] = "lock"
    /\ method[c] = "BranchHeads"
    /\ NoWriter
    /\ \/ Unchanged # {} /\ UNCHANGED polled
       \/ /\ Unchanged = {} /\ repo # NoRefs
          /\ polled' = {[generation |-> generation, incarnation |-> incarnation, heads |-> repo]}
    /\ Finish(c)
    /\ UNCHANGED <<held, generation, repoVars, cache, mark, answer>>
-----------------------------------------------------------------------------
(* Writers. *)

writerRest == <<cache, requestVars, answer, polled>>

\* The bound on announced releases, asked before a turn that ends with one.
MoreUnlocks == generation < MaxUnlocks

LockWrite(c) ==
    /\ pc[c] = "idle"
    /\ Free
    /\ Hold(c, "write")
    /\ Goto(c, "writing")
    /\ UNCHANGED <<generation, repoVars, mark, writerRest>>

\* A writer that can no longer prove that it changes no ref.  Each one says
\* so before its first change.
MayChangeRefs(c) ==
    /\ pc[c] = "writing" /\ MoreUnlocks
    /\ mark' = [mark EXCEPT ![c] = TRUE]
    /\ UNCHANGED <<held, generation, repoVars, pc, writerRest>>

MutantChangeRefs(c) ==                         \* says so after the change, if at all
    /\ pc[c] = "writing"
    /\ repo # NoRefs /\ repo.version < MaxWrites
    /\ repo' = [life |-> repo.life, version |-> repo.version + 1]
    /\ UNCHANGED <<held, generation, recorded, deleting, lives, incarnation, settled, mark, pc, writerRest>>

\* A push, a merge, an import or a ref edit.
ChangeRefs(c) ==
    /\ pc[c] = "writing" /\ mark[c]
    /\ repo # NoRefs /\ repo.version < MaxWrites
    /\ repo' = [life |-> repo.life, version |-> repo.version + 1]
    /\ UNCHANGED <<held, generation, recorded, deleting, lives, incarnation, settled, mark, pc, writerRest>>

\* CreateWithOptions: the folder is published, then the row is written.
PublishFolder(c) ==
    /\ pc[c] = "writing" /\ MoreUnlocks
    /\ ~recorded /\ ~deleting /\ repo = NoRefs /\ lives < MaxLives
    /\ lives' = lives + 1
    /\ repo' = [life |-> lives + 1, version |-> 0]
    /\ mark' = [mark EXCEPT ![c] = TRUE]
    /\ Goto(c, "publishing")
    /\ UNCHANGED <<held, generation, recorded, deleting, incarnation, settled, writerRest>>

\* AddRepository succeeds, or fails and the folder is moved away again.
AddRepository(c) ==
    /\ pc[c] = "publishing"
    /\ \/ recorded' = TRUE /\ UNCHANGED repo
       \/ repo' = NoRefs /\ UNCHANGED recorded
    /\ Goto(c, "closing")
    /\ UNCHANGED <<held, generation, deleting, lives, incarnation, settled, mark, writerRest>>

\* Manager.Delete up to the commit of BeginRepositoryDeletion.
BeginDeletion(c) ==
    /\ pc[c] = "writing" /\ MoreUnlocks
    /\ recorded /\ ~deleting
    /\ recorded' = FALSE
    /\ deleting' = TRUE
    /\ mark' = [mark EXCEPT ![c] = TRUE]
    /\ Goto(c, "deleting")
    /\ UNCHANGED <<held, generation, repo, lives, incarnation, settled, writerRest>>

\* A later Delete of the name, or ReconcileDeletions, takes up a recorded deletion.
ResumeDeletion(c) ==
    /\ pc[c] = "writing" /\ MoreUnlocks
    /\ deleting
    /\ mark' = [mark EXCEPT ![c] = TRUE]
    /\ Goto(c, "deleting")
    /\ UNCHANGED <<held, generation, repoVars, writerRest>>

\* finishDeletion, when the storage checks let it start.
AdvanceIncarnation(c) ==
    /\ pc[c] = "deleting"
    /\ incarnation' = incarnation + 1
    /\ Goto(c, "dropping")
    /\ UNCHANGED <<held, generation, repo, recorded, deleting, lives, settled, mark, writerRest>>

DropSnapshot(c) ==
    /\ pc[c] = "dropping"
    /\ cache' = {}
    /\ Goto(c, "moving")
    /\ UNCHANGED <<held, generation, repoVars, mark, requestVars, answer, polled>>

\* The folder is moved away and the intent is removed.
FinishDeletion(c) ==
    /\ pc[c] = "moving"
    /\ repo' = NoRefs
    /\ deleting' = FALSE
    /\ Goto(c, "closing")
    /\ UNCHANGED <<held, generation, recorded, lives, incarnation, settled, mark, writerRest>>

\* finishDeletion fails and leaves the rest to a later call; the folder may
\* already be gone.
DeletionFails(c) ==
    /\ pc[c] \in {"deleting", "moving"}
    /\ repo' \in IF pc[c] = "moving" THEN {repo, NoRefs} ELSE {repo}
    /\ Goto(c, "closing")
    /\ UNCHANGED <<held, generation, recorded, deleting, lives, incarnation, settled, mark, writerRest>>

MutantAnnounceChange(c) ==                     \* releases before the generation moves
    /\ pc[c] = "closing" \/ (pc[c] = "writing" /\ mark[c])
    /\ Hold(c, "none")
    /\ settled' = repo
    /\ Goto(c, "unlocking")
    /\ UNCHANGED <<generation, repo, recorded, deleting, lives, incarnation, mark, writerRest>>

\* The first half of Unlock.
AnnounceChange(c) ==
    /\ pc[c] = "closing" \/ (pc[c] = "writing" /\ mark[c])
    /\ generation' = generation + 1
    /\ Goto(c, "unlocking")
    /\ UNCHANGED <<held, repoVars, mark, writerRest>>

\* The second half of Unlock.
Unlock(c) ==
    /\ pc[c] = "unlocking"
    /\ Hold(c, "none")
    /\ settled' = repo
    /\ mark' = [mark EXCEPT ![c] = FALSE]
    /\ Goto(c, "idle")
    /\ UNCHANGED <<generation, repo, recorded, deleting, lives, incarnation, writerRest>>

UnlockWithoutRefChanges(c) ==
    /\ pc[c] = "writing" /\ ~mark[c]
    /\ Hold(c, "none")
    /\ settled' = repo
    /\ Goto(c, "idle")
    /\ UNCHANGED <<generation, repo, recorded, deleting, lives, incarnation, mark, writerRest>>

Read(c) ==
    \/ \E m \in Methods : ExistingPath(c, m)
    \/ Lookup(c) \/ LockSnapshot(c) \/ GiveUp(c) \/ LockedLookup(c)
    \/ ReadRefs(c) \/ ReadFails(c) \/ ReturnRead(c)
    \/ LockPinned(c) \/ Unpin(c) \/ BranchHeads(c)

Write(c) ==
    \/ LockWrite(c) \/ MayChangeRefs(c) \/ ChangeRefs(c)
    \/ PublishFolder(c) \/ AddRepository(c)
    \/ BeginDeletion(c) \/ ResumeDeletion(c) \/ AdvanceIncarnation(c)
    \/ DropSnapshot(c) \/ FinishDeletion(c) \/ DeletionFails(c)
    \/ AnnounceChange(c) \/ Unlock(c) \/ UnlockWithoutRefChanges(c)

Next == Evict \/ \E c \in Callers : Read(c) \/ Write(c)

Spec == Init /\ [][Next]_cacheVars
-----------------------------------------------------------------------------
(* Properties. *)

CacheTypeOK ==
    /\ held \in [Callers -> Modes] /\ generation \in Nat
    /\ repo \in Refs /\ settled \in Refs
    /\ recorded \in BOOLEAN /\ deleting \in BOOLEAN
    /\ lives \in 0..MaxLives /\ incarnation \in Nat
    /\ cache \subseteq Entries /\ \A e, f \in cache : e = f
    /\ pc \in [Callers -> PcValues]
    /\ method \in [Callers -> Methods \cup {"none"}]
    /\ found \in [Callers -> 0..MaxLives] /\ listed \in [Callers -> Entries]
    /\ mark \in [Callers -> BOOLEAN]
    /\ answer \in [Callers -> Answers]
    /\ polled \subseteq Polls

\* The lock is held where the program says so.
LockIsHeld ==
    /\ Compatible(held)
    /\ \A c \in Callers : held[c] = IF pc[c] \in WriterPcs THEN "write"
                                  ELSE IF pc[c] \in ReaderPcs THEN "read" ELSE "none"

\* Whoever remembers refs of generation g remembers the settled refs of g.
Remembers(g, refs) == g <= generation /\ (g = generation => refs = settled)

GenerationsNameRefs ==
    /\ NoWriter => settled = repo
    /\ \A c \in Callers : pc[c] = "writing" /\ ~mark[c] => settled = repo
    /\ \A e \in cache : Remembers(e.generation, e.snapshot.refs)
    /\ \A p \in polled : Remembers(p.generation, p.heads)
    /\ (\E c \in Callers : pc[c] = "unlocking") =>
          /\ \A e \in cache : e.generation < generation
          /\ \A p \in polled : p.generation < generation

\* A listing in progress is of the current refs and generation.
ReadsAreCurrent ==
    \A c \in Callers :
        /\ pc[c] \in {"reading", "storing"} => listed[c].generation = generation
        /\ pc[c] = "storing" => listed[c].snapshot = CurrentSnapshot /\ repo # NoRefs

\* The cache holds nothing of an earlier repository.
CacheIsOfThisLife ==
    /\ repo.life \in {0, lives}
    /\ repo.life = 0 => repo = NoRefs /\ cache = {}
    /\ \A c \in Callers : found[c] <= lives
    /\ \A e \in cache : e.snapshot.refs.life = repo.life
    /\ \A c \in Callers : pc[c] \in {"moving", "publishing"} => cache = {}

\* An incarnation names one lifetime, and none while the folder comes or goes.
OfIncarnation(s) ==
    /\ s.refs.life > 0
    /\ s.incarnation <= incarnation
    /\ s.incarnation = incarnation => s.refs.life = repo.life
    /\ (\E c \in Callers : pc[c] \in {"dropping", "moving", "publishing"}) => s.incarnation < incarnation

IncarnationsNameLives ==
    /\ \A e \in cache : OfIncarnation(e.snapshot)
    /\ \A c \in Callers :
        /\ answer[c].kind # "none" => OfIncarnation(answer[c].snapshot)
        /\ method[c] = "snapshotRead" => answer[c].kind # "none"
        /\ pc[c] = "pinned" => answer[c].kind # "none" /\ answer[c].snapshot.incarnation = incarnation

\* The inductive invariant: what the cache and the callers remember, and by
\* which lock, generation and incarnation it is known to hold.
CacheInvariant ==
    /\ CacheTypeOK
    /\ LockIsHeld
    /\ GenerationsNameRefs
    /\ ReadsAreCurrent
    /\ CacheIsOfThisLife
    /\ IncarnationsNameLives

Answered(c, kind) == answer'[c] # answer[c] /\ answer'[c].kind = kind

\* A snapshot that is not marked stale shows the refs as the last writer left
\* them: the current refs, or the ones a writer in progress has not yet
\* replaced.  Nobody is served an older listing or half of a write, with or
\* without the lock.  (refSnapshotPath: "the refs before that write, which is
\* the state the write has not yet replaced".)
SnapshotsAreCurrent ==
    [][\A c \in Callers :
        Answered(c, "current") => answer'[c].snapshot.refs = settled]_cacheVars

\* When a reader of RefState finds the one the coordinator has seen, the heads
\* the coordinator kept from then are the repository's heads, over any number
\* of writes, deletions and creations in between: no push is missed.
UnchangedHeadsAreCurrent ==
    NoWriter => \A p \in Unchanged : p.heads = repo

\* A listing never shows an earlier repository of the same name than the one
\* the request found, even when it is marked stale.
NoSnapshotOfAnEarlierLife ==
    [][\A c \in Callers : Answered(c, "current") \/ Answered(c, "stale") =>
            answer'[c].snapshot.refs.life >= found[c]]_cacheVars

\* Reads pinned to a snapshot read the objects of the repository that the
\* snapshot was taken of, never those of a later one with the same name, and
\* keep it from being deleted meanwhile.
PinnedReadsStayInTheirRepository ==
    \A c \in Callers : pc[c] = "pinned" => answer[c].snapshot.refs.life = repo.life
=============================================================================
