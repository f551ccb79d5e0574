--------------------------- MODULE RepositoryLock ---------------------------
(***************************************************************************)
(* The per-repository reader and writer lock of internal/gitexec/locks.go. *)
(* Every Git writer, reader and maintenance step of OwnGit takes it.       *)
(*                                                                         *)
(* What runs under the mutex l.mu is one action.  A queued caller learns   *)
(* that it holds the lock in a later step (Wake), because dispatchLocked   *)
(* hands the lock over by closing the waiter's channel, and Unlock         *)
(* advances the generation in one step and releases in the next.           *)
(***************************************************************************)
EXTENDS Integers, Sequences, FiniteSets

CONSTANTS
    Callers,        \* goroutines that take the lock, each with one call at a time
    MaxGeneration   \* bound of the model: how often the write lock is released with Unlock

ASSUME CallersAssumption == IsFiniteSet(Callers)
ASSUME MaxGenerationAssumption == MaxGeneration \in Nat

VARIABLES
    readers,        \* RepositoryLock.readers
    writing,        \* RepositoryLock.writing
    writersWaiting, \* RepositoryLock.writersWaiting
    queue,          \* RepositoryLock.queue: callers in arrival order
    ready,          \* callers whose lockWaiter.ready is closed and not yet received from
    generation,     \* RepositoryLock.generation
    waiters,        \* RepositoryLock.waiters
    pc,             \* where each caller is
    call            \* which method each caller is in

lockVars == <<readers, writing, writersWaiting, queue, ready, generation, waiters, pc, call>>

\* The methods that can wait.  The *Context ones can give up; only
\* LockContext passes the write gate.
ReadCalls == {"RLock", "RLockContext"}
WriteCalls == {"Lock", "LockContext", "LockContextUngated"}
Cancellable == {"RLockContext", "LockContext", "LockContextUngated"}
Gated == {"LockContext", "TryLockGated"}

IsWriter(c) == call[c] \in WriteCalls

PcValues == {"idle", "waiting", "gate", "reading", "writing", "releasing"}
CallValues == ReadCalls \cup WriteCalls \cup {"none", "TryLock", "TryLockGated", "TryRLock"}

\* Holders of the lock.  A granted waiter holds it before it wakes up.
ReadHolders == {c \in Callers : pc[c] = "reading" \/ (c \in ready /\ ~IsWriter(c))}
WriteHolders == {c \in Callers : pc[c] \in {"gate", "writing", "releasing"} \/ (c \in ready /\ IsWriter(c))}

Elements(q) == {q[i] : i \in DOMAIN q}
Queued == Elements(queue)
Waiting == {c \in Callers : pc[c] = "waiting"}

\* q without its i-th element, as dequeueLocked copies it.
Without(q, i) == [j \in 1..(Len(q) - 1) |-> IF j < i THEN q[j] ELSE q[j + 1]]

-----------------------------------------------------------------------------
(* Operators named Mutant... are plausible mistakes in the definition that   *)
(* follows them.  The specification does not use them.                       *)

WriteLockFree == ~writing /\ readers = 0 /\ Len(queue) = 0

MutantReadLockFree1 == writersWaiting = 0                         \* forgets the writer
MutantReadLockFree2 == ~writing                                   \* lets readers pass writers
ReadLockFree == ~writing /\ writersWaiting = 0

\* Where a caller that took the write lock with method m goes on: LockContext
\* and TryLockGated run the gate first.
AfterWriteGrant(m) == IF m \in Gated THEN "gate" ELSE "writing"

Init ==
    /\ readers = 0
    /\ writing = FALSE
    /\ writersWaiting = 0
    /\ queue = <<>>
    /\ ready = {}
    /\ generation = 0
    /\ waiters = 0
    /\ pc = [c \in Callers |-> "idle"]
    /\ call = [c \in Callers |-> "none"]

\* Hands the lock to a writer while readers still hold it.
MutantDispatch(q, r, ww) ==
    /\ Len(q) > 0 /\ IsWriter(q[1])
    /\ readers' = r
    /\ writing' = TRUE
    /\ writersWaiting' = ww - 1
    /\ ready' = ready \cup {q[1]}
    /\ queue' = Tail(q)

\* dispatchLocked from queue q with r readers and ww waiting writers, while
\* no writer holds the lock: first the n readers ahead of the first writer,
\* then that writer if nobody reads.
Dispatch(q, r, ww) ==
    \E n \in 0..Len(q) :
        /\ \A i \in 1..n : ~IsWriter(q[i])
        /\ n < Len(q) => IsWriter(q[n + 1])
        /\ LET granted == {q[i] : i \in 1..n}
               grantWriter == n < Len(q) /\ r + n = 0
           IN /\ readers' = r + n
              /\ writing' = grantWriter
              /\ writersWaiting' = IF grantWriter THEN ww - 1 ELSE ww
              /\ ready' = ready \cup granted \cup (IF grantWriter THEN {q[1]} ELSE {})
              /\ queue' = SubSeq(q, (IF grantWriter THEN 2 ELSE n + 1), Len(q))

\* enqueueLocked.
Enqueue(c, m) ==
    /\ queue' = Append(queue, c)
    /\ writersWaiting' = IF m \in WriteCalls THEN writersWaiting + 1 ELSE writersWaiting
    /\ waiters' = waiters + 1
    /\ pc' = [pc EXCEPT ![c] = "waiting"]
    /\ UNCHANGED <<readers, writing, ready, generation>>

\* Lock, LockContext and LockContextUngated.
AcquireWrite(c, m) ==
    /\ pc[c] = "idle"
    /\ call' = [call EXCEPT ![c] = m]
    /\ \/ /\ WriteLockFree
          /\ writing' = TRUE
          /\ pc' = [pc EXCEPT ![c] = AfterWriteGrant(m)]
          /\ UNCHANGED <<readers, writersWaiting, queue, ready, generation, waiters>>
       \/ ~WriteLockFree /\ Enqueue(c, m)

\* RLock and RLockContext.
AcquireRead(c, m) ==
    /\ pc[c] = "idle"
    /\ call' = [call EXCEPT ![c] = m]
    /\ \/ /\ ReadLockFree
          /\ readers' = readers + 1
          /\ pc' = [pc EXCEPT ![c] = "reading"]
          /\ UNCHANGED <<writing, writersWaiting, queue, ready, generation, waiters>>
       \/ ~ReadLockFree /\ Enqueue(c, m)

\* TryLock and TryLockGated; they report false, and change nothing, when the
\* lock is not free.
TryWrite(c, m) ==
    /\ pc[c] = "idle"
    /\ WriteLockFree
    /\ writing' = TRUE
    /\ call' = [call EXCEPT ![c] = m]
    /\ pc' = [pc EXCEPT ![c] = AfterWriteGrant(m)]
    /\ UNCHANGED <<readers, writersWaiting, queue, ready, generation, waiters>>

TryRead(c) ==
    /\ pc[c] = "idle"
    /\ ReadLockFree
    /\ readers' = readers + 1
    /\ call' = [call EXCEPT ![c] = "TryRLock"]
    /\ pc' = [pc EXCEPT ![c] = "reading"]
    /\ UNCHANGED <<writing, writersWaiting, queue, ready, generation, waiters>>

\* A waiter receives from its closed channel.  It does so as well when its
\* context ended first but the lock arrived before it could take l.mu.
Wake(c) ==
    /\ pc[c] = "waiting"
    /\ c \in ready
    /\ ready' = ready \ {c}
    /\ waiters' = waiters - 1
    /\ pc' = [pc EXCEPT ![c] = IF IsWriter(c) THEN AfterWriteGrant(call[c]) ELSE "reading"]
    /\ UNCHANGED <<readers, writing, writersWaiting, queue, generation, call>>

\* Leaves the queue without letting the callers behind move up.
MutantGiveUp1(c) ==
    /\ pc[c] = "waiting"
    /\ call[c] \in Cancellable
    /\ \E i \in DOMAIN queue : queue[i] = c /\ queue' = Without(queue, i)
    /\ writersWaiting' = IF IsWriter(c) THEN writersWaiting - 1 ELSE writersWaiting
    /\ waiters' = waiters - 1
    /\ pc' = [pc EXCEPT ![c] = "idle"]
    /\ call' = [call EXCEPT ![c] = "none"]
    /\ UNCHANGED <<generation, readers, writing, ready>>

\* Leaves the queue and is still counted as a waiting writer.

\* waitForTurn when the context ends first: dequeueLocked, and the callers
\* behind move up.
GiveUp(c) ==
    /\ pc[c] = "waiting"
    /\ call[c] \in Cancellable
    /\ \E i \in DOMAIN queue : queue[i] = c /\
       LET rest == Without(queue, i)
           ww == IF IsWriter(c) THEN writersWaiting - 1 ELSE writersWaiting
       IN IF writing
          THEN /\ queue' = rest
               /\ writersWaiting' = ww
               /\ UNCHANGED <<readers, writing, ready>>
          ELSE Dispatch(rest, readers, ww)
    /\ waiters' = waiters - 1
    /\ pc' = [pc EXCEPT ![c] = "idle"]
    /\ call' = [call EXCEPT ![c] = "none"]
    /\ UNCHANGED generation

\* releaseWriteLock at the end of caller c's turn.
ReleaseWriteLock(c) ==
    /\ Dispatch(queue, readers, writersWaiting)
    /\ pc' = [pc EXCEPT ![c] = "idle"]
    /\ call' = [call EXCEPT ![c] = "none"]
    /\ UNCHANGED <<generation, waiters>>

\* passGate: the write gate accepts the holder.
PassGate(c) ==
    /\ pc[c] = "gate"
    /\ pc' = [pc EXCEPT ![c] = "writing"]
    /\ UNCHANGED <<readers, writing, writersWaiting, queue, ready, generation, waiters, call>>

\* passGate: the write gate refuses, and the lock is released unused.
RefuseGate(c) ==
    /\ pc[c] = "gate"
    /\ ReleaseWriteLock(c)

\* The first half of Unlock.
AdvanceGeneration(c) ==
    /\ pc[c] = "writing"
    /\ generation < MaxGeneration
    /\ generation' = generation + 1
    /\ pc' = [pc EXCEPT ![c] = "releasing"]
    /\ UNCHANGED <<readers, writing, writersWaiting, queue, ready, waiters, call>>

\* The second half of Unlock.
Unlock(c) ==
    /\ pc[c] = "releasing"
    /\ ReleaseWriteLock(c)

UnlockWithoutRefChanges(c) ==
    /\ pc[c] = "writing"
    /\ ReleaseWriteLock(c)

\* RUnlock.  dispatchLocked does nothing while other readers hold the lock
\* ahead of a writer.
RUnlock(c) ==
    /\ pc[c] = "reading"
    /\ Dispatch(queue, readers - 1, writersWaiting)
    /\ pc' = [pc EXCEPT ![c] = "idle"]
    /\ call' = [call EXCEPT ![c] = "none"]
    /\ UNCHANGED <<generation, waiters>>

Acquire(c) ==
    \/ \E m \in WriteCalls : AcquireWrite(c, m)
    \/ \E m \in ReadCalls : AcquireRead(c, m)
    \/ \E m \in {"TryLock", "TryLockGated"} : TryWrite(c, m)
    \/ TryRead(c)

Release(c) ==
    \/ RefuseGate(c)
    \/ Unlock(c)
    \/ UnlockWithoutRefChanges(c)
    \/ RUnlock(c)

Step(c) ==
    \/ Acquire(c)
    \/ Wake(c)
    \/ GiveUp(c)
    \/ PassGate(c)
    \/ AdvanceGeneration(c)
    \/ Release(c)

Next == \E c \in Callers : Step(c)

Spec == Init /\ [][Next]_lockVars

\* A caller that was handed the lock runs on, and a holder ends its turn.
\* Nobody is obliged to ask for the lock or to give up waiting.
Fairness ==
    \A c \in Callers : WF_lockVars(Wake(c)) /\ WF_lockVars(Release(c)) /\ WF_lockVars(PassGate(c))

FairSpec == Spec /\ Fairness
-----------------------------------------------------------------------------
(* Properties. *)

LockTypeOK ==
    /\ readers \in Nat
    /\ writing \in BOOLEAN
    /\ writersWaiting \in Nat
    /\ queue \in Seq(Callers)
    /\ ready \subseteq Callers
    /\ generation \in 0..MaxGeneration
    /\ waiters \in Nat
    /\ pc \in [Callers -> PcValues]
    /\ call \in [Callers -> CallValues]

\* The counters name the callers that hold the lock: nobody is counted twice,
\* forgotten by a release or granted a lock it no longer waits for, and a
\* writer is alone.  (RepositoryLock.readers and .writing; the panics of
\* RUnlock and releaseWriteLock cannot happen.)
HoldersAreCounted ==
    /\ readers = Cardinality(ReadHolders)
    /\ writing <=> WriteHolders # {}
    /\ \A c, d \in WriteHolders : c = d
    /\ writing => readers = 0

\* No lost wake-up: whoever is first in the queue is kept out by a holder, so
\* a release or a caller that gives up never leaves the lock free with callers
\* queued.  ("A queued waiter implies a held lock", writeLockFreeLocked.)
QueueIsBlocked ==
    Len(queue) > 0 => (writing \/ (IsWriter(Head(queue)) /\ readers > 0))

\* Waiting() is true exactly while a caller sits in one of the waiting
\* methods, and readers are turned away exactly while a writer is queued, so
\* a caller that gives up leaves nothing behind.
WaitersAreCounted ==
    /\ waiters = Cardinality(Waiting)
    /\ writersWaiting = Cardinality({c \in Queued : IsWriter(c)})
    /\ Queued \cup ready = Waiting

\* A caller waits at most once.
Distinct(q) == \A i, j \in DOMAIN q : i # j => q[i] # q[j]

\* The inductive invariant behind the two counts: a caller that waits is either
\* queued, once, or was handed the lock and not yet woken (dispatchLocked,
\* dequeueLocked).
LockInvariant ==
    /\ LockTypeOK
    /\ Distinct(queue)
    /\ Queued \cap ready = {}
    /\ HoldersAreCounted
    /\ WaitersAreCounted

\* A reader that asks for the generation twice while it holds the lock gets
\* the same answer ("It is stable while the caller holds the read lock").
GenerationStableForReaders ==
    [][ReadHolders # {} => generation' = generation]_lockVars

Holders == ReadHolders \cup WriteHolders
Before(i, c) == \A j \in 1..i : queue[j] # c

\* The lock hands out its turns in arrival order: a caller that comes to hold
\* the lock leaves nobody in the queue that had arrived before it ("A queued
\* waiter implies a held lock ... which keeps this caller behind the waiters
\* that arrived first").
ArrivalOrder ==
    [][\A c \in Callers :
        (c \notin Holders /\ (c \in Holders)') =>
            \A i \in DOMAIN queue : Before(i, c) => queue[i] \notin Queued']_lockVars

\* Every caller that waits is served or gives up: no writer starves behind
\* readers and nobody waits for a lock that is free.
EveryCallerIsServed ==
    \A c \in Callers : (pc[c] = "waiting") ~> (pc[c] # "waiting")
-----------------------------------------------------------------------------
\* How the lock is held, for its callers.
Held == [c \in Callers |->
    IF c \in ReadHolders THEN "read" ELSE IF c \in WriteHolders THEN "write" ELSE "none"]

Access == INSTANCE ReadWriteLock WITH held <- Held

\* The queueing lock is a readers and writer lock: every hand-over goes to
\* compatible holders, and the generation moves only under a writer.
ImplementsReadWriteLock == Access!AccessSpec
=============================================================================
