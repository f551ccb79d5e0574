SPECIFICATION FairSpec
CONSTANTS
    Callers = {c1, c2, c3, c4}
    MaxGeneration = 2
INVARIANTS
    LockInvariant
    QueueIsBlocked
PROPERTIES
    ArrivalOrder
    ImplementsReadWriteLock
    EveryCallerIsServed
