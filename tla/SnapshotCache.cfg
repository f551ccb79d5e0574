SPECIFICATION Spec
CONSTANTS
    Callers = {c1, c2, c3}
    MaxWrites = 1
    MaxLives = 2
    MaxUnlocks = 4
SYMMETRY CallerSymmetry
INVARIANTS
    CacheInvariant
    UnchangedHeadsAreCurrent
PROPERTIES
    SnapshotsAreCurrent
